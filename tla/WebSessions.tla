----------------------------- MODULE WebSessions -----------------------------
(***************************************************************************)
(* The credentials of internal/server/auth.go and the session handlers of  *)
(* internal/server/web.go over the token store, internal/store/            *)
(* tokenstore.go: three files that the server's handlers, its next start   *)
(* and the command `server credentials reset`, a process of its own, read  *)
(* and write without a lock around more than one call.                     *)
(*                                                                         *)
(* A credential is a number, newer ones greater; the hash of a token is    *)
(* the token.  That time passes is action SessionExpires.                  *)
(***************************************************************************)
EXTENDS Naturals

CONSTANTS
    Sessions,       \* session tokens, each generated once at most
    Requests,       \* requests of browsers that run at the same time
    MaxCredentials, \* API tokens and passwords ever generated
    MaxFaults,      \* calls of the store that fail, and processes that die
    None,           \* no session
    Torn            \* a file that os.WriteFile truncated and did not write

ASSUME WebSessionsAssumption ==
    /\ MaxCredentials \in Nat
    /\ MaxFaults \in Nat
    /\ None \notin Sessions
    /\ Torn \notin Sessions \union Nat
    /\ None # Torn

VARIABLES
    apiToken,       \* api_token.json: 0 when there is no such file
    adminPassword,  \* admin_password.json
    session,        \* session_token.json
    expired,        \* its ExpiresAt is in the past
    server,         \* the server process
    request,        \* its handlers
    reset,          \* where the process of `server credentials reset` is
    made,           \* the credentials it has generated
    generated,      \* how many credentials were generated
    faults,         \* how many calls failed and processes died
    \* history:
    issuedUnder,    \* the password each session was given for
    ended,          \* sessions ended by a logout, a reset or a newer login
    late,           \* requests that act on what they read before that end
    leftover,       \* the stored session was written by such a request
    crossed,        \* a start generated a credential during the reset that runs
    interrupted,    \* a reset stopped after a deletion, before its new token
    mixed,          \* one did during a reset that has not deleted the session since
    required,       \* a start has ended with the credentials enabled
    excused         \* the last start met such a reset, or one that was running

files == <<apiToken, adminPassword, session, expired>>
history == <<issuedUnder, ended, late, leftover, crossed, interrupted, mixed, required, excused>>
vars == <<files, server, request, reset, made, generated, faults, history>>

Credentials == 0..MaxCredentials
Files == Credentials \union {Torn}
Whole(f) == f \notin {0, Torn}

AuthModes == {"auto", "none", "token"}
Addresses == {"loopback", "public"}
\* Of the configuration: --auth, --insecure-allow-no-auth, the addresses
\* of the two listeners and --web.
Configs == [authMode : AuthModes, insecure : BOOLEAN, listen : SUBSET Addresses, web : BOOLEAN]

TypeOK ==
    /\ apiToken \in Files
    /\ adminPassword \in Files
    /\ session \in Sessions \union {None, Torn}
    /\ expired \in BOOLEAN
    /\ server \in [at : {"down", "generating", "password", "making password", "up"},
                   mode : {"enabled", "disabled"}, web : BOOLEAN, allInOne : BOOLEAN]
    /\ request \in [Requests -> [at : {"idle", "matched", "checked", "copied"},
                                 password : Credentials, copy : Sessions \union {None}]]
    /\ reset \in {"idle", "delete token", "delete password", "delete session",
                  "put token", "put password", "print"}
    /\ made \in [token : Credentials, password : Credentials]
    /\ generated \in Credentials
    /\ faults \in 0..MaxFaults
    /\ issuedUnder \in [Sessions -> Credentials]
    /\ ended \in SUBSET Sessions
    /\ late \in SUBSET Requests
    /\ leftover \in BOOLEAN
    /\ crossed \in BOOLEAN
    /\ interrupted \in BOOLEAN
    /\ mixed \in BOOLEAN
    /\ required \in BOOLEAN
    /\ excused \in BOOLEAN

Down == [at |-> "down", mode |-> "enabled", web |-> FALSE, allInOne |-> FALSE]
Idle == [at |-> "idle", password |-> 0, copy |-> None]
Matched(n) == [at |-> "matched", password |-> n, copy |-> None]
Checked == [at |-> "checked", password |-> 0, copy |-> None]
Copied(s) == [at |-> "copied", password |-> 0, copy |-> s]
Nothing == [token |-> 0, password |-> 0]

\* An empty data directory.
Init ==
    /\ apiToken = 0 /\ adminPassword = 0 /\ session = None /\ expired = FALSE
    /\ server = Down
    /\ request = [r \in Requests |-> Idle]
    /\ reset = "idle" /\ made = Nothing
    /\ generated = 0 /\ faults = 0
    /\ issuedUnder = [s \in Sessions |-> 0]
    /\ ended = {} /\ late = {} /\ leftover = FALSE /\ crossed = FALSE
    /\ interrupted = FALSE /\ mixed = FALSE /\ required = FALSE /\ excused = FALSE

Fault == faults < MaxFaults /\ faults' = faults + 1
Fresh(n) == n = generated + 1 /\ n <= MaxCredentials /\ generated' = n

----------------------------------------------------------------------------
\* The start of the server: New calls initCredentials.

IsLoopback(c) == c.listen \subseteq {"loopback"}

\* `octoplex run` has these; the mode does not depend on the store then.
AllInOne(c) == c.authMode = "none" /\ c.insecure /\ IsLoopback(c)

\* (Mutant: auto is decided before an existing token is looked at.)
DecisionByAddress(c, f) ==
    IF c.listen = {} \/ f = Torn THEN "refuse"
    ELSE IF c.authMode # "token" /\ IsLoopback(c) THEN "disabled"
    ELSE IF Whole(f) THEN "enabled"
    ELSE IF c.authMode # "none" THEN "generate"
    ELSE IF c.insecure THEN "disabled" ELSE "refuse"

\* What initAPICredentials does when the API token file is f.
Decision(c, f) ==
    IF c.listen = {} \/ f = Torn THEN "refuse"
    ELSE IF AllInOne(c) THEN "disabled"
    ELSE IF Whole(f) THEN "enabled"
    ELSE IF c.authMode = "none" THEN
        IF IsLoopback(c) \/ c.insecure THEN "disabled" ELSE "refuse"
    ELSE IF c.authMode = "auto" /\ IsLoopback(c) THEN "disabled"
    ELSE "generate"

Proceed(web, disabled) == IF web /\ ~disabled THEN "password" ELSE "up"

Start(c) ==
    /\ server.at = "down"
    /\ LET d == Decision(c, apiToken) IN
       /\ d # "refuse"
       /\ server' = [at |-> IF d = "generate" THEN "generating"
                            ELSE Proceed(c.web, d = "disabled"),
                     mode |-> IF d = "disabled" THEN "disabled" ELSE "enabled",
                     web |-> c.web, allInOne |-> AllInOne(c)]
       /\ required' = (required \/ (d = "enabled" /\ ~c.web))
       /\ excused' = (interrupted \/ reset # "idle")
    /\ UNCHANGED <<files, request, reset, made, generated, faults,
                   issuedUnder, ended, late, leftover, interrupted, crossed, mixed>>

\* (History) a credential is generated while a reset runs.
Crosses ==
    /\ mixed' = (mixed \/ reset # "idle")
    /\ crossed' = (reset # "idle")
    /\ UNCHANGED <<reset, made>>

GenerateAPIToken ==
    /\ server.at = "generating"
    /\ \E n \in Credentials : Fresh(n) /\ apiToken' = n
    /\ server' = [server EXCEPT !.at = Proceed(server.web, FALSE)]
    /\ required' = (required \/ ~server.web)
    /\ Crosses
    /\ UNCHANGED <<adminPassword, session, expired, request, faults,
                   issuedUnder, ended, late, leftover, interrupted, excused>>

ReadAdminPassword ==
    /\ server.at = "password"
    /\ \/ adminPassword = Torn /\ server' = Down /\ UNCHANGED required
       \/ adminPassword = 0
          /\ server' = [server EXCEPT !.at = "making password"] /\ UNCHANGED required
       \/ Whole(adminPassword) /\ server' = [server EXCEPT !.at = "up"] /\ required' = TRUE
    /\ UNCHANGED <<files, request, reset, made, generated, faults,
                   issuedUnder, ended, late, leftover, interrupted, crossed, mixed, excused>>

GenerateAdminPassword ==
    /\ server.at = "making password"
    /\ \E n \in Credentials : Fresh(n) /\ adminPassword' = n
    /\ server' = [server EXCEPT !.at = "up"]
    /\ required' = TRUE
    /\ Crosses
    /\ UNCHANGED <<apiToken, session, expired, request, faults,
                   issuedUnder, ended, late, leftover, interrupted, excused>>

\* A call of the start fails, and New with it, or the process dies: the file
\* it was to put may be torn.
StartFails ==
    /\ Fault
    /\ \/ server.at = "generating" /\ apiToken' \in {apiToken, Torn} /\ UNCHANGED adminPassword
       \/ server.at = "password" /\ UNCHANGED <<apiToken, adminPassword>>
       \/ server.at = "making password" /\ adminPassword' \in {adminPassword, Torn}
          /\ UNCHANGED apiToken
    /\ server' = Down
    /\ Crosses
    /\ UNCHANGED <<session, expired, request, generated,
                   issuedUnder, ended, late, leftover, interrupted, required, excused>>

\* The server stops or dies with its requests.
ServerStops ==
    /\ server.at = "up"
    /\ server' = Down
    /\ request' = [r \in Requests |-> Idle]
    /\ late' = {}
    /\ UNCHANGED <<files, reset, made, generated, faults, issuedUnder, ended, leftover,
                   interrupted, crossed, mixed, required, excused>>

----------------------------------------------------------------------------
\* The handlers of the server.

\* isAuthenticatedWithSessionToken and isAuthenticatedWithAPIToken: the
\* files are read for each request.
AcceptsSession(s) == session \in Sessions /\ session = s /\ ~expired
AcceptsToken(n) == Whole(apiToken) /\ apiToken = n

\* authInterceptor: whether a call that presents token n and cookie s is served.
Serves(n, s) ==
    /\ server.at = "up"
    /\ server.mode = "disabled" \/ AcceptsToken(n) \/ AcceptsSession(s)

Enabled == server.at = "up" /\ server.mode = "enabled"

\* The requests that hold a copy of the session token when it ends.
HoldACopy == {r \in Requests : request[r].at = "copied"}
Whose(s) == {s} \intersect Sessions

\* Of POST /session: the password was read, and the one given matches it.
LoginMatches(r) ==
    /\ Enabled
    /\ request[r].at = "idle"
    /\ Whole(adminPassword)
    /\ request' = [request EXCEPT ![r] = Matched(adminPassword)]
    /\ UNCHANGED <<files, server, reset, made, generated, faults, history>>

LoginPuts(r, s) ==
    /\ request[r].at = "matched"
    /\ issuedUnder[s] = 0
    /\ session' = s /\ expired' = FALSE
    /\ issuedUnder' = [issuedUnder EXCEPT ![s] = request[r].password]
    /\ ended' = ended \union Whose(session)
    /\ leftover' = (r \in late)
    /\ late' = (late \union HoldACopy) \ {r}
    /\ request' = [request EXCEPT ![r] = Idle]
    /\ UNCHANGED <<apiToken, adminPassword, server, reset, made, generated, faults,
                   interrupted, crossed, mixed, required, excused>>

\* POST /session/destroy does not look at the cookie.
Logout ==
    /\ server.at = "up"
    /\ session' = None /\ expired' = FALSE
    /\ ended' = ended \union Whose(session)
    /\ leftover' = FALSE
    /\ late' = late \union HoldACopy
    /\ UNCHANGED <<apiToken, adminPassword, server, request, reset, made, generated, faults,
                   issuedUnder, interrupted, crossed, mixed, required, excused>>

\* POST /session/refresh reads the session three times: to check the
\* cookie, to copy the record, and by writing the copy.
RefreshChecks(r, s) ==
    /\ Enabled
    /\ request[r].at = "idle"
    /\ AcceptsSession(s)
    /\ request' = [request EXCEPT ![r] = Checked]
    /\ UNCHANGED <<files, server, reset, made, generated, faults, history>>

\* (Mutant: the error of Get is not looked at.)
RefreshGetsUnchecked(r) ==
    /\ request[r].at = "checked"
    /\ request' = [request EXCEPT ![r] = Copied(session)]
    /\ UNCHANGED <<files, server, reset, made, generated, faults, history>>

RefreshGets(r) ==
    /\ request[r].at = "checked"
    /\ request' = [request EXCEPT ![r] =
                    IF session \in Sessions THEN Copied(session)
                    ELSE Idle]
    /\ UNCHANGED <<files, server, reset, made, generated, faults, history>>

RefreshPuts(r) ==
    /\ request[r].at = "copied"
    /\ session' = request[r].copy /\ expired' = FALSE
    /\ ended' = ended \union (Whose(session) \ {request[r].copy})
    /\ leftover' = (r \in late \/ leftover)
    /\ late' = late \ {r}
    /\ request' = [request EXCEPT ![r] = Idle]
    /\ UNCHANGED <<apiToken, adminPassword, server, reset, made, generated, faults,
                   issuedUnder, interrupted, crossed, mixed, required, excused>>

\* A Put of a handler fails: the answer is an internal server error.
RequestFails(r) ==
    /\ Fault
    /\ request[r].at \in {"matched", "copied"}
    /\ \/ UNCHANGED <<session, expired, ended>> /\ late' = late \ {r}
       \/ /\ session' = Torn /\ expired' = FALSE
          /\ ended' = ended \union Whose(session)
          /\ late' = (late \union HoldACopy) \ {r}
    /\ request' = [request EXCEPT ![r] = Idle]
    /\ UNCHANGED <<apiToken, adminPassword, server, reset, made, generated,
                   issuedUnder, leftover, interrupted, crossed, mixed, required, excused>>

SessionExpires ==
    /\ session \in Sessions
    /\ expired' = TRUE
    /\ UNCHANGED <<apiToken, adminPassword, session, server, request, reset, made,
                   generated, faults, history>>

----------------------------------------------------------------------------
\* ResetCredentials, one call of the store after the other.

\* (Mutant: the session is deleted while the old password still opens one.)
FollowingSessionFirst == [x \in {"delete token", "delete password", "delete session", "put token",
                                 "put password"} |->
    CASE x = "delete token" -> "delete session"
      [] x = "delete session" -> "delete password"
      [] x = "delete password" -> "put token"
      [] x = "put token" -> "put password"
      [] x = "put password" -> "print"]

Following == [x \in {"delete token", "delete password", "delete session", "put token",
                     "put password"} |->
    CASE x = "delete token" -> "delete password"
      [] x = "delete password" -> "delete session"
      [] x = "delete session" -> "put token"
      [] x = "put token" -> "put password"
      [] x = "put password" -> "print"]

ResetBegins ==
    /\ reset = "idle"
    /\ reset' = "delete token"
    /\ UNCHANGED <<files, server, request, made, generated, faults, history>>

ResetDeletesToken ==
    /\ reset = "delete token"
    /\ apiToken' = 0
    /\ reset' = Following[reset]
    /\ UNCHANGED <<adminPassword, session, expired, server, request, made, generated,
                   faults, history>>

ResetDeletesPassword ==
    /\ reset = "delete password"
    /\ adminPassword' = 0
    /\ reset' = Following[reset]
    /\ UNCHANGED <<apiToken, session, expired, server, request, made, generated, faults, history>>

ResetDeletesSession ==
    /\ reset = "delete session"
    /\ session' = None /\ expired' = FALSE
    /\ ended' = ended \union Whose(session)
    /\ leftover' = FALSE
    /\ late' = late \union {r \in Requests : request[r].at \in {"matched", "copied"}}
    /\ mixed' = crossed
    /\ reset' = Following[reset]
    /\ UNCHANGED <<apiToken, adminPassword, server, request, made, generated, faults,
                   issuedUnder, crossed, interrupted, required, excused>>

ResetPutsToken ==
    /\ reset = "put token"
    /\ reset' = Following[reset]
    /\ \E n \in Credentials :
        /\ Fresh(n) /\ apiToken' = n
        /\ made' = [made EXCEPT !.token = n]
    /\ interrupted' = FALSE
    /\ UNCHANGED <<adminPassword, session, expired, server, request, faults,
                   issuedUnder, ended, late, leftover, crossed, mixed, required, excused>>

ResetPutsPassword ==
    /\ reset = "put password"
    /\ reset' = Following[reset]
    /\ \E n \in Credentials :
        /\ Fresh(n) /\ adminPassword' = n
        /\ made' = [made EXCEPT !.password = n]
    /\ UNCHANGED <<apiToken, session, expired, server, request, faults, history>>

ResetEnds == reset' = "idle" /\ made' = Nothing /\ crossed' = FALSE

\* The command prints what was generated, and ends.
ResetPrints ==
    /\ reset = "print"
    /\ ResetEnds
    /\ UNCHANGED <<files, server, request, generated, faults,
                   issuedUnder, ended, late, leftover, interrupted, mixed, required, excused>>

\* (Mutant: the error of putting the token is not looked at.)
ResetFailsUnchecked ==
    /\ Fault
    /\ reset = "put token"
    /\ apiToken' = Torn
    /\ reset' = Following[reset]
    /\ UNCHANGED <<adminPassword, session, expired, server, request, made, generated, history>>

\* A call of the store fails or the process dies: nothing is printed.
ResetFails ==
    /\ Fault
    /\ reset # "idle"
    /\ \/ UNCHANGED <<apiToken, adminPassword>>
       \/ reset = "put token" /\ apiToken' = Torn /\ UNCHANGED adminPassword
       \/ reset = "put password" /\ adminPassword' = Torn /\ UNCHANGED apiToken
    /\ ResetEnds
    /\ interrupted' = (interrupted \/
                       reset \in {"delete password", "delete session", "put token"})
    /\ UNCHANGED <<session, expired, server, request, generated,
                   issuedUnder, ended, late, leftover, mixed, required, excused>>

----------------------------------------------------------------------------
Next ==
    \/ \E c \in Configs : Start(c)
    \/ GenerateAPIToken \/ ReadAdminPassword \/ GenerateAdminPassword
    \/ StartFails \/ ServerStops
    \/ \E r \in Requests :
        \/ LoginMatches(r) \/ \E s \in Sessions : LoginPuts(r, s) \/ RefreshChecks(r, s)
        \/ RefreshGets(r) \/ RefreshPuts(r) \/ RequestFails(r)
    \/ Logout \/ SessionExpires
    \/ ResetBegins \/ ResetDeletesToken \/ ResetDeletesPassword \/ ResetDeletesSession
    \/ ResetPutsToken \/ ResetPutsPassword \/ ResetPrints \/ ResetFails

Spec == Init /\ [][Next]_vars

----------------------------------------------------------------------------
\* A session that was ended by a logout, by a newer login or by a reset is
\* not accepted again, and a session that outlives a reset was given for the
\* password the reset made; the exceptions are a request that had read the
\* session or the password before and writes after, a reset that was
\* interrupted, and one that a start of the server, which found no password,
\* was mixed with.
SessionsEnd ==
    \A s \in Sessions : (AcceptsSession(s) /\ ~leftover) =>
        /\ s \notin ended
        /\ \/ interrupted \/ mixed
           \/ reset = "delete session"
           \/ issuedUnder[s] = adminPassword

\* Once a start of the server has required authentication, no later server
\* serves a call without credentials, whatever its configuration, unless it is
\* the all-in-one mode or its start met a reset that had deleted the token or
\* was interrupted then.
AuthenticationStays ==
    (required /\ Serves(0, None)) => server.allInOne \/ excused

\* What the reset command prints is stored, whole and accepted at that moment,
\* unless a start of the server generated a credential of its own meanwhile.
PrintedIsInForce ==
    [][ResetPrints => mixed \/ (AcceptsToken(made.token) /\ adminPassword = made.password)]_vars
=============================================================================
