-------------------------- MODULE WebSessions_proofs --------------------------
(***************************************************************************)
(* Proofs about WebSessions: for any number of sessions, requests, starts, *)
(* resets and failures its type is kept, a server that required            *)
(* authentication is not followed by an open one, what a reset prints is   *)
(* in force, and an ended session is not accepted again.                   *)
(***************************************************************************)
EXTENDS WebSessions, TLAPS

Starting == {"generating", "password", "making password"}

\* Why authentication stays: a token stays stored, or a reset is between its
\* deletion and its new token, or was stopped there.
TokenKept ==
    \/ apiToken # 0
    \/ interrupted
    \/ reset \in {"delete password", "delete session", "put token"}

AuthenticationKept ==
    /\ (required \/ server.at \in {"password", "making password"}) => TokenKept
    /\ server.at \in Starting => server.mode = "enabled"
    /\ (server.at = "up" /\ server.mode = "disabled" /\ required) => server.allInOne \/ excused

\* Why what is printed holds: only a start that was mixed with the reset
\* writes the two files after it has.
PutsKept ==
    /\ reset \in {"put password", "print"} =>
        mixed \/ (apiToken = made.token /\ apiToken \notin {0, Torn})
    /\ reset = "print" => mixed \/ adminPassword = made.password

\* Why sessions end: a session and a password that was matched belong to the
\* stored password unless a reset is about to delete the session.
IssuedKept ==
    /\ session \in Sessions => issuedUnder[session] # 0
    /\ \A s \in ended : issuedUnder[s] # 0
    /\ \A r \in Requests :
        /\ request[r].at = "matched" => request[r].password # 0
        /\ request[r].at = "copied" =>
            request[r].copy \in Sessions /\ issuedUnder[request[r].copy] # 0
        /\ server.at # "up" => request[r].at = "idle"

CrossedKept ==
    /\ crossed => mixed
    /\ reset \in {"delete session", "put token", "put password"} =>
        adminPassword = 0 \/ crossed

Excepted == interrupted \/ mixed \/ reset = "delete session"
Counts == session \in Sessions /\ ~leftover

SessionKept ==
    /\ Counts => session \notin ended
    /\ Counts => Excepted \/ issuedUnder[session] = adminPassword
    /\ (Counts /\ server.at = "making password") => Excepted
    /\ (Counts /\ reset \in {"put token", "put password"}) => mixed

RequestKept ==
    \A r \in Requests \ late :
        /\ (request[r].at = "copied" /\ ~leftover) => session = request[r].copy
        /\ request[r].at = "matched" => Excepted \/ request[r].password = adminPassword
        /\ (request[r].at = "matched" /\ reset \in {"put token", "put password"}) => mixed

SessionsKept == IssuedKept /\ CrossedKept /\ SessionKept /\ RequestKept

----------------------------------------------------------------------------
LEMMA FollowingSteps ==
    /\ Following["delete token"] = "delete password"
    /\ Following["delete password"] = "delete session"
    /\ Following["delete session"] = "put token"
    /\ Following["put token"] = "put password"
    /\ Following["put password"] = "print"
BY DEF Following

LEMMA FilesUnchanged ==
    ASSUME UNCHANGED files
    PROVE  /\ apiToken' = apiToken /\ adminPassword' = adminPassword
           /\ session' = session /\ expired' = expired
BY DEF files

LEMMA FaultCounts ==
    ASSUME faults \in 0..MaxFaults, Fault PROVE faults' \in 0..MaxFaults
BY WebSessionsAssumption DEF Fault

LEMMA StoredTypes ==
    /\ 0 \in Credentials
    /\ Credentials \subseteq Files
    /\ Torn \in Files
    /\ \A f \in Files : Whole(f) => f \in Credentials
BY WebSessionsAssumption DEF Credentials, Files, Whole

FilesType ==
    /\ apiToken \in Files /\ adminPassword \in Files
    /\ session \in Sessions \union {None, Torn}
ServerType ==
    server \in [at : {"down", "generating", "password", "making password", "up"},
                mode : {"enabled", "disabled"}, web : BOOLEAN, allInOne : BOOLEAN]
RequestType ==
    request \in [Requests -> [at : {"idle", "matched", "checked", "copied"},
                             password : Credentials, copy : Sessions \union {None}]]
ResetType ==
    /\ reset \in {"idle", "delete token", "delete password", "delete session",
                  "put token", "put password", "print"}
    /\ made \in [token : Credentials, password : Credentials]
CountsType ==
    /\ generated \in Credentials
    /\ faults \in 0..MaxFaults
    /\ issuedUnder \in [Sessions -> Credentials]
    /\ ended \in SUBSET Sessions
    /\ late \in SUBSET Requests
FlagsType ==
    /\ expired \in BOOLEAN /\ leftover \in BOOLEAN /\ crossed \in BOOLEAN /\ interrupted \in BOOLEAN
    /\ mixed \in BOOLEAN /\ required \in BOOLEAN /\ excused \in BOOLEAN
Types == FilesType /\ ServerType /\ RequestType /\ ResetType /\ CountsType /\ FlagsType

LEMMA TypesAreTypeOK == Types <=> TypeOK
BY DEF Types, TypeOK, FilesType, ServerType, RequestType, ResetType, CountsType, FlagsType

LEMMA TypeStep == Types /\ [Next]_vars => Types'
<1> SUFFICES ASSUME Types, [Next]_vars PROVE Types'
  OBVIOUS
<1> FilesType /\ ServerType /\ RequestType /\ ResetType /\ CountsType /\ FlagsType
  BY DEF Types
<1>1. ASSUME NEW c \in Configs, Start(c) PROVE Types'
  <2>1. ServerType'
    BY <1>1, StoredTypes DEF ServerType, Start, Proceed, Configs, Decision, AllInOne, history
  <2>2. FlagsType'
    BY <1>1, FilesUnchanged DEF FlagsType, Start, history
  <2>3. FilesType' /\ RequestType' /\ ResetType' /\ CountsType'
    BY <1>1, FilesUnchanged DEF Start, history, FilesType, RequestType, ResetType,
       CountsType
  <2>. QED
    BY <2>1, <2>2, <2>3 DEF Types
<1>2. CASE GenerateAPIToken
  <2>1. FilesType'
    BY <1>2, StoredTypes DEF FilesType, GenerateAPIToken, Fresh, history
  <2>2. ServerType'
    BY <1>2, StoredTypes DEF ServerType, GenerateAPIToken, Proceed, history
  <2>3. CountsType'
    BY <1>2, StoredTypes DEF CountsType, GenerateAPIToken, Fresh, history
  <2>4. FlagsType'
    BY <1>2 DEF FlagsType, GenerateAPIToken, Crosses, history
  <2>5. RequestType' /\ ResetType'
    BY <1>2 DEF GenerateAPIToken, Crosses, history, RequestType, ResetType
  <2>. QED
    BY <2>1, <2>2, <2>3, <2>4, <2>5 DEF Types
<1>3. CASE ReadAdminPassword
  <2>1. ServerType'
    <3>1. CASE adminPassword = Torn /\ server' = Down
      BY <3>1 DEF Down, ServerType
    <3>2. CASE server' \in {[server EXCEPT !.at = "making password"], [server EXCEPT !.at = "up"]}
      BY <3>2 DEF ServerType
    <3>. QED
      BY <1>3, <3>1, <3>2 DEF ReadAdminPassword
  <2>2. FlagsType'
    BY <1>3, FilesUnchanged DEF FlagsType, ReadAdminPassword, history
  <2>3. FilesType' /\ RequestType' /\ ResetType' /\ CountsType'
    BY <1>3, FilesUnchanged DEF ReadAdminPassword, history, FilesType, RequestType,
       ResetType, CountsType
  <2>. QED
    BY <2>1, <2>2, <2>3 DEF Types
<1>4. CASE GenerateAdminPassword
  <2>1. FilesType'
    BY <1>4, StoredTypes DEF FilesType, GenerateAdminPassword, Fresh, history
  <2>2. ServerType'
    BY <1>4, StoredTypes DEF ServerType, GenerateAdminPassword, history
  <2>3. CountsType'
    BY <1>4, StoredTypes DEF CountsType, GenerateAdminPassword, Fresh, history
  <2>4. FlagsType'
    BY <1>4 DEF FlagsType, GenerateAdminPassword, Crosses, history
  <2>5. RequestType' /\ ResetType'
    BY <1>4 DEF GenerateAdminPassword, Crosses, history, RequestType, ResetType
  <2>. QED
    BY <2>1, <2>2, <2>3, <2>4, <2>5 DEF Types
<1>5. CASE StartFails
  <2>1. FilesType'
    BY <1>5, StoredTypes DEF FilesType, StartFails, history
  <2>2. ServerType'
    BY <1>5, StoredTypes DEF ServerType, StartFails, Down, history
  <2>3. CountsType'
    BY <1>5, StoredTypes, FaultCounts DEF CountsType, StartFails, history
  <2>4. FlagsType'
    BY <1>5 DEF FlagsType, StartFails, Crosses, history
  <2>5. RequestType' /\ ResetType'
    BY <1>5 DEF StartFails, Crosses, history, RequestType, ResetType
  <2>. QED
    BY <2>1, <2>2, <2>3, <2>4, <2>5 DEF Types
<1>6. CASE ServerStops
  <2>1. ServerType'
    BY <1>6, StoredTypes DEF ServerType, ServerStops, Down, history
  <2>2. RequestType'
    BY <1>6, StoredTypes DEF RequestType, ServerStops, Idle, history
  <2>3. CountsType'
    BY <1>6, StoredTypes DEF CountsType, ServerStops, history
  <2>4. FilesType' /\ ResetType' /\ FlagsType'
    BY <1>6, FilesUnchanged DEF ServerStops, history, FilesType, ResetType, FlagsType
  <2>. QED
    BY <2>1, <2>2, <2>3, <2>4 DEF Types
<1>7. ASSUME NEW r \in Requests, LoginMatches(r) PROVE Types'
  <2>1. RequestType'
    BY <1>7, StoredTypes DEF FilesType, RequestType, LoginMatches, Matched, Enabled, history
  <2>2. FlagsType'
    BY <1>7, FilesUnchanged DEF LoginMatches, history, FlagsType
  <2>3. FilesType' /\ ServerType' /\ ResetType' /\ CountsType'
    BY <1>7, FilesUnchanged DEF LoginMatches, history, FilesType, ServerType, ResetType,
       CountsType
  <2>. QED
    BY <2>1, <2>2, <2>3 DEF Types
<1>8. ASSUME NEW r \in Requests, NEW s \in Sessions, LoginPuts(r, s) PROVE Types'
  <2>1. FilesType'
    BY <1>8, StoredTypes DEF FilesType, LoginPuts, Whose, history
  <2>2. RequestType'
    BY <1>8, StoredTypes DEF RequestType, LoginPuts, Idle, history
  <2>3. CountsType'
    BY <1>8, StoredTypes DEF RequestType, CountsType, LoginPuts, Whose, HoldACopy, history
  <2>4. FlagsType'
    <3>1. leftover' = (r \in late)
      BY <1>8 DEF LoginPuts
    <3>2. leftover' \in BOOLEAN
      BY <3>1
    <3>. QED
      BY <1>8, <3>2 DEF LoginPuts, FlagsType
  <2>5. ServerType' /\ ResetType'
    BY <1>8 DEF LoginPuts, history, ServerType, ResetType
  <2>. QED
    BY <2>1, <2>2, <2>3, <2>4, <2>5 DEF Types
<1>9. ASSUME NEW r \in Requests, NEW s \in Sessions, RefreshChecks(r, s) PROVE Types'
  <2>1. RequestType'
    BY <1>9, StoredTypes DEF RequestType, RefreshChecks, Checked, Enabled, history
  <2>2. FlagsType'
    BY <1>9, FilesUnchanged DEF RefreshChecks, history, FlagsType
  <2>3. FilesType' /\ ServerType' /\ ResetType' /\ CountsType'
    BY <1>9, FilesUnchanged DEF RefreshChecks, history, FilesType, ServerType,
       ResetType, CountsType
  <2>. QED
    BY <2>1, <2>2, <2>3 DEF Types
<1>10. ASSUME NEW r \in Requests, RefreshGets(r) PROVE Types'
  <2>1. RequestType'
    BY <1>10, StoredTypes DEF FilesType, RequestType, RefreshGets, Idle, Copied, history
  <2>2. FlagsType'
    BY <1>10, FilesUnchanged DEF RefreshGets, history, FlagsType
  <2>3. FilesType' /\ ServerType' /\ ResetType' /\ CountsType'
    BY <1>10, FilesUnchanged DEF RefreshGets, history, FilesType, ServerType, ResetType,
       CountsType
  <2>. QED
    BY <2>1, <2>2, <2>3 DEF Types
<1>11. ASSUME NEW r \in Requests, RefreshPuts(r) PROVE Types'
  <2>1. FilesType'
    BY <1>11, StoredTypes DEF RequestType, FilesType, RefreshPuts, Whose, history
  <2>2. RequestType'
    BY <1>11, StoredTypes DEF RequestType, RefreshPuts, Idle, history
  <2>3. CountsType'
    BY <1>11, StoredTypes DEF CountsType, RefreshPuts, Whose, history
  <2>4. FlagsType'
    BY <1>11 DEF FlagsType, RefreshPuts, history
  <2>5. ServerType' /\ ResetType'
    BY <1>11 DEF RefreshPuts, history, ServerType, ResetType
  <2>. QED
    BY <2>1, <2>2, <2>3, <2>4, <2>5 DEF Types
<1>12. ASSUME NEW r \in Requests, RequestFails(r) PROVE Types'
  <2>1. FilesType'
    BY <1>12, StoredTypes DEF FilesType, RequestFails, Whose, history
  <2>2. RequestType'
    BY <1>12, StoredTypes DEF RequestType, RequestFails, Idle, history
  <2>3. CountsType'
    BY <1>12, StoredTypes, FaultCounts DEF CountsType, RequestFails, Whose, HoldACopy, history
  <2>4. FlagsType'
    BY <1>12 DEF FlagsType, RequestFails, history
  <2>5. ServerType' /\ ResetType'
    BY <1>12 DEF RequestFails, history, ServerType, ResetType
  <2>. QED
    BY <2>1, <2>2, <2>3, <2>4, <2>5 DEF Types
<1>13. CASE Logout
  <2>1. FilesType'
    BY <1>13, StoredTypes DEF FilesType, Logout, Whose, history
  <2>2. CountsType'
    BY <1>13, StoredTypes DEF CountsType, Logout, Whose, HoldACopy, history
  <2>3. FlagsType'
    BY <1>13 DEF FlagsType, Logout, history
  <2>4. ServerType' /\ RequestType' /\ ResetType'
    BY <1>13 DEF Logout, history, ServerType, RequestType, ResetType
  <2>. QED
    BY <2>1, <2>2, <2>3, <2>4 DEF Types
<1>14. CASE SessionExpires
  <2>1. FlagsType'
    BY <1>14 DEF FlagsType, SessionExpires, history
  <2>2. FilesType' /\ ServerType' /\ RequestType' /\ ResetType' /\ CountsType'
    BY <1>14 DEF SessionExpires, history, FilesType, ServerType, RequestType, ResetType,
       CountsType
  <2>. QED
    BY <2>1, <2>2 DEF Types
<1>15. CASE ResetBegins
  <2>1. ResetType'
    BY <1>15, StoredTypes DEF ResetType, ResetBegins, history
  <2>2. FlagsType'
    BY <1>15, FilesUnchanged DEF ResetBegins, history, FlagsType
  <2>3. FilesType' /\ ServerType' /\ RequestType' /\ CountsType'
    BY <1>15, FilesUnchanged DEF ResetBegins, history, FilesType, ServerType,
       RequestType, CountsType
  <2>. QED
    BY <2>1, <2>2, <2>3 DEF Types
<1>16. CASE ResetDeletesToken
  <2>1. FilesType'
    BY <1>16, StoredTypes DEF FilesType, ResetDeletesToken, history
  <2>2. ResetType'
    BY <1>16, StoredTypes, FollowingSteps DEF ResetType, ResetDeletesToken, history
  <2>3. ServerType' /\ RequestType' /\ CountsType' /\ FlagsType'
    BY <1>16 DEF ResetDeletesToken, history, ServerType, RequestType, CountsType,
       FlagsType
  <2>. QED
    BY <2>1, <2>2, <2>3 DEF Types
<1>17. CASE ResetDeletesPassword
  <2>1. FilesType'
    BY <1>17, StoredTypes DEF FilesType, ResetDeletesPassword, history
  <2>2. ResetType'
    BY <1>17, StoredTypes, FollowingSteps DEF ResetType, ResetDeletesPassword, history
  <2>3. ServerType' /\ RequestType' /\ CountsType' /\ FlagsType'
    BY <1>17 DEF ResetDeletesPassword, history, ServerType, RequestType, CountsType,
       FlagsType
  <2>. QED
    BY <2>1, <2>2, <2>3 DEF Types
<1>18. CASE ResetDeletesSession
  <2>1. FilesType'
    BY <1>18, StoredTypes DEF FilesType, ResetDeletesSession, Whose, history
  <2>2. ResetType'
    BY <1>18, StoredTypes, FollowingSteps DEF ResetType, ResetDeletesSession, history
  <2>3. CountsType'
    BY <1>18, StoredTypes DEF CountsType, ResetDeletesSession, Whose, history
  <2>4. FlagsType'
    BY <1>18 DEF FlagsType, ResetDeletesSession, history
  <2>5. ServerType' /\ RequestType'
    BY <1>18 DEF ResetDeletesSession, history, ServerType, RequestType
  <2>. QED
    BY <2>1, <2>2, <2>3, <2>4, <2>5 DEF Types
<1>19. CASE ResetPutsToken
  <2>1. FilesType'
    BY <1>19, StoredTypes DEF FilesType, ResetPutsToken, Fresh, history
  <2>2. ResetType'
    BY <1>19, StoredTypes, FollowingSteps DEF ResetType, ResetPutsToken, Fresh, history
  <2>3. CountsType'
    BY <1>19, StoredTypes DEF CountsType, ResetPutsToken, Fresh, history
  <2>4. FlagsType'
    BY <1>19 DEF FlagsType, ResetPutsToken, history
  <2>5. ServerType' /\ RequestType'
    BY <1>19 DEF ResetPutsToken, history, ServerType, RequestType
  <2>. QED
    BY <2>1, <2>2, <2>3, <2>4, <2>5 DEF Types
<1>20. CASE ResetPutsPassword
  <2>1. FilesType'
    BY <1>20, StoredTypes DEF FilesType, ResetPutsPassword, Fresh, history
  <2>2. ResetType'
    BY <1>20, StoredTypes, FollowingSteps DEF ResetType, ResetPutsPassword, Fresh, history
  <2>3. CountsType'
    BY <1>20, StoredTypes DEF CountsType, ResetPutsPassword, Fresh, history
  <2>4. ServerType' /\ RequestType' /\ FlagsType'
    BY <1>20 DEF ResetPutsPassword, history, ServerType, RequestType, FlagsType
  <2>. QED
    BY <2>1, <2>2, <2>3, <2>4 DEF Types
<1>21. CASE ResetPrints
  <2>1. ResetType'
    BY <1>21, StoredTypes DEF ResetType, ResetPrints, ResetEnds, Nothing, history
  <2>2. FlagsType'
    BY <1>21, FilesUnchanged DEF FlagsType, ResetPrints, ResetEnds, history
  <2>3. FilesType' /\ ServerType' /\ RequestType' /\ CountsType'
    BY <1>21, FilesUnchanged DEF ResetPrints, history, FilesType, ServerType,
       RequestType, CountsType
  <2>. QED
    BY <2>1, <2>2, <2>3 DEF Types
<1>22. CASE ResetFails
  <2>1. FilesType'
    BY <1>22, StoredTypes DEF FilesType, ResetFails, history
  <2>2. ResetType'
    BY <1>22, StoredTypes DEF ResetType, ResetFails, ResetEnds, Nothing, history
  <2>3. CountsType'
    BY <1>22, StoredTypes, FaultCounts DEF CountsType, ResetFails, history
  <2>4. FlagsType'
    BY <1>22 DEF FlagsType, ResetFails, ResetEnds, history
  <2>5. ServerType' /\ RequestType'
    BY <1>22 DEF ResetFails, history, ServerType, RequestType
  <2>. QED
    BY <2>1, <2>2, <2>3, <2>4, <2>5 DEF Types
<1>23. CASE UNCHANGED vars
  <2>1. FlagsType'
    BY <1>23, FilesUnchanged DEF vars, history, FlagsType
  <2>2. FilesType' /\ ServerType' /\ RequestType' /\ ResetType' /\ CountsType'
    BY <1>23, FilesUnchanged DEF vars, history, FilesType, ServerType, RequestType,
       ResetType, CountsType
  <2>. QED
    BY <2>1, <2>2 DEF Types
<1>. QED
  BY <1>1, <1>2, <1>3, <1>4, <1>5, <1>6, <1>7, <1>8, <1>9, <1>10, <1>11, <1>12, <1>13,
     <1>14, <1>15, <1>16, <1>17, <1>18, <1>19, <1>20, <1>21, <1>22, <1>23 DEF Next

LEMMA InitTypes == Init => Types
<1> SUFFICES ASSUME Init PROVE Types
  OBVIOUS
<1>1. FilesType /\ RequestType /\ ResetType
  BY StoredTypes DEF Init, Idle, Nothing, FilesType, RequestType, ResetType
<1>2. ServerType
  BY DEF Init, Down, ServerType
<1>3. CountsType
  BY StoredTypes, WebSessionsAssumption DEF Init, CountsType
<1>4. FlagsType
  BY DEF Init, FlagsType
<1>. QED
  BY <1>1, <1>2, <1>3, <1>4 DEF Types

\* Every variable of WebSessions keeps its type.
THEOREM TypeCorrect == Spec => []TypeOK
<1>1. QED
  BY InitTypes, TypeStep, TypesAreTypeOK, PTL DEF Spec

----------------------------------------------------------------------------
(***************************************************************************)
(* Authentication stays.                                                   *)
(***************************************************************************)
LEMMA FreshCredential ==
    ASSUME CountsType, NEW n \in Credentials, Fresh(n) PROVE n # 0 /\ n # Torn
BY WebSessionsAssumption DEF CountsType, Credentials, Fresh

LEMMA TornIsNoCredential == Torn \notin Credentials /\ Torn # 0
BY WebSessionsAssumption DEF Credentials

LEMMA DecisionMeans ==
    ASSUME NEW c \in Configs, NEW f, Decision(c, f) # "refuse"
    PROVE  /\ Decision(c, f) \in {"disabled", "enabled", "generate"}
           /\ Decision(c, f) = "enabled" => f # 0
           /\ Decision(c, f) = "disabled" => AllInOne(c) \/ f = 0
BY DEF Decision, Whole

LEMMA AuthenticationStep == Types /\ AuthenticationKept /\ [Next]_vars => AuthenticationKept'
<1> SUFFICES ASSUME Types, AuthenticationKept, [Next]_vars PROVE AuthenticationKept'
  OBVIOUS
<1> ServerType /\ CountsType
  BY DEF Types
<1>1. ASSUME NEW c \in Configs, Start(c) PROVE AuthenticationKept'
  <2>. DEFINE d == Decision(c, apiToken)
  <2>1. /\ d \in {"disabled", "enabled", "generate"}
        /\ d = "enabled" => apiToken # 0
        /\ d = "disabled" => AllInOne(c) \/ apiToken = 0
    BY <1>1, DecisionMeans DEF Start
  <2>2. /\ apiToken' = apiToken /\ interrupted' = interrupted /\ reset' = reset
        /\ server' = [at |-> IF d = "generate" THEN "generating"
                             ELSE Proceed(c.web, d = "disabled"),
                      mode |-> IF d = "disabled" THEN "disabled" ELSE "enabled",
                      web |-> c.web, allInOne |-> AllInOne(c)]
    BY <1>1, FilesUnchanged DEF Start
  <2>3. /\ required' => required \/ d = "enabled"
        /\ interrupted \/ reset # "idle" => excused'
    BY <1>1 DEF Start
  <2>4. CASE d = "disabled"
    <3>1. server'.at = "up" /\ server'.mode = "disabled" /\ server'.allInOne = AllInOne(c)
      BY <2>2, <2>4 DEF Proceed
    <3>. QED
      BY <2>1, <2>2, <2>3, <2>4, <3>1 DEF AuthenticationKept, TokenKept, Starting
  <2>5. CASE d # "disabled"
    <3>1. server'.mode = "enabled" /\ (server'.at = "password" => d = "enabled")
          /\ server'.at # "making password"
      BY <2>1, <2>2, <2>5 DEF Proceed
    <3>. QED
      BY <2>1, <2>2, <2>3, <2>5, <3>1 DEF AuthenticationKept, TokenKept, Starting
  <2>. QED
    BY <2>4, <2>5
<1>2. CASE GenerateAPIToken
  <2>1. apiToken' # 0
    BY <1>2, FreshCredential DEF GenerateAPIToken
  <2>2. server'.mode = "enabled"
    BY <1>2 DEF GenerateAPIToken, ServerType, AuthenticationKept, Starting
  <2>. QED
    BY <2>1, <2>2 DEF AuthenticationKept, TokenKept
<1>3. CASE ReadAdminPassword
  <2>1. server.at = "password" /\ server.mode = "enabled" /\ TokenKept
    BY <1>3 DEF ReadAdminPassword, AuthenticationKept, Starting
  <2>2. TokenKept'
    BY <1>3, <2>1, FilesUnchanged DEF ReadAdminPassword, TokenKept
  <2>3. CASE server' = Down
    BY <2>2, <2>3 DEF AuthenticationKept, Down, Starting
  <2>4. CASE server'.mode = "enabled"
    BY <2>2, <2>4 DEF AuthenticationKept
  <2>. QED
    BY <1>3, <2>1, <2>3, <2>4 DEF ReadAdminPassword, ServerType
<1>4. CASE GenerateAdminPassword
  <2>1. server.mode = "enabled" /\ TokenKept
    BY <1>4 DEF GenerateAdminPassword, AuthenticationKept, Starting
  <2>2. TokenKept'
    BY <1>4, <2>1 DEF GenerateAdminPassword, Crosses, TokenKept
  <2>3. server'.mode = "enabled"
    BY <1>4, <2>1 DEF GenerateAdminPassword, ServerType
  <2>. QED
    BY <2>2, <2>3 DEF AuthenticationKept
<1>5. CASE StartFails
  BY <1>5, TornIsNoCredential
     DEF StartFails, Crosses, Down, AuthenticationKept, TokenKept, Starting
<1>6. CASE ServerStops
  BY <1>6, FilesUnchanged
     DEF ServerStops, Down, AuthenticationKept, TokenKept, Starting
<1>7. ASSUME NEW r \in Requests, LoginMatches(r) PROVE AuthenticationKept'
  BY <1>7, FilesUnchanged
     DEF LoginMatches, history, AuthenticationKept, TokenKept, Starting
<1>8. ASSUME NEW r \in Requests, NEW s \in Sessions, LoginPuts(r, s) PROVE AuthenticationKept'
  BY <1>8
     DEF LoginPuts, AuthenticationKept, TokenKept, Starting
<1>9. ASSUME NEW r \in Requests, NEW s \in Sessions, RefreshChecks(r, s) PROVE AuthenticationKept'
  BY <1>9, FilesUnchanged
     DEF RefreshChecks, history, AuthenticationKept, TokenKept, Starting
<1>10. ASSUME NEW r \in Requests, RefreshGets(r) PROVE AuthenticationKept'
  BY <1>10, FilesUnchanged
     DEF RefreshGets, history, AuthenticationKept, TokenKept, Starting
<1>11. ASSUME NEW r \in Requests, RefreshPuts(r) PROVE AuthenticationKept'
  BY <1>11
     DEF RefreshPuts, AuthenticationKept, TokenKept, Starting
<1>12. ASSUME NEW r \in Requests, RequestFails(r) PROVE AuthenticationKept'
  BY <1>12
     DEF RequestFails, AuthenticationKept, TokenKept, Starting
<1>13. CASE Logout
  BY <1>13
     DEF Logout, AuthenticationKept, TokenKept, Starting
<1>14. CASE SessionExpires
  BY <1>14
     DEF SessionExpires, history, AuthenticationKept, TokenKept, Starting
<1>15. CASE ResetBegins
  BY <1>15, FilesUnchanged
     DEF ResetBegins, history, AuthenticationKept, TokenKept, Starting
<1>16. CASE ResetDeletesToken
  BY <1>16, FollowingSteps
     DEF ResetDeletesToken, history, AuthenticationKept, TokenKept, Starting
<1>17. CASE ResetDeletesPassword
  BY <1>17, FollowingSteps
     DEF ResetDeletesPassword, history, AuthenticationKept, TokenKept, Starting
<1>18. CASE ResetDeletesSession
  BY <1>18, FollowingSteps
     DEF ResetDeletesSession, history, AuthenticationKept, TokenKept, Starting
<1>19. CASE ResetPutsToken
  BY <1>19, FollowingSteps, FreshCredential
     DEF ResetPutsToken, Fresh, history, AuthenticationKept, TokenKept, Starting
<1>20. CASE ResetPutsPassword
  BY <1>20, FollowingSteps
     DEF ResetPutsPassword, history, AuthenticationKept, TokenKept, Starting
<1>21. CASE ResetPrints
  BY <1>21, FilesUnchanged
     DEF ResetPrints, ResetEnds, history, AuthenticationKept, TokenKept, Starting
<1>22. CASE ResetFails
  BY <1>22, TornIsNoCredential
     DEF ResetFails, ResetEnds, history, AuthenticationKept, TokenKept, Starting
<1>23. CASE UNCHANGED vars
  BY <1>23, FilesUnchanged
     DEF vars, history, AuthenticationKept, TokenKept, Starting
<1>. QED
  BY <1>1, <1>2, <1>3, <1>4, <1>5, <1>6, <1>7, <1>8, <1>9, <1>10, <1>11, <1>12, <1>13,
     <1>14, <1>15, <1>16, <1>17, <1>18, <1>19, <1>20, <1>21, <1>22, <1>23 DEF Next

\* Once a start has required authentication, a server that serves calls
\* without credentials is the all-in-one mode or one whose start met a reset
\* that ran or that had been stopped between its deletions and its new token.
THEOREM AuthenticationAlwaysStays == Spec => []AuthenticationStays
<1>1. Init => AuthenticationKept
  BY DEF Init, Down, AuthenticationKept, Starting
<1>2. AuthenticationKept => AuthenticationStays
  BY WebSessionsAssumption
     DEF AuthenticationKept, AuthenticationStays, Serves, AcceptsToken, AcceptsSession, Whole
<1>3. QED
  BY <1>1, <1>2, InitTypes, TypeStep, AuthenticationStep, PTL DEF Spec
----------------------------------------------------------------------------
(***************************************************************************)
(* What a reset prints.                                                    *)
(***************************************************************************)
LEMMA PutsStep == Types /\ PutsKept /\ [Next]_vars => PutsKept'
<1> SUFFICES ASSUME Types, PutsKept, [Next]_vars PROVE PutsKept'
  OBVIOUS
<1> ResetType /\ CountsType
  BY DEF Types
<1>1. ASSUME NEW c \in Configs, Start(c) PROVE PutsKept'
  BY <1>1, FilesUnchanged
     DEF Start, PutsKept
<1>2. CASE GenerateAPIToken
  BY <1>2
     DEF GenerateAPIToken, Crosses, PutsKept
<1>3. CASE ReadAdminPassword
  BY <1>3, FilesUnchanged
     DEF ReadAdminPassword, PutsKept
<1>4. CASE GenerateAdminPassword
  BY <1>4
     DEF GenerateAdminPassword, Crosses, PutsKept
<1>5. CASE StartFails
  BY <1>5
     DEF StartFails, Crosses, PutsKept
<1>6. CASE ServerStops
  BY <1>6, FilesUnchanged
     DEF ServerStops, PutsKept
<1>7. ASSUME NEW r \in Requests, LoginMatches(r) PROVE PutsKept'
  BY <1>7, FilesUnchanged
     DEF LoginMatches, history, PutsKept
<1>8. ASSUME NEW r \in Requests, NEW s \in Sessions, LoginPuts(r, s) PROVE PutsKept'
  BY <1>8
     DEF LoginPuts, PutsKept
<1>9. ASSUME NEW r \in Requests, NEW s \in Sessions, RefreshChecks(r, s) PROVE PutsKept'
  BY <1>9, FilesUnchanged
     DEF RefreshChecks, history, PutsKept
<1>10. ASSUME NEW r \in Requests, RefreshGets(r) PROVE PutsKept'
  BY <1>10, FilesUnchanged
     DEF RefreshGets, history, PutsKept
<1>11. ASSUME NEW r \in Requests, RefreshPuts(r) PROVE PutsKept'
  BY <1>11
     DEF RefreshPuts, PutsKept
<1>12. ASSUME NEW r \in Requests, RequestFails(r) PROVE PutsKept'
  BY <1>12
     DEF RequestFails, PutsKept
<1>13. CASE Logout
  BY <1>13
     DEF Logout, PutsKept
<1>14. CASE SessionExpires
  BY <1>14
     DEF SessionExpires, history, PutsKept
<1>15. CASE ResetBegins
  BY <1>15, FilesUnchanged
     DEF ResetBegins, history, PutsKept
<1>16. CASE ResetDeletesToken
  BY <1>16, FollowingSteps
     DEF ResetDeletesToken, history, PutsKept
<1>17. CASE ResetDeletesPassword
  BY <1>17, FollowingSteps
     DEF ResetDeletesPassword, history, PutsKept
<1>18. CASE ResetDeletesSession
  BY <1>18, FollowingSteps
     DEF ResetDeletesSession, PutsKept
<1>19. CASE ResetPutsToken
  <2>1. PICK n \in Credentials : Fresh(n) /\ apiToken' = n /\ made' = [made EXCEPT !.token = n]
    BY <1>19 DEF ResetPutsToken
  <2>2. made'.token = n /\ apiToken' \notin {0, Torn}
    BY <2>1, FreshCredential DEF ResetType
  <2>3. reset' = "put password"
    BY <1>19, FollowingSteps DEF ResetPutsToken
  <2>. QED
    BY <2>1, <2>2, <2>3 DEF PutsKept
<1>20. CASE ResetPutsPassword
  <2>1. PICK n \in Credentials : adminPassword' = n /\ made' = [made EXCEPT !.password = n]
    BY <1>20 DEF ResetPutsPassword
  <2>2. made'.password = n /\ made'.token = made.token
    BY <2>1 DEF ResetType
  <2>3. reset = "put password" /\ reset' = "print" /\ apiToken' = apiToken /\ mixed' = mixed
    BY <1>20, FollowingSteps DEF ResetPutsPassword, history
  <2>. QED
    BY <2>1, <2>2, <2>3 DEF PutsKept
<1>21. CASE ResetPrints
  BY <1>21, FilesUnchanged
     DEF ResetPrints, ResetEnds, PutsKept
<1>22. CASE ResetFails
  BY <1>22
     DEF ResetFails, ResetEnds, PutsKept
<1>23. CASE UNCHANGED vars
  BY <1>23, FilesUnchanged
     DEF vars, history, PutsKept
<1>. QED
  BY <1>1, <1>2, <1>3, <1>4, <1>5, <1>6, <1>7, <1>8, <1>9, <1>10, <1>11, <1>12, <1>13,
     <1>14, <1>15, <1>16, <1>17, <1>18, <1>19, <1>20, <1>21, <1>22, <1>23 DEF Next

\* A reset that no start of a server was mixed with prints a token and a
\* password that are both stored and whole at that moment.
THEOREM PrintedAlwaysInForce == Spec => PrintedIsInForce
<1>1. Init => PutsKept
  BY DEF Init, PutsKept
<1>2. PutsKept /\ [Next]_vars =>
        [ResetPrints => mixed \/ (AcceptsToken(made.token) /\ adminPassword = made.password)]_vars
  BY DEF PutsKept, ResetPrints, AcceptsToken, Whole
<1>3. QED
  BY <1>1, <1>2, InitTypes, TypeStep, PutsStep, PTL DEF Spec, PrintedIsInForce

----------------------------------------------------------------------------
(***************************************************************************)
(* Sessions end.                                                           *)
(***************************************************************************)
LEMMA NoSession == None \notin Sessions /\ Torn \notin Sessions
BY WebSessionsAssumption

LEMMA OneRequest ==
    ASSUME RequestType, NEW r \in Requests, NEW v, request' = [request EXCEPT ![r] = v]
    PROVE  request'[r] = v /\ \A q \in Requests \ {r} : request'[q] = request[q]
BY DEF RequestType

LEMMA IssuedStep == Types /\ IssuedKept /\ [Next]_vars => IssuedKept'
<1> SUFFICES ASSUME Types, IssuedKept, [Next]_vars PROVE IssuedKept'
  OBVIOUS
<1> FilesType /\ ServerType /\ RequestType /\ ResetType /\ CountsType
  BY DEF Types
<1>1. ASSUME NEW c \in Configs, Start(c) PROVE IssuedKept'
  BY <1>1, FilesUnchanged
     DEF Start, IssuedKept
<1>2. CASE GenerateAPIToken
  BY <1>2
     DEF GenerateAPIToken, Crosses, IssuedKept
<1>3. CASE ReadAdminPassword
  BY <1>3, FilesUnchanged
     DEF ReadAdminPassword, Down, IssuedKept
<1>4. CASE GenerateAdminPassword
  BY <1>4
     DEF GenerateAdminPassword, Crosses, IssuedKept
<1>5. CASE StartFails
  BY <1>5
     DEF StartFails, Crosses, Down, IssuedKept
<1>6. CASE ServerStops
  BY <1>6, FilesUnchanged
     DEF ServerStops, Down, Idle, IssuedKept
<1>7. ASSUME NEW r \in Requests, LoginMatches(r) PROVE IssuedKept'
  BY <1>7, FilesUnchanged, OneRequest
     DEF LoginMatches, history, Enabled, Matched, Whole, IssuedKept
<1>8. ASSUME NEW r \in Requests, NEW s \in Sessions, LoginPuts(r, s) PROVE IssuedKept'
  <2>1. request'[r] = Idle /\ \A q \in Requests \ {r} : request'[q] = request[q]
    BY <1>8, OneRequest DEF LoginPuts
  <2>2. issuedUnder'[s] # 0 /\ \A x \in Sessions \ {s} : issuedUnder'[x] = issuedUnder[x]
    BY <1>8 DEF LoginPuts, CountsType, IssuedKept
  <2>3. \A x \in Sessions : issuedUnder[x] # 0 => issuedUnder'[x] # 0
    BY <2>2
  <2>4. /\ session' = s /\ server' = server
        /\ ended' \subseteq ended \union ({session} \intersect Sessions)
    BY <1>8 DEF LoginPuts, Whose
  <2>5. \A x \in ended' : issuedUnder'[x] # 0
    BY <2>3, <2>4 DEF IssuedKept, CountsType
  <2>6. \A q \in Requests :
          /\ request'[q].at = "matched" => request'[q].password # 0
          /\ request'[q].at = "copied" =>
              request'[q].copy \in Sessions /\ issuedUnder'[request'[q].copy] # 0
          /\ server'.at # "up" => request'[q].at = "idle"
    BY <2>1, <2>3, <2>4 DEF Idle, IssuedKept
  <2>. QED
    BY <2>2, <2>4, <2>5, <2>6 DEF IssuedKept
<1>9. ASSUME NEW r \in Requests, NEW s \in Sessions, RefreshChecks(r, s) PROVE IssuedKept'
  BY <1>9, FilesUnchanged, OneRequest
     DEF RefreshChecks, history, Enabled, Checked, IssuedKept
<1>10. ASSUME NEW r \in Requests, RefreshGets(r) PROVE IssuedKept'
  BY <1>10, FilesUnchanged, OneRequest
     DEF RefreshGets, history, Copied, Idle, IssuedKept
<1>11. ASSUME NEW r \in Requests, RefreshPuts(r) PROVE IssuedKept'
  BY <1>11, OneRequest
     DEF RefreshPuts, Idle, Whose, IssuedKept
<1>12. ASSUME NEW r \in Requests, RequestFails(r) PROVE IssuedKept'
  BY <1>12, OneRequest, NoSession
     DEF RequestFails, Idle, Whose, IssuedKept
<1>13. CASE Logout
  BY <1>13, NoSession
     DEF Logout, Whose, IssuedKept
<1>14. CASE SessionExpires
  BY <1>14
     DEF SessionExpires, history, IssuedKept
<1>15. CASE ResetBegins
  BY <1>15, FilesUnchanged
     DEF ResetBegins, history, IssuedKept
<1>16. CASE ResetDeletesToken
  BY <1>16, FollowingSteps
     DEF ResetDeletesToken, history, IssuedKept
<1>17. CASE ResetDeletesPassword
  BY <1>17, FollowingSteps
     DEF ResetDeletesPassword, history, IssuedKept
<1>18. CASE ResetDeletesSession
  BY <1>18, FollowingSteps, NoSession
     DEF ResetDeletesSession, Whose, IssuedKept
<1>19. CASE ResetPutsToken
  BY <1>19, FollowingSteps
     DEF ResetPutsToken, IssuedKept
<1>20. CASE ResetPutsPassword
  BY <1>20, FollowingSteps
     DEF ResetPutsPassword, history, IssuedKept
<1>21. CASE ResetPrints
  BY <1>21, FilesUnchanged
     DEF ResetPrints, ResetEnds, IssuedKept
<1>22. CASE ResetFails
  BY <1>22
     DEF ResetFails, ResetEnds, IssuedKept
<1>23. CASE UNCHANGED vars
  BY <1>23, FilesUnchanged
     DEF vars, history, IssuedKept
<1>. QED
  BY <1>1, <1>2, <1>3, <1>4, <1>5, <1>6, <1>7, <1>8, <1>9, <1>10, <1>11, <1>12, <1>13,
     <1>14, <1>15, <1>16, <1>17, <1>18, <1>19, <1>20, <1>21, <1>22, <1>23 DEF Next

LEMMA CrossedStep == Types /\ CrossedKept /\ [Next]_vars => CrossedKept'
<1> SUFFICES ASSUME Types, CrossedKept, [Next]_vars PROVE CrossedKept'
  OBVIOUS
<1> FilesType /\ ServerType /\ RequestType /\ ResetType /\ CountsType
  BY DEF Types
<1>1. ASSUME NEW c \in Configs, Start(c) PROVE CrossedKept'
  BY <1>1, FilesUnchanged
     DEF Start, CrossedKept
<1>2. CASE GenerateAPIToken
  BY <1>2
     DEF GenerateAPIToken, Crosses, CrossedKept
<1>3. CASE ReadAdminPassword
  BY <1>3, FilesUnchanged
     DEF ReadAdminPassword, Down, CrossedKept
<1>4. CASE GenerateAdminPassword
  BY <1>4
     DEF GenerateAdminPassword, Crosses, CrossedKept
<1>5. CASE StartFails
  BY <1>5
     DEF StartFails, Crosses, Down, CrossedKept
<1>6. CASE ServerStops
  BY <1>6, FilesUnchanged
     DEF ServerStops, CrossedKept
<1>7. ASSUME NEW r \in Requests, LoginMatches(r) PROVE CrossedKept'
  BY <1>7, FilesUnchanged
     DEF LoginMatches, history, CrossedKept
<1>8. ASSUME NEW r \in Requests, NEW s \in Sessions, LoginPuts(r, s) PROVE CrossedKept'
  BY <1>8
     DEF LoginPuts, CrossedKept
<1>9. ASSUME NEW r \in Requests, NEW s \in Sessions, RefreshChecks(r, s) PROVE CrossedKept'
  BY <1>9, FilesUnchanged
     DEF RefreshChecks, history, CrossedKept
<1>10. ASSUME NEW r \in Requests, RefreshGets(r) PROVE CrossedKept'
  BY <1>10, FilesUnchanged
     DEF RefreshGets, history, CrossedKept
<1>11. ASSUME NEW r \in Requests, RefreshPuts(r) PROVE CrossedKept'
  BY <1>11
     DEF RefreshPuts, CrossedKept
<1>12. ASSUME NEW r \in Requests, RequestFails(r) PROVE CrossedKept'
  BY <1>12
     DEF RequestFails, CrossedKept
<1>13. CASE Logout
  BY <1>13
     DEF Logout, CrossedKept
<1>14. CASE SessionExpires
  BY <1>14
     DEF SessionExpires, history, CrossedKept
<1>15. CASE ResetBegins
  BY <1>15, FilesUnchanged
     DEF ResetBegins, history, CrossedKept
<1>16. CASE ResetDeletesToken
  BY <1>16, FollowingSteps
     DEF ResetDeletesToken, history, CrossedKept
<1>17. CASE ResetDeletesPassword
  BY <1>17, FollowingSteps
     DEF ResetDeletesPassword, history, CrossedKept
<1>18. CASE ResetDeletesSession
  BY <1>18, FollowingSteps
     DEF ResetDeletesSession, CrossedKept
<1>19. CASE ResetPutsToken
  BY <1>19, FollowingSteps
     DEF ResetPutsToken, CrossedKept
<1>20. CASE ResetPutsPassword
  BY <1>20, FollowingSteps
     DEF ResetPutsPassword, history, CrossedKept
<1>21. CASE ResetPrints
  BY <1>21, FilesUnchanged
     DEF ResetPrints, ResetEnds, CrossedKept
<1>22. CASE ResetFails
  BY <1>22
     DEF ResetFails, ResetEnds, CrossedKept
<1>23. CASE UNCHANGED vars
  BY <1>23, FilesUnchanged
     DEF vars, history, CrossedKept
<1>. QED
  BY <1>1, <1>2, <1>3, <1>4, <1>5, <1>6, <1>7, <1>8, <1>9, <1>10, <1>11, <1>12, <1>13,
     <1>14, <1>15, <1>16, <1>17, <1>18, <1>19, <1>20, <1>21, <1>22, <1>23 DEF Next

LEMMA SessionStep == Types /\ SessionsKept /\ [Next]_vars => SessionKept'
<1> SUFFICES ASSUME Types, SessionsKept, [Next]_vars PROVE SessionKept'
  OBVIOUS
<1> IssuedKept /\ CrossedKept /\ SessionKept /\ RequestKept
  BY DEF SessionsKept
<1> FilesType /\ ServerType /\ RequestType /\ ResetType /\ CountsType
  BY DEF Types
<1>1. ASSUME NEW c \in Configs, Start(c) PROVE SessionKept'
  BY <1>1, FilesUnchanged
     DEF Start, Proceed, SessionKept, Counts, Excepted
<1>2. CASE GenerateAPIToken
  BY <1>2
     DEF GenerateAPIToken, Crosses, Proceed, ServerType, SessionKept, Counts, Excepted
<1>3. CASE ReadAdminPassword
  <2>1. /\ adminPassword' = adminPassword /\ session' = session /\ leftover' = leftover
        /\ ended' = ended /\ issuedUnder' = issuedUnder /\ interrupted' = interrupted
        /\ mixed' = mixed /\ reset' = reset
    BY <1>3, FilesUnchanged DEF ReadAdminPassword
  <2>2. server'.at = "making password" => adminPassword = 0
    <3>1. \/ server' = Down
          \/ adminPassword = 0
          \/ server' = [server EXCEPT !.at = "up"]
      BY <1>3 DEF ReadAdminPassword
    <3>2. Down.at = "down"
      BY DEF Down
    <3>3. server' = [server EXCEPT !.at = "up"] => server'.at = "up"
      BY DEF ServerType
    <3>. QED
      BY <3>1, <3>2, <3>3
  <2>. QED
    BY <2>1, <2>2 DEF SessionKept, Counts, Excepted, IssuedKept
<1>4. CASE GenerateAdminPassword
  BY <1>4
     DEF GenerateAdminPassword, Crosses, ServerType, SessionKept, Counts, Excepted
<1>5. CASE StartFails
  BY <1>5
     DEF StartFails, Crosses, Down, SessionKept, Counts, Excepted
<1>6. CASE ServerStops
  BY <1>6, FilesUnchanged
     DEF ServerStops, Down, SessionKept, Counts, Excepted
<1>7. ASSUME NEW r \in Requests, LoginMatches(r) PROVE SessionKept'
  BY <1>7, FilesUnchanged
     DEF LoginMatches, history, SessionKept, Counts, Excepted
<1>8. ASSUME NEW r \in Requests, NEW s \in Sessions, LoginPuts(r, s) PROVE SessionKept'
  <2>1. /\ session' = s /\ ended' \subseteq ended \union ({session} \intersect Sessions)
        /\ leftover' = (r \in late) /\ issuedUnder'[s] = request[r].password
        /\ issuedUnder[s] = 0 /\ request[r].at = "matched"
    BY <1>8 DEF LoginPuts, Whose, CountsType
  <2>2. /\ adminPassword' = adminPassword /\ server' = server /\ interrupted' = interrupted
        /\ mixed' = mixed /\ reset' = reset
    BY <1>8 DEF LoginPuts
  <2>3. s \notin ended'
    BY <2>1 DEF IssuedKept
  <2>4. server.at # "making password"
    BY <2>1 DEF IssuedKept
  <2>5. CASE r \in late
    BY <2>1, <2>5 DEF SessionKept, Counts
  <2>6. CASE r \notin late
    <3>1. /\ Excepted \/ request[r].password = adminPassword
          /\ reset \in {"put token", "put password"} => mixed
      BY <2>1, <2>6 DEF RequestKept
    <3>. QED
      BY <2>1, <2>2, <2>3, <2>4, <3>1 DEF SessionKept, Counts, Excepted
  <2>. QED
    BY <2>5, <2>6
<1>9. ASSUME NEW r \in Requests, NEW s \in Sessions, RefreshChecks(r, s) PROVE SessionKept'
  BY <1>9, FilesUnchanged
     DEF RefreshChecks, history, SessionKept, Counts, Excepted
<1>10. ASSUME NEW r \in Requests, RefreshGets(r) PROVE SessionKept'
  BY <1>10, FilesUnchanged
     DEF RefreshGets, history, SessionKept, Counts, Excepted
<1>11. ASSUME NEW r \in Requests, RefreshPuts(r) PROVE SessionKept'
  <2>1. /\ session' = request[r].copy
        /\ ended' = ended \union (({session} \intersect Sessions) \ {request[r].copy})
        /\ leftover' = (r \in late \/ leftover) /\ request[r].at = "copied"
    BY <1>11 DEF RefreshPuts, Whose
  <2>2. /\ adminPassword' = adminPassword /\ server' = server /\ interrupted' = interrupted
        /\ mixed' = mixed /\ reset' = reset /\ issuedUnder' = issuedUnder
    BY <1>11 DEF RefreshPuts
  <2>3. CASE r \in late \/ leftover
    BY <2>1, <2>3 DEF SessionKept, Counts
  <2>4. CASE r \notin late /\ ~leftover
    <3>1. session = request[r].copy
      BY <2>1, <2>4 DEF RequestKept
    <3>2. session' = session /\ ended' = ended /\ ~leftover
      BY <2>1, <2>4, <3>1
    <3>. QED
      BY <2>2, <3>2 DEF SessionKept, Counts, Excepted
  <2>. QED
    BY <2>3, <2>4
<1>12. ASSUME NEW r \in Requests, RequestFails(r) PROVE SessionKept'
  BY <1>12, NoSession
     DEF RequestFails, Idle, Whose, SessionKept, Counts, Excepted
<1>13. CASE Logout
  BY <1>13, NoSession
     DEF Logout, Whose, SessionKept, Counts, Excepted
<1>14. CASE SessionExpires
  BY <1>14
     DEF SessionExpires, history, SessionKept, Counts, Excepted
<1>15. CASE ResetBegins
  BY <1>15, FilesUnchanged
     DEF ResetBegins, history, SessionKept, Counts, Excepted
<1>16. CASE ResetDeletesToken
  BY <1>16, FollowingSteps
     DEF ResetDeletesToken, history, SessionKept, Counts, Excepted
<1>17. CASE ResetDeletesPassword
  BY <1>17, FollowingSteps
     DEF ResetDeletesPassword, history, SessionKept, Counts, Excepted
<1>18. CASE ResetDeletesSession
  BY <1>18, FollowingSteps, NoSession
     DEF ResetDeletesSession, Whose, SessionKept, Counts, Excepted
<1>19. CASE ResetPutsToken
  BY <1>19, FollowingSteps
     DEF ResetPutsToken, SessionKept, Counts, Excepted
<1>20. CASE ResetPutsPassword
  BY <1>20, FollowingSteps
     DEF ResetPutsPassword, history, SessionKept, Counts, Excepted
<1>21. CASE ResetPrints
  BY <1>21, FilesUnchanged
     DEF ResetPrints, ResetEnds, SessionKept, Counts, Excepted
<1>22. CASE ResetFails
  BY <1>22
     DEF ResetFails, ResetEnds, SessionKept, Counts, Excepted
<1>23. CASE UNCHANGED vars
  BY <1>23, FilesUnchanged
     DEF vars, history, SessionKept, Counts, Excepted
<1>. QED
  BY <1>1, <1>2, <1>3, <1>4, <1>5, <1>6, <1>7, <1>8, <1>9, <1>10, <1>11, <1>12, <1>13,
     <1>14, <1>15, <1>16, <1>17, <1>18, <1>19, <1>20, <1>21, <1>22, <1>23 DEF Next

LEMMA RequestStep == Types /\ SessionsKept /\ [Next]_vars => RequestKept'
<1> SUFFICES ASSUME Types, SessionsKept, [Next]_vars PROVE RequestKept'
  OBVIOUS
<1> IssuedKept /\ CrossedKept /\ SessionKept /\ RequestKept
  BY DEF SessionsKept
<1> FilesType /\ ServerType /\ RequestType /\ ResetType /\ CountsType
  BY DEF Types
<1>1. ASSUME NEW c \in Configs, Start(c) PROVE RequestKept'
  BY <1>1, FilesUnchanged
     DEF Start, IssuedKept, RequestKept, Excepted
<1>2. CASE GenerateAPIToken
  BY <1>2
     DEF GenerateAPIToken, Crosses, IssuedKept, RequestKept, Excepted
<1>3. CASE ReadAdminPassword
  BY <1>3, FilesUnchanged
     DEF ReadAdminPassword, Down, IssuedKept, RequestKept, Excepted
<1>4. CASE GenerateAdminPassword
  BY <1>4
     DEF GenerateAdminPassword, Crosses, IssuedKept, RequestKept, Excepted
<1>5. CASE StartFails
  BY <1>5
     DEF StartFails, Crosses, Down, IssuedKept, RequestKept, Excepted
<1>6. CASE ServerStops
  BY <1>6, FilesUnchanged
     DEF ServerStops, Down, Idle, RequestKept, Excepted
<1>7. ASSUME NEW r \in Requests, LoginMatches(r) PROVE RequestKept'
  <2>1. request'[r] = Matched(adminPassword) /\ \A q \in Requests \ {r} : request'[q] = request[q]
    BY <1>7, OneRequest DEF LoginMatches
  <2>2. /\ adminPassword' = adminPassword /\ session' = session /\ leftover' = leftover
        /\ late' = late /\ interrupted' = interrupted /\ mixed' = mixed /\ reset' = reset
    BY <1>7, FilesUnchanged DEF LoginMatches, history
  <2>3. reset \in {"put token", "put password"} => mixed
    BY <1>7 DEF LoginMatches, Whole, CrossedKept
  <2>6. SUFFICES ASSUME NEW q \in Requests, q \notin late'
                PROVE  /\ (request'[q].at = "copied" /\ ~leftover') => session' = request'[q].copy
                       /\ request'[q].at = "matched" =>
                           Excepted' \/ request'[q].password = adminPassword'
                       /\ (request'[q].at = "matched" /\ reset' \in {"put token", "put password"}) =>
                           mixed'
    BY DEF RequestKept
  <2>7. CASE q = r
    <3>1. request'[q] = Matched(adminPassword)
      BY <2>1, <2>7
    <3>2. request'[q].at = "matched" /\ request'[q].password = adminPassword'
      BY <2>2, <3>1 DEF Matched
    <3>. QED
      BY <2>2, <2>3, <3>2
  <2>8. CASE q # r
    BY <2>1, <2>2, <2>6, <2>8 DEF RequestKept, Excepted
  <2>. QED
    BY <2>7, <2>8
<1>8. ASSUME NEW r \in Requests, NEW s \in Sessions, LoginPuts(r, s) PROVE RequestKept'
  <2>1. request'[r] = Idle /\ \A q \in Requests \ {r} : request'[q] = request[q]
    BY <1>8, OneRequest DEF LoginPuts
  <2>2. /\ late' = (late \union HoldACopy) \ {r}
        /\ adminPassword' = adminPassword /\ interrupted' = interrupted /\ mixed' = mixed
        /\ reset' = reset
    BY <1>8 DEF LoginPuts
  <2>3. ASSUME NEW q \in Requests \ late', q # r
        PROVE  q \notin late /\ request'[q] = request[q] /\ request[q].at # "copied"
    BY <2>1, <2>2, <2>3 DEF HoldACopy
  <2>6. SUFFICES ASSUME NEW q \in Requests, q \notin late'
                PROVE  /\ (request'[q].at = "copied" /\ ~leftover') => session' = request'[q].copy
                       /\ request'[q].at = "matched" =>
                           Excepted' \/ request'[q].password = adminPassword'
                       /\ (request'[q].at = "matched" /\ reset' \in {"put token", "put password"}) =>
                           mixed'
    BY DEF RequestKept
  <2>7. CASE q = r
    <3>1. request'[q] = Idle
      BY <2>1, <2>7
    <3>2. request'[q].at \notin {"matched", "copied"}
      BY <2>2, <3>1 DEF Idle
    <3>. QED
      BY <3>2
  <2>8. CASE q # r
    BY <2>1, <2>2, <2>6, <2>8, <2>3 DEF RequestKept, Excepted
  <2>. QED
    BY <2>7, <2>8
<1>9. ASSUME NEW r \in Requests, NEW s \in Sessions, RefreshChecks(r, s) PROVE RequestKept'
  <2>1. request'[r] = Checked /\ \A q \in Requests \ {r} : request'[q] = request[q]
    BY <1>9, OneRequest DEF RefreshChecks
  <2>2. /\ adminPassword' = adminPassword /\ session' = session /\ leftover' = leftover
        /\ late' = late /\ interrupted' = interrupted /\ mixed' = mixed /\ reset' = reset
    BY <1>9, FilesUnchanged DEF RefreshChecks, history
  <2>6. SUFFICES ASSUME NEW q \in Requests, q \notin late'
                PROVE  /\ (request'[q].at = "copied" /\ ~leftover') => session' = request'[q].copy
                       /\ request'[q].at = "matched" =>
                           Excepted' \/ request'[q].password = adminPassword'
                       /\ (request'[q].at = "matched" /\ reset' \in {"put token", "put password"}) =>
                           mixed'
    BY DEF RequestKept
  <2>7. CASE q = r
    <3>1. request'[q] = Checked
      BY <2>1, <2>7
    <3>2. request'[q].at \notin {"matched", "copied"}
      BY <2>2, <3>1 DEF Checked
    <3>. QED
      BY <3>2
  <2>8. CASE q # r
    BY <2>1, <2>2, <2>6, <2>8 DEF RequestKept, Excepted
  <2>. QED
    BY <2>7, <2>8
<1>10. ASSUME NEW r \in Requests, RefreshGets(r) PROVE RequestKept'
  <2>1. /\ request'[r] \in {Copied(session), Idle}
        /\ \A q \in Requests \ {r} : request'[q] = request[q]
    BY <1>10, OneRequest DEF RefreshGets
  <2>2. /\ adminPassword' = adminPassword /\ session' = session /\ leftover' = leftover
        /\ late' = late /\ interrupted' = interrupted /\ mixed' = mixed /\ reset' = reset
    BY <1>10, FilesUnchanged DEF RefreshGets, history
  <2>6. SUFFICES ASSUME NEW q \in Requests, q \notin late'
                PROVE  /\ (request'[q].at = "copied" /\ ~leftover') => session' = request'[q].copy
                       /\ request'[q].at = "matched" =>
                           Excepted' \/ request'[q].password = adminPassword'
                       /\ (request'[q].at = "matched" /\ reset' \in {"put token", "put password"}) =>
                           mixed'
    BY DEF RequestKept
  <2>7. CASE q = r
    <3>1. request'[q] \in {Copied(session), Idle}
      BY <2>1, <2>7
    <3>2. request'[q].at = "idle" \/ (request'[q].at = "copied" /\ request'[q].copy = session')
      BY <2>2, <3>1 DEF Copied, Idle
    <3>. QED
      BY <3>2
  <2>8. CASE q # r
    BY <2>1, <2>2, <2>6, <2>8 DEF RequestKept, Excepted
  <2>. QED
    BY <2>7, <2>8
<1>11. ASSUME NEW r \in Requests, RefreshPuts(r) PROVE RequestKept'
  <2>1. request'[r] = Idle /\ \A q \in Requests \ {r} : request'[q] = request[q]
    BY <1>11, OneRequest DEF RefreshPuts
  <2>2. /\ session' = request[r].copy /\ leftover' = (r \in late \/ leftover)
        /\ late' = late \ {r} /\ request[r].at = "copied"
        /\ adminPassword' = adminPassword /\ interrupted' = interrupted /\ mixed' = mixed
        /\ reset' = reset
    BY <1>11 DEF RefreshPuts
  <2>3. ASSUME NEW q \in Requests \ late', q # r
        PROVE  q \in Requests \ late /\ request'[q] = request[q]
    BY <2>1, <2>2, <2>3
  <2>4. ~leftover' => session' = session
    BY <2>2 DEF RequestKept
  <2>5. ~leftover' => ~leftover
    BY <2>2
  <2>6. SUFFICES ASSUME NEW q \in Requests, q \notin late'
                PROVE  /\ (request'[q].at = "copied" /\ ~leftover') => session' = request'[q].copy
                       /\ request'[q].at = "matched" =>
                           Excepted' \/ request'[q].password = adminPassword'
                       /\ (request'[q].at = "matched" /\ reset' \in {"put token", "put password"}) =>
                           mixed'
    BY DEF RequestKept
  <2>7. CASE q = r
    <3>1. request'[q] = Idle
      BY <2>1, <2>7
    <3>2. request'[q].at \notin {"matched", "copied"}
      BY <2>2, <3>1 DEF Idle
    <3>. QED
      BY <3>2
  <2>8. CASE q # r
    BY <2>1, <2>2, <2>6, <2>8, <2>3, <2>4, <2>5 DEF RequestKept, Excepted
  <2>. QED
    BY <2>7, <2>8
<1>12. ASSUME NEW r \in Requests, RequestFails(r) PROVE RequestKept'
  <2>1. request'[r] = Idle /\ \A q \in Requests \ {r} : request'[q] = request[q]
    BY <1>12, OneRequest DEF RequestFails
  <2>2. /\ \/ session' = session /\ late' = late \ {r}
           \/ late' = (late \union HoldACopy) \ {r}
        /\ leftover' = leftover
        /\ adminPassword' = adminPassword /\ interrupted' = interrupted /\ mixed' = mixed
        /\ reset' = reset
    BY <1>12 DEF RequestFails
  <2>3. ASSUME NEW q \in Requests \ late', q # r
        PROVE  /\ q \in Requests \ late /\ request'[q] = request[q]
               /\ session' = session \/ request[q].at # "copied"
    BY <2>1, <2>2, <2>3 DEF HoldACopy
  <2>6. SUFFICES ASSUME NEW q \in Requests, q \notin late'
                PROVE  /\ (request'[q].at = "copied" /\ ~leftover') => session' = request'[q].copy
                       /\ request'[q].at = "matched" =>
                           Excepted' \/ request'[q].password = adminPassword'
                       /\ (request'[q].at = "matched" /\ reset' \in {"put token", "put password"}) =>
                           mixed'
    BY DEF RequestKept
  <2>7. CASE q = r
    <3>1. request'[q] = Idle
      BY <2>1, <2>7
    <3>2. request'[q].at \notin {"matched", "copied"}
      BY <2>2, <3>1 DEF Idle
    <3>. QED
      BY <3>2
  <2>8. CASE q # r
    BY <2>1, <2>2, <2>6, <2>8, <2>3 DEF RequestKept, Excepted
  <2>. QED
    BY <2>7, <2>8
<1>13. CASE Logout
  BY <1>13
     DEF Logout, Whose, HoldACopy, RequestKept, Excepted
<1>14. CASE SessionExpires
  BY <1>14
     DEF SessionExpires, history, RequestKept, Excepted
<1>15. CASE ResetBegins
  BY <1>15, FilesUnchanged
     DEF ResetBegins, history, RequestKept, Excepted
<1>16. CASE ResetDeletesToken
  BY <1>16, FollowingSteps
     DEF ResetDeletesToken, history, RequestKept, Excepted
<1>17. CASE ResetDeletesPassword
  BY <1>17, FollowingSteps
     DEF ResetDeletesPassword, history, RequestKept, Excepted
<1>18. CASE ResetDeletesSession
  BY <1>18, FollowingSteps
     DEF ResetDeletesSession, Whose, RequestKept, Excepted
<1>19. CASE ResetPutsToken
  BY <1>19, FollowingSteps
     DEF ResetPutsToken, RequestKept, Excepted
<1>20. CASE ResetPutsPassword
  BY <1>20, FollowingSteps
     DEF ResetPutsPassword, history, RequestKept, Excepted
<1>21. CASE ResetPrints
  BY <1>21, FilesUnchanged
     DEF ResetPrints, ResetEnds, RequestKept, Excepted
<1>22. CASE ResetFails
  BY <1>22
     DEF ResetFails, ResetEnds, RequestKept, Excepted
<1>23. CASE UNCHANGED vars
  BY <1>23, FilesUnchanged
     DEF vars, history, RequestKept, Excepted
<1>. QED
  BY <1>1, <1>2, <1>3, <1>4, <1>5, <1>6, <1>7, <1>8, <1>9, <1>10, <1>11, <1>12, <1>13,
     <1>14, <1>15, <1>16, <1>17, <1>18, <1>19, <1>20, <1>21, <1>22, <1>23 DEF Next

\* A session that a logout, a newer login or a reset has ended is not accepted
\* again, and one that outlives a reset was given for the new password, but
\* for the exceptions that the property names.
THEOREM SessionsAlwaysEnd == Spec => []SessionsEnd
<1>1. Init => SessionsKept
  BY NoSession
     DEF Init, Idle, Down, SessionsKept, IssuedKept, CrossedKept, SessionKept,
         RequestKept, Counts
<1>2. Types /\ SessionsKept /\ [Next]_vars => SessionsKept'
  BY IssuedStep, CrossedStep, SessionStep, RequestStep DEF SessionsKept
<1>3. SessionsKept => SessionsEnd
  BY DEF SessionsKept, SessionKept, Counts, Excepted, SessionsEnd, AcceptsSession
<1>4. QED
  BY <1>1, <1>2, <1>3, InitTypes, TypeStep, PTL DEF Spec

===============================================================================
