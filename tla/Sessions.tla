------------------------------ MODULE Sessions ------------------------------
(***************************************************************************)
(* The session of one user of the administration (auth.service.ts): login  *)
(* by password or Google, rotation of the refresh token with its grace     *)
(* time, change of password and logout, each of which reads the row of the *)
(* user, works for a while and writes.  A token is the number of its jti;  *)
(* tokens expire by themselves much later and that is left out.            *)
(***************************************************************************)
EXTENDS Naturals, Sequences

CONSTANTS
  Requests,           \* requests that run at the same time
  Offered,            \* what they may be: "login", "google", "refresh", ...
  MaxFailedAttempts,  \* MAX_FAILED_LOGIN_ATTEMPTS
  MaxTokens,          \* bound: tokens signed
  MaxPasswords,       \* bound: passwords the user has had
  None

VARIABLES
  user,     \* the row of the user
  token,    \* the refresh tokens signed: their session version and, for the
            \* properties, the password they go back to and what became of them
  request

sessionVars == <<user, token, request>>

Idle == [pc |-> "idle"]

Row == [password : 1 .. MaxPasswords, refresh : 0 .. MaxTokens, previous : 0 .. MaxTokens,
        inGrace : BOOLEAN, version : Nat, failed : 0 .. MaxFailedAttempts,
        locked : BOOLEAN]

Fates == {"current", "rotated", "stale", "replaced", "ended"}

Init ==
  /\ user = [password |-> 1, refresh |-> 0, previous |-> 0, inGrace |-> FALSE,
             version |-> 0, failed |-> 0, locked |-> FALSE]
  /\ token = <<>>
  /\ request = [q \in Requests |-> Idle]

Finish(q) == request' = [request EXCEPT ![q] = Idle]

\* What becomes of the tokens in force, for the properties, when token t is exchanged
\* for its successor and when a login replaces them all.
Exchange(t) ==
  [i \in DOMAIN token |->
     IF i = t THEN [token[i] EXCEPT !.fate = "rotated"]
     ELSE IF token[i].fate = "rotated" THEN [token[i] EXCEPT !.fate = "stale"]
     ELSE token[i]]
Replace ==
  [i \in DOMAIN token |->
     IF token[i].fate \in {"current", "rotated"}
       THEN [token[i] EXCEPT !.fate = "replaced"] ELSE token[i]]

-----------------------------------------------------------------------------
(* Logging in *)

\* validateCredentials reads the row; argon2 takes its time over the password.
Login(q, right) ==
  /\ "login" \in Offered
  /\ request[q] = Idle
  /\ ~ user.locked
  /\ request' = [request EXCEPT ![q] =
       [pc |-> IF right THEN "welcome" ELSE "refuse",
        version |-> user.version, password |-> user.password, failed |-> user.failed]]
  /\ UNCHANGED <<user, token>>

\* registerFailedAttempt, from the count that was read; only whether it reaches the
\* maximum matters.
Refuse(q) ==
  /\ request[q].pc = "refuse"
  /\ LET attempts == request[q].failed + 1
         lock == attempts >= MaxFailedAttempts
     IN user' = [user EXCEPT !.failed = IF lock THEN MaxFailedAttempts ELSE attempts,
                             !.locked = lock]
  /\ Finish(q)
  /\ UNCHANGED token

\* The password was right: the count starts again, and the session of the row that
\* was read is issued next.
Welcome(q) ==
  /\ request[q].pc = "welcome"
  /\ user' = [user EXCEPT !.failed = 0, !.locked = FALSE]
  /\ request' = [request EXCEPT ![q] =
       [pc |-> "issue", version |-> @.version, password |-> @.password]]
  /\ UNCHANGED token

\* validateGoogleLogin.
GoogleLogin(q) ==
  /\ "google" \in Offered
  /\ request[q] = Idle
  /\ request' = [request EXCEPT ![q] =
       [pc |-> "issue", version |-> user.version, password |-> user.password]]
  /\ UNCHANGED <<user, token>>

\* issueTokens signs with the version of the row it is given.  Variant with a bug:
\* it signs with the version the row has now.
IssuedVersionNow(q) == user.version

IssuedVersion(q) == request[q].version

\* The new refresh token replaces whatever the row has.
IssueTokens(q) ==
  /\ request[q].pc = "issue"
  /\ Len(token) < MaxTokens
  /\ token' = Append(Replace,
                     [version |-> IssuedVersion(q), password |-> request[q].password,
                      fate |-> "current"])
  /\ user' = [user EXCEPT !.refresh = Len(token) + 1, !.previous = 0, !.inGrace = FALSE]
  /\ Finish(q)

-----------------------------------------------------------------------------
(* Refreshing *)

\* findActiveSessionUser.
Active(t) == user.refresh # 0 /\ token[t].version = user.version

\* A browser presents a token it was given; refused at once if the session ended.
Refresh(q, t) ==
  /\ "refresh" \in Offered
  /\ request[q] = Idle
  /\ Active(t)
  /\ request' = [request EXCEPT ![q] =
       [pc |-> IF t = user.refresh THEN "rotate" ELSE "reread", presented |-> t,
        version |-> user.version]]
  /\ UNCHANGED <<user, token>>

\* rotate writes only if the row still has the token presented.  Variant with a bug:
\* it tests the version alone.
RotatesByVersion(q) == user.version = request[q].version

Rotates(q) ==
  user.version = request[q].version /\ user.refresh = request[q].presented

Rotate(q) ==
  /\ request[q].pc = "rotate"
  /\ Len(token) < MaxTokens
  /\ LET t == request[q].presented
     IN IF Rotates(q)
          THEN /\ token' = Append(Exchange(t),
                             [version |-> request[q].version,
                              password |-> token[t].password, fate |-> "current"])
               /\ user' = [user EXCEPT !.refresh = Len(token) + 1, !.previous = t,
                                       !.inGrace = TRUE]
               /\ Finish(q)
          ELSE /\ request' = [request EXCEPT ![q] = [pc |-> "reread", presented |-> t]]
               /\ UNCHANGED <<user, token>>

\* isWithinReuseGrace.  Variant with a bug: the token of a rotation that was lost to
\* another tab is not looked at again.
GraceUnread(t) == FALSE

WithinReuseGrace(t) == user.previous = t /\ user.inGrace

\* The row is read again: within the grace time the browser gets an access token
\* and no other refresh token, after it everything is revoked.
Reread(q) ==
  /\ request[q].pc = "reread"
  /\ LET t == request[q].presented
     IN IF Active(t) /\ ~ WithinReuseGrace(t)
          THEN request' = [request EXCEPT ![q] = [pc |-> "revoke", presented |-> t]]
          ELSE Finish(q)
  /\ UNCHANGED <<user, token>>

-----------------------------------------------------------------------------
(* Ending sessions *)

NoSession == [user EXCEPT !.refresh = 0, !.previous = 0, !.inGrace = FALSE,
                          !.version = @ + 1]
EndTokens == [i \in DOMAIN token |-> [token[i] EXCEPT !.fate = "ended"]]

\* revokeAllSessions, whatever happened since the row was read.
Revoke(q) ==
  /\ request[q].pc = "revoke"
  /\ user' = NoSession /\ token' = EndTokens
  /\ Finish(q)

\* Someone is logged in with an access token of the session: JwtStrategy compares
\* its version with that of the row at every request.
SignedIn == \E t \in DOMAIN token : token[t].version = user.version

Logout(q) ==
  /\ "logout" \in Offered
  /\ request[q] = Idle
  /\ SignedIn
  /\ request' = [request EXCEPT ![q] = [pc |-> "revoke", presented |-> None]]
  /\ UNCHANGED <<user, token>>

\* changePassword verifies the current password on the row it reads.
ChangePassword(q) ==
  /\ "password" \in Offered
  /\ request[q] = Idle
  /\ SignedIn
  /\ request' = [request EXCEPT ![q] = [pc |-> "change"]]
  /\ UNCHANGED <<user, token>>

\* It ends every session in the update that writes the password, and issues the
\* tokens of the row that this update returned.
WritePassword(q) ==
  /\ request[q].pc = "change"
  /\ user.password < MaxPasswords
  /\ user' = [NoSession EXCEPT !.password = @ + 1]
  /\ token' = EndTokens
  /\ request' = [request EXCEPT ![q] =
       [pc |-> "issue", version |-> user.version + 1, password |-> user.password + 1]]

\* The fifteen minutes of a lock or the thirty seconds of grace are over.
Tick ==
  /\ \/ user.locked /\ user' = [user EXCEPT !.locked = FALSE] /\ UNCHANGED token
     \/ /\ user.inGrace
        /\ user' = [user EXCEPT !.inGrace = FALSE]
        /\ token' = [i \in DOMAIN token |->
                       IF token[i].fate = "rotated"
                         THEN [token[i] EXCEPT !.fate = "stale"] ELSE token[i]]
  /\ UNCHANGED request

Next ==
  \/ \E q \in Requests :
       \/ \E right \in BOOLEAN : Login(q, right)
       \/ \E t \in DOMAIN token : Refresh(q, t)
       \/ Refuse(q) \/ Welcome(q) \/ GoogleLogin(q) \/ IssueTokens(q)
       \/ Rotate(q) \/ Reread(q) \/ Revoke(q) \/ Logout(q)
       \/ ChangePassword(q) \/ WritePassword(q)
  \/ Tick

Spec == Init /\ [][Next]_sessionVars

-----------------------------------------------------------------------------
(* Properties *)

TypeOK ==
  /\ user \in Row
  /\ token \in Seq([version : Nat, password : 1 .. MaxPasswords, fate : Fates])

\* Whoever still holds a token that is accepted was let in by the password the user
\* has now, although logins and refreshes are carried out while it changes.
OldPasswordOpensNothing ==
  \A t \in DOMAIN token :
    token[t].version = user.version => token[t].password = user.password

\* Tabs that refresh with the same token at once leave the session alone: a refresh
\* ends the sessions only for a token that was exchanged more than the grace time
\* ago, or twice, or replaced by another login.
RevokesReuseOnly ==
  \A q \in Requests :
    request[q].pc = "revoke" /\ request[q].presented # None =>
      token[request[q].presented].fate \in {"stale", "replaced", "ended"}
=============================================================================
