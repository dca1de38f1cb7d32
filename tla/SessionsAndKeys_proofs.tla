---------------------- MODULE SessionsAndKeys_proofs ----------------------
(***************************************************************************)
(* Requests that overlap, for any number of them.  Whatever a user's do at *)
(* the same time, nobody keeps a session that an older password opened,    *)
(* with any number of tokens and passwords; and those with one idempotency *)
(* key (the instance Keys) have their effect once.                         *)
(***************************************************************************)
EXTENDS Sessions, Integers, SequenceTheorems, TLAPS

\* A request that works on the row it read knows a version the row has now or had
\* earlier, and if it has it now, the password of the row.
Knows(q) ==
  /\ request[q].version \in Nat
  /\ request[q].password \in 1 .. MaxPasswords
  /\ request[q].version <= user.version
  /\ request[q].version = user.version => request[q].password = user.password

Carried(q) ==
  /\ request[q].pc \in {"welcome", "refuse", "issue"} => Knows(q)
  /\ request[q].pc = "refuse" => request[q].failed \in 0 .. MaxFailedAttempts
  /\ request[q].pc = "rotate" =>
       /\ request[q].presented \in DOMAIN token
       /\ request[q].version = token[request[q].presented].version

NoTokenAhead == \A t \in DOMAIN token : token[t].version <= user.version

\* The inductive invariant.
Inv ==
  /\ TypeOK
  /\ request = [q \in Requests |-> request[q]]
  /\ \A q \in Requests : Carried(q)
  /\ NoTokenAhead
  /\ OldPasswordOpensNothing

Bounds ==
  /\ MaxTokens \in Nat
  /\ MaxPasswords \in Nat \ {0}
  /\ MaxFailedAttempts \in Nat \ {0}

---------------------------------------------------------------------------
(* What a step does to the tokens and to the version of the row            *)

Signed == [version : Nat, password : 1 .. MaxPasswords, fate : Fates]

\* Every token is signed for a version and a password.
LEMMA TokensSigned ==
  ASSUME TypeOK
  PROVE  /\ token \in Seq(Signed) /\ DOMAIN token = 1 .. Len(token) /\ Len(token) \in Nat
         /\ \A t \in DOMAIN token : /\ token[t] \in Signed /\ token[t].version \in Nat
                                    /\ token[t].password \in 1 .. MaxPasswords
<1>1. token \in Seq(Signed) /\ DOMAIN token = 1 .. Len(token) /\ Len(token) \in Nat
  BY DEF TypeOK, Signed
<1>2. \A t \in DOMAIN token : token[t] \in Signed
  BY <1>1
<1> QED
  BY <1>1, <1>2 DEF Signed

\* When the grace time is over.
Lapse ==
  [i \in DOMAIN token |->
     IF token[i].fate = "rotated" THEN [token[i] EXCEPT !.fate = "stale"] ELSE token[i]]

\* Marking what became of the tokens changes nothing else of them.
LEMMA FatesOnly ==
  ASSUME TypeOK, NEW s,
         s \in {Replace, EndTokens, Lapse} \cup {Exchange(t) : t \in DOMAIN token}
  PROVE  /\ s \in Seq(Signed)
         /\ Len(s) = Len(token) /\ DOMAIN s = DOMAIN token
         /\ \A t \in DOMAIN token : /\ s[t].version = token[t].version
                                    /\ s[t].password = token[t].password
<1>1. token \in Seq(Signed) /\ DOMAIN token = 1 .. Len(token) /\ Len(token) \in Nat
  BY TokensSigned
<1>2. \A t \in DOMAIN token : token[t] \in Signed
  BY TokensSigned
<1>3. \A t \in DOMAIN token, f \in Fates :
        /\ [token[t] EXCEPT !.fate = f] \in Signed
        /\ [token[t] EXCEPT !.fate = f].version = token[t].version
        /\ [token[t] EXCEPT !.fate = f].password = token[t].password
  BY <1>2 DEF Signed
<1>4. {"rotated", "stale", "replaced", "ended"} \subseteq Fates
  BY DEF Fates
<1>5. /\ DOMAIN s = DOMAIN token
      /\ \A t \in DOMAIN token : \/ s[t] = token[t]
                                 \/ \E f \in Fates : s[t] = [token[t] EXCEPT !.fate = f]
  BY <1>4 DEF Replace, EndTokens, Exchange, Lapse
<1>6. \A t \in DOMAIN token : /\ s[t] \in Signed
                              /\ s[t].version = token[t].version
                              /\ s[t].password = token[t].password
  <2> SUFFICES ASSUME NEW t \in DOMAIN token
               PROVE  /\ s[t] \in Signed
                      /\ s[t].version = token[t].version
                      /\ s[t].password = token[t].password
    OBVIOUS
  <2>1. CASE s[t] = token[t]
    BY <1>2, <2>1
  <2>2. CASE \E f \in Fates : s[t] = [token[t] EXCEPT !.fate = f]
    <3>1. PICK f \in Fates : s[t] = [token[t] EXCEPT !.fate = f]
      BY <2>2
    <3>2. PICK marked : marked = [token[t] EXCEPT !.fate = f]
      OBVIOUS
    <3>3. /\ marked \in Signed /\ marked.version = token[t].version
          /\ marked.password = token[t].password
      BY <1>3, <3>2
    <3> QED
      BY <3>1, <3>2, <3>3
  <2> QED
    BY <1>5, <2>1, <2>2
<1>7. s = [t \in 1 .. Len(token) |-> s[t]]
  BY <1>1, <1>5 DEF Replace, EndTokens, Exchange, Lapse
<1>8. s \in Seq(Signed) /\ Len(s) = Len(token)
  BY <1>1, <1>6, <1>7
<1> QED
  BY <1>5, <1>6, <1>8

\* What a request carries stays true when the row is left with its version and
\* password, or gets a later version, and the tokens keep theirs.
LEMMA StaysCarried ==
  ASSUME NEW q \in Requests, Carried(q), request'[q] = request[q],
         user.version \in Nat, user'.version \in Nat,
         \/ user'.version = user.version /\ user'.password = user.password
         \/ user'.version > user.version,
         \A t \in DOMAIN token : /\ t \in DOMAIN token'
                                 /\ token'[t].version = token[t].version
  PROVE  Carried(q)'
<1>1. CASE request[q].pc \in {"welcome", "refuse", "issue"}
  BY <1>1 DEF Carried, Knows
<1>2. CASE request[q].pc = "rotate"
  BY <1>2 DEF Carried
<1> QED
  BY <1>1, <1>2 DEF Carried

\* The tokens are safe after such a step if they were before.
LEMMA StaySafe ==
  ASSUME TypeOK, NoTokenAhead, OldPasswordOpensNothing,
         user'.version \in Nat,
         \/ user'.version = user.version /\ user'.password = user.password
         \/ user'.version > user.version,
         DOMAIN token' = DOMAIN token,
         \A t \in DOMAIN token : /\ token'[t].version = token[t].version
                                 /\ token'[t].password = token[t].password
  PROVE  NoTokenAhead' /\ OldPasswordOpensNothing'
<1>1. \A t \in DOMAIN token : token[t].version \in Nat
  BY TokensSigned
<1>2. user.version \in Nat
  BY DEF TypeOK, Row
<1> QED
  BY <1>1, <1>2 DEF NoTokenAhead, OldPasswordOpensNothing

\* An idle request carries nothing.
LEMMA IdleCarries ==
  ASSUME NEW q \in Requests, request'[q] = Idle
  PROVE  Carried(q)'
BY DEF Carried, Idle

\* A new token is safe when the row has the version it was signed with, or will not
\* have it again, and the password it goes back to.
LEMMA AppendSafe ==
  ASSUME NEW s \in Seq(Signed), NEW n \in Signed, token' = Append(s, n),
         user'.version \in Nat, n.version <= user'.version,
         n.version = user'.version => n.password = user'.password,
         \A t \in DOMAIN s : /\ s[t].version <= user'.version
                             /\ s[t].version = user'.version => s[t].password = user'.password
  PROVE  /\ token' \in Seq(Signed) /\ NoTokenAhead' /\ OldPasswordOpensNothing'
         /\ \A t \in DOMAIN s : t \in DOMAIN token' /\ token'[t] = s[t]
<1>1. /\ token' \in Seq(Signed) /\ Len(token') = Len(s) + 1
      /\ \A t \in 1 .. Len(s) : token'[t] = s[t]
      /\ token'[Len(s) + 1] = n
  BY AppendProperties
<1>2. DOMAIN s = 1 .. Len(s) /\ DOMAIN token' = 1 .. Len(s) + 1 /\ Len(s) \in Nat
  BY <1>1
<1>3. \A t \in DOMAIN token' : t \in DOMAIN s \/ t = Len(s) + 1
  BY <1>2
<1>4. NoTokenAhead' /\ OldPasswordOpensNothing'
  <2> SUFFICES ASSUME NEW t \in DOMAIN token'
               PROVE  /\ token'[t].version <= user'.version
                      /\ token'[t].version = user'.version
                           => token'[t].password = user'.password
    BY DEF NoTokenAhead, OldPasswordOpensNothing
  <2>1. CASE t \in DOMAIN s
    BY <1>1, <1>2, <2>1
  <2>2. CASE t = Len(s) + 1
    BY <1>1, <2>2
  <2> QED
    BY <1>3, <2>1, <2>2
<1> QED
  BY <1>1, <1>2, <1>4

---------------------------------------------------------------------------
(* Every step keeps the invariant                                          *)

\* It holds at the beginning: there is no token and no request.
LEMMA InitInv == ASSUME Bounds, Init PROVE Inv
<1>1. TypeOK
  <2>1. user \in Row
    BY DEF Bounds, Init, Row
  <2> QED
    BY <2>1 DEF Init, TypeOK
<1>2. \A q \in Requests : request[q] = Idle
  BY DEF Init
<1>3. \A q \in Requests : Carried(q)
  <2> SUFFICES ASSUME NEW q \in Requests PROVE Carried(q)
    OBVIOUS
  <2>1. request[q].pc = "idle"
    BY <1>2 DEF Idle
  <2> QED
    BY <2>1 DEF Carried
<1>4. NoTokenAhead /\ OldPasswordOpensNothing
  BY DEF Init, NoTokenAhead, OldPasswordOpensNothing
<1> QED
  BY <1>1, <1>3, <1>4 DEF Init, Inv

\* It is enough to look at the request that takes the step.
LEMMA OtherRequests ==
  ASSUME Inv, NEW q \in Requests, NEW r, request' = [request EXCEPT ![q] = r],
         TypeOK', NoTokenAhead', OldPasswordOpensNothing', Carried(q)',
         \/ user'.version = user.version /\ user'.password = user.password
         \/ user'.version > user.version,
         \A t \in DOMAIN token : /\ t \in DOMAIN token'
                                 /\ token'[t].version = token[t].version
  PROVE  Inv'
<1>1. \A p \in Requests : p # q => request'[p] = request[p]
  BY DEF Inv
<1>2. user.version \in Nat /\ user'.version \in Nat
  BY DEF Inv, TypeOK, Row
<1>3. \A p \in Requests : Carried(p)'
  <2> SUFFICES ASSUME NEW p \in Requests PROVE Carried(p)'
    OBVIOUS
  <2>1. CASE p = q
    BY <2>1
  <2>2. CASE p # q
    BY <1>1, <1>2, <2>2, StaysCarried DEF Inv
  <2> QED
    BY <2>1, <2>2
<1> QED
  BY <1>3 DEF Inv

\* A step that leaves the row and the tokens alone.
LEMMA QuietStep ==
  ASSUME Inv, NEW q \in Requests, NEW r, request' = [request EXCEPT ![q] = r],
         UNCHANGED <<user, token>>, Carried(q)'
  PROVE  Inv'
<1>1. TypeOK' /\ NoTokenAhead' /\ OldPasswordOpensNothing'
  BY DEF Inv, TypeOK, NoTokenAhead, OldPasswordOpensNothing
<1> QED
  BY <1>1, OtherRequests

\* A step that writes the row and, of the tokens, only what became of them.
LEMMA RowStep ==
  ASSUME Inv, NEW q \in Requests, NEW r, request' = [request EXCEPT ![q] = r],
         user' \in Row, token' \in {token, EndTokens}, Carried(q)',
         \/ user'.version = user.version /\ user'.password = user.password
         \/ user'.version > user.version
  PROVE  Inv'
<1>1. /\ token' \in Seq(Signed) /\ DOMAIN token' = DOMAIN token
      /\ \A t \in DOMAIN token : /\ token'[t].version = token[t].version
                                 /\ token'[t].password = token[t].password
  <2>1. CASE token' = token
    BY <2>1, TokensSigned DEF Inv
  <2>2. CASE token' = EndTokens
    BY <2>2, FatesOnly DEF Inv
  <2> QED
    BY <2>1, <2>2
<1>2. TypeOK'
  BY <1>1 DEF TypeOK, Signed
<1>3. user'.version \in Nat
  BY DEF Row
<1>4. NoTokenAhead' /\ OldPasswordOpensNothing'
  BY <1>1, <1>3, StaySafe DEF Inv
<1> QED
  BY <1>1, <1>2, <1>4, OtherRequests

\* A step that signs a token with the version and the password of the row, or with
\* those of a row that was.
LEMMA SigningStep ==
  ASSUME Inv, NEW q \in Requests, request' = [request EXCEPT ![q] = Idle],
         NEW s \in {Replace} \cup {Exchange(t) : t \in DOMAIN token},
         NEW n \in Signed, token' = Append(s, n),
         user' \in Row, user'.version = user.version, user'.password = user.password,
         n.version <= user.version,
         n.version = user.version => n.password = user.password
  PROVE  Inv'
<1>1. /\ s \in Seq(Signed) /\ DOMAIN s = DOMAIN token
      /\ \A t \in DOMAIN token : /\ s[t].version = token[t].version
                                 /\ s[t].password = token[t].password
  BY FatesOnly DEF Inv
<1>2. /\ token' \in Seq(Signed) /\ NoTokenAhead' /\ OldPasswordOpensNothing'
      /\ \A t \in DOMAIN s : t \in DOMAIN token' /\ token'[t] = s[t]
  <2>1. user'.version \in Nat
    BY DEF Row
  <2>2. \A t \in DOMAIN s :
          /\ s[t].version <= user'.version
          /\ s[t].version = user'.version => s[t].password = user'.password
    BY <1>1 DEF Inv, NoTokenAhead, OldPasswordOpensNothing
  <2> QED
    BY <1>1, <2>1, <2>2, AppendSafe
<1>3. TypeOK'
  BY <1>2 DEF TypeOK, Signed
<1>4. Carried(q)'
  <2>1. request'[q] = Idle
    BY DEF Inv
  <2> QED
    BY <2>1, IdleCarries
<1> QED
  BY <1>1, <1>2, <1>3, <1>4, OtherRequests

\* Every action of Next keeps it, one step each.
LEMMA StepInv ==
  ASSUME Bounds, Inv, Next
  PROVE  Inv'
<1> USE DEF Inv
<1>a. user \in Row /\ user.version \in Nat /\ user.password \in 1 .. MaxPasswords
  BY DEF TypeOK, Row
<1>b. \A q \in Requests : \A r : request' = [request EXCEPT ![q] = r] => request'[q] = r
  OBVIOUS
<1>c. 0 \in 0 .. MaxTokens /\ 0 \in 0 .. MaxFailedAttempts
  BY DEF Bounds
<1>d. /\ NoSession \in Row /\ NoSession.version = user.version + 1
      /\ NoSession.password = user.password
  <2>1. user.version + 1 \in Nat
    BY <1>a
  <2> QED
    BY <1>a, <1>c, <2>1 DEF NoSession, Row
<1>1. ASSUME NEW q \in Requests, NEW right \in BOOLEAN, Login(q, right)
      PROVE  Inv'
  <2> DEFINE r == [pc |-> IF right THEN "welcome" ELSE "refuse", version |-> user.version,
                   password |-> user.password, failed |-> user.failed]
  <2>1. request' = [request EXCEPT ![q] = r] /\ UNCHANGED <<user, token>>
    BY <1>1 DEF Login
  <2>2. request'[q] = r
    BY <2>1, <1>b
  <2>3. user.failed \in 0 .. MaxFailedAttempts
    BY <1>a DEF Row
  <2>4. Carried(q)'
    BY <1>a, <2>1, <2>2, <2>3 DEF Carried, Knows
  <2> HIDE DEF r
  <2> QED
    BY <2>1, <2>4, QuietStep
<1>2. ASSUME NEW q \in Requests, NEW t \in DOMAIN token, Refresh(q, t)
      PROVE  Inv'
  <2> DEFINE r == [pc |-> IF t = user.refresh THEN "rotate" ELSE "reread",
                   presented |-> t, version |-> user.version]
  <2>1. /\ request' = [request EXCEPT ![q] = r] /\ UNCHANGED <<user, token>>
        /\ token[t].version = user.version
    BY <1>2 DEF Refresh, Active
  <2>2. request'[q] = r
    BY <2>1, <1>b
  <2>3. Carried(q)'
    BY <1>a, <2>1, <2>2 DEF Carried
  <2> HIDE DEF r
  <2> QED
    BY <2>1, <2>3, QuietStep
<1>3. ASSUME NEW q \in Requests, Refuse(q)
      PROVE  Inv'
  <2>1. request' = [request EXCEPT ![q] = Idle] /\ request'[q] = Idle /\ token' = token
    BY <1>3, <1>b DEF Refuse, Finish
  <2>2. request[q].failed \in 0 .. MaxFailedAttempts
    BY <1>3 DEF Refuse, Carried
  <2>3. /\ user' \in Row /\ user'.version = user.version
        /\ user'.password = user.password
    <3> DEFINE attempts == request[q].failed + 1
               lock == attempts >= MaxFailedAttempts
    <3>1. user' = [user EXCEPT !.failed = IF lock THEN MaxFailedAttempts ELSE attempts,
                               !.locked = lock]
      BY <1>3 DEF Refuse
    <3>2. (IF lock THEN MaxFailedAttempts ELSE attempts) \in 0 .. MaxFailedAttempts
      BY <2>2 DEF Bounds
    <3>3. lock \in BOOLEAN
      OBVIOUS
    <3> HIDE DEF attempts, lock
    <3> QED
      BY <1>a, <3>1, <3>2, <3>3 DEF Row
  <2> QED
    BY <2>1, <2>3, IdleCarries, RowStep
<1>4. ASSUME NEW q \in Requests, Welcome(q)
      PROVE  Inv'
  <2> DEFINE r == [pc |-> "issue", version |-> request[q].version,
                   password |-> request[q].password]
  <2>1. request' = [request EXCEPT ![q] = r] /\ token' = token
    BY <1>4 DEF Welcome
  <2>2. /\ user' \in Row /\ user'.version = user.version
        /\ user'.password = user.password
    BY <1>4, <1>a, <1>c DEF Welcome, Row
  <2>3. Knows(q)
    BY <1>4 DEF Welcome, Carried
  <2>4. request'[q] = r
    BY <2>1, <1>b
  <2>5. Carried(q)'
    BY <2>2, <2>3, <2>4 DEF Carried, Knows
  <2> HIDE DEF r
  <2> QED
    BY <2>1, <2>2, <2>5, RowStep
<1>5. ASSUME NEW q \in Requests, GoogleLogin(q)
      PROVE  Inv'
  <2> DEFINE r == [pc |-> "issue", version |-> user.version, password |-> user.password]
  <2>1. request' = [request EXCEPT ![q] = r] /\ UNCHANGED <<user, token>>
    BY <1>5 DEF GoogleLogin
  <2>2. request'[q] = r
    BY <2>1, <1>b
  <2>3. Carried(q)'
    BY <1>a, <2>1, <2>2 DEF Carried, Knows
  <2> HIDE DEF r
  <2> QED
    BY <2>1, <2>3, QuietStep
<1>6. ASSUME NEW q \in Requests, IssueTokens(q)
      PROVE  Inv'
  <2> DEFINE n == [version |-> IssuedVersion(q), password |-> request[q].password,
                   fate |-> "current"]
  <2>1. Len(token) < MaxTokens /\ Len(token) \in Nat
    BY <1>6, TokensSigned DEF IssueTokens
  <2>2. Knows(q)
    BY <1>6 DEF IssueTokens, Carried
  <2>3. /\ n \in Signed /\ n.version <= user.version
        /\ n.version = user.version => n.password = user.password
    BY <2>2 DEF Knows, IssuedVersion, Signed, Fates
  <2>4. user' = [user EXCEPT !.refresh = Len(token) + 1, !.previous = 0, !.inGrace = FALSE]
    BY <1>6 DEF IssueTokens
  <2>5. Len(token) + 1 \in 0 .. MaxTokens /\ 0 \in 0 .. MaxTokens
    BY <2>1 DEF Bounds
  <2>6. /\ user' \in Row /\ user'.version = user.version
        /\ user'.password = user.password
    BY <1>a, <2>4, <2>5 DEF Row
  <2>7. token' = Append(Replace, n) /\ request' = [request EXCEPT ![q] = Idle]
    BY <1>6 DEF IssueTokens, Finish
  <2> HIDE DEF n
  <2> QED
    BY <2>3, <2>6, <2>7, SigningStep
<1>7. ASSUME NEW q \in Requests, Rotate(q)
      PROVE  Inv'
  <2> DEFINE t == request[q].presented
             n == [version |-> request[q].version, password |-> token[t].password,
                   fate |-> "current"]
  <2>1. Len(token) < MaxTokens /\ Len(token) \in Nat /\ DOMAIN token = 1 .. Len(token)
    BY <1>7, TokensSigned DEF Rotate
  <2>2. t \in DOMAIN token /\ request[q].version = token[t].version
    BY <1>7 DEF Rotate, Carried
  <2>3. CASE Rotates(q)
    <3>1. /\ n \in Signed /\ n.version <= user.version
          /\ n.version = user.version => n.password = user.password
      BY <2>2, TokensSigned DEF Signed, Fates, NoTokenAhead, OldPasswordOpensNothing
    <3>2. user' = [user EXCEPT !.refresh = Len(token) + 1, !.previous = t, !.inGrace = TRUE]
      BY <1>7, <2>3 DEF Rotate
    <3>3. Len(token) + 1 \in 0 .. MaxTokens /\ t \in 0 .. MaxTokens
      BY <2>1, <2>2 DEF Bounds
    <3>4. /\ user' \in Row /\ user'.version = user.version
          /\ user'.password = user.password
      BY <1>a, <3>2, <3>3 DEF Row
    <3>5. token' = Append(Exchange(t), n) /\ request' = [request EXCEPT ![q] = Idle]
      BY <1>7, <2>3 DEF Rotate, Finish
    <3> HIDE DEF n, t
    <3> QED
      BY <2>2, <3>1, <3>4, <3>5, SigningStep
  <2>4. CASE ~ Rotates(q)
    <3> DEFINE r == [pc |-> "reread", presented |-> t]
    <3>1. request' = [request EXCEPT ![q] = r] /\ UNCHANGED <<user, token>>
      BY <1>7, <2>4 DEF Rotate
    <3>2. request'[q] = r
      BY <3>1, <1>b
    <3>3. Carried(q)'
      BY <3>2 DEF Carried
    <3> HIDE DEF r
    <3> QED
      BY <3>1, <3>3, QuietStep
  <2> QED
    BY <2>3, <2>4
<1>8. ASSUME NEW q \in Requests, Reread(q)
      PROVE  Inv'
  <2> DEFINE t == request[q].presented
             r == IF Active(t) /\ ~ WithinReuseGrace(t)
                    THEN [pc |-> "revoke", presented |-> t] ELSE Idle
  <2>1. request' = [request EXCEPT ![q] = r] /\ UNCHANGED <<user, token>>
    BY <1>8 DEF Reread, Finish
  <2>2. request'[q] = r
    BY <2>1, <1>b
  <2>3. Carried(q)'
    BY <2>2 DEF Carried, Idle
  <2> HIDE DEF r
  <2> QED
    BY <2>1, <2>3, QuietStep
<1>9. ASSUME NEW q \in Requests, Revoke(q)
      PROVE  Inv'
  <2>1. /\ request' = [request EXCEPT ![q] = Idle] /\ request'[q] = Idle
        /\ token' = EndTokens /\ user' = NoSession
    BY <1>9, <1>b DEF Revoke, Finish
  <2>2. user' \in Row /\ user'.version > user.version
    BY <1>a, <1>d, <2>1
  <2> QED
    BY <2>1, <2>2, IdleCarries, RowStep
<1>10. ASSUME NEW q \in Requests, Logout(q)
       PROVE  Inv'
  <2> DEFINE r == [pc |-> "revoke", presented |-> None]
  <2>1. request' = [request EXCEPT ![q] = r] /\ UNCHANGED <<user, token>>
    BY <1>10 DEF Logout
  <2>2. request'[q] = r
    BY <2>1, <1>b
  <2>3. Carried(q)'
    BY <2>2 DEF Carried
  <2> HIDE DEF r
  <2> QED
    BY <2>1, <2>3, QuietStep
<1>11. ASSUME NEW q \in Requests, ChangePassword(q)
       PROVE  Inv'
  <2> DEFINE r == [pc |-> "change"]
  <2>1. request' = [request EXCEPT ![q] = r] /\ UNCHANGED <<user, token>>
    BY <1>11 DEF ChangePassword
  <2>2. request'[q] = r
    BY <2>1, <1>b
  <2>3. Carried(q)'
    BY <2>2 DEF Carried
  <2> HIDE DEF r
  <2> QED
    BY <2>1, <2>3, QuietStep
<1>12. ASSUME NEW q \in Requests, WritePassword(q)
       PROVE  Inv'
  <2> DEFINE r == [pc |-> "issue", version |-> user.version + 1,
                   password |-> user.password + 1]
  <2>1. request' = [request EXCEPT ![q] = r] /\ token' = EndTokens
    BY <1>12 DEF WritePassword
  <2>2. user' = [NoSession EXCEPT !.password = user.password + 1]
    BY <1>12, <1>d DEF WritePassword
  <2>3. user.password + 1 \in 1 .. MaxPasswords
    BY <1>12, <1>a DEF WritePassword, Bounds
  <2>4. /\ user' \in Row /\ user'.version = user.version + 1
        /\ user'.password = user.password + 1
    BY <1>d, <2>2, <2>3 DEF Row
  <2>5. request'[q] = r
    BY <2>1, <1>b
  <2>6. Carried(q)'
    BY <1>a, <2>3, <2>4, <2>5 DEF Carried, Knows
  <2>7. user'.version > user.version
    BY <1>a, <2>4
  <2> HIDE DEF r
  <2> QED
    BY <2>1, <2>4, <2>6, <2>7, RowStep
<1>13. ASSUME Tick
       PROVE  Inv'
  <2>1. request' = request
    BY <1>13 DEF Tick
  <2>2. /\ user' \in Row /\ user'.version = user.version
        /\ user'.password = user.password
    BY <1>13, <1>a DEF Tick, Row
  <2>3. /\ token' \in Seq(Signed) /\ DOMAIN token' = DOMAIN token
        /\ \A t \in DOMAIN token : /\ token'[t].version = token[t].version
                                   /\ token'[t].password = token[t].password
    <3>1. CASE token' = token
      BY <3>1, TokensSigned
    <3>2. CASE token' = Lapse
      BY <3>2, FatesOnly
    <3> QED
      BY <1>13, <3>1, <3>2 DEF Tick, Lapse
  <2>4. TypeOK'
    BY <2>2, <2>3 DEF TypeOK, Signed
  <2>5. NoTokenAhead' /\ OldPasswordOpensNothing'
    BY <1>a, <2>2, <2>3, StaySafe
  <2>6. \A q \in Requests : Carried(q)'
    BY <1>a, <2>1, <2>2, <2>3, StaysCarried
  <2> QED
    BY <2>1, <2>4, <2>5, <2>6
<1> QED
  BY <1>1, <1>2, <1>3, <1>4, <1>5, <1>6, <1>7, <1>8, <1>9, <1>10, <1>11, <1>12, <1>13
     DEF Next

---------------------------------------------------------------------------

\* The inductive invariant holds in every behaviour.
THEOREM SessionsInvariant ==
  ASSUME Bounds
  PROVE  Spec => []Inv
<1>1. Inv /\ UNCHANGED sessionVars => Inv'
  <2> SUFFICES ASSUME Inv, UNCHANGED sessionVars PROVE Inv'
    OBVIOUS
  <2>1. user' = user /\ token' = token /\ request' = request
    BY DEF sessionVars
  <2> QED
    BY <2>1 DEF Inv, TypeOK, Carried, Knows, NoTokenAhead, OldPasswordOpensNothing
<1>2. Inv /\ [Next]_sessionVars => Inv'
  BY <1>1, StepInv
<1>3. Init => Inv
  BY InitInv
<1> QED
  BY <1>2, <1>3, PTL DEF Spec

\* The row of the user, the tokens and the requests have their types (auth.service.ts).
THEOREM SessionsType ==
  ASSUME Bounds
  PROVE  Spec => []TypeOK
<1>1. Inv => TypeOK
  BY DEF Inv
<1> QED
  BY <1>1, SessionsInvariant, PTL

\* Whoever still holds a refresh token that is accepted was let in by the password the
\* user has now, however logins, refreshes, logouts and changes of password overlap:
\* every token and every request knows a version that the row has now or had before,
\* and a change of password gives the row a version of its own (changePassword).
THEOREM NoSessionOfAnOldPassword ==
  ASSUME Bounds
  PROVE  Spec => []OldPasswordOpensNothing
<1>1. Inv => OldPasswordOpensNothing
  BY DEF Inv
<1> QED
  BY <1>1, SessionsInvariant, PTL

---------------------------------------------------------------------------
(* Tabs that refresh at once                                               *)

Spent == {"stale", "replaced", "ended"}

\* The row has the token in force and, within the grace time, the one before it.
FatesAreTrue ==
  \A t \in DOMAIN token :
    /\ token[t].fate = "current" <=> t = user.refresh
    /\ token[t].fate = "rotated" => t = user.previous /\ user.inGrace

\* A token that is looked at again is not the one in force and never will be; and one
\* that ends the sessions is spent.
Suspects(q) ==
  LET t == request[q].presented
  IN /\ request[q].pc = "reread" =>
          t \in DOMAIN token /\ (token[t].version # user.version \/ t # user.refresh)
     /\ request[q].pc = "revoke" =>
          t = None \/ (t \in DOMAIN token /\ token[t].fate \in Spent)

\* The inductive invariant, beside Inv.
Reuse == FatesAreTrue /\ \A q \in Requests : Suspects(q)

\* What the tokens and the row may become: a token that is spent stays spent, and no
\* token but a new one comes into force.
Onwards ==
  /\ DOMAIN token \subseteq DOMAIN token'
  /\ \A t \in DOMAIN token :
       /\ token'[t].version = token[t].version
       /\ token[t].fate \in Spent => token'[t].fate \in Spent
  /\ user'.version >= user.version
  /\ user'.refresh = user.refresh \/ user'.refresh \notin DOMAIN token

LEMMA StaysSuspect ==
  ASSUME Inv, Onwards, NEW q \in Requests, Suspects(q), request'[q] = request[q],
         user'.version \in Nat
  PROVE  Suspects(q)'
<1>1. user.version \in Nat
  BY DEF Inv, TypeOK, Row
<1>2. \A t \in DOMAIN token : token[t].version \in Nat /\ token[t].version <= user.version
  BY TokensSigned DEF Inv, NoTokenAhead
<1>3. CASE request[q].pc = "reread"
  BY <1>1, <1>2, <1>3 DEF Onwards, Suspects
<1>4. CASE request[q].pc = "revoke"
  BY <1>4 DEF Onwards, Suspects
<1> QED
  BY <1>3, <1>4 DEF Suspects

\* It is enough to look at the row, the tokens and the request that takes the step.
LEMMA ReuseStep ==
  ASSUME Inv, Reuse, NEW q \in Requests, NEW r, request' = [request EXCEPT ![q] = r],
         Onwards, user'.version \in Nat, FatesAreTrue', Suspects(q)'
  PROVE  Reuse'
<1>1. \A p \in Requests \ {q} : request'[p] = request[p]
  BY DEF Inv
<1>2. \A p \in Requests \ {q} : Suspects(p)'
  BY <1>1, StaysSuspect DEF Reuse
<1> QED
  BY <1>2 DEF Reuse

\* A step that leaves the tokens, and of the row what tells them apart.
LEMMA TokensStay ==
  ASSUME Inv, Reuse, NEW q \in Requests, NEW r, request' = [request EXCEPT ![q] = r],
         token' = token, user'.version = user.version, user'.refresh = user.refresh,
         user'.previous = user.previous, user'.inGrace = user.inGrace, Suspects(q)'
  PROVE  Reuse'
<1>1. user.version \in Nat
  BY DEF Inv, TypeOK, Row
<1>2. Onwards /\ user'.version \in Nat
  BY <1>1 DEF Onwards
<1>3. FatesAreTrue'
  BY DEF Reuse, FatesAreTrue
<1> QED
  BY <1>2, <1>3, ReuseStep

\* The sessions end.
LEMMA TokensEnd ==
  ASSUME Inv, Reuse, NEW q \in Requests, NEW r, request' = [request EXCEPT ![q] = r],
         token' = EndTokens, user'.version = user.version + 1, user'.refresh = 0,
         Suspects(q)'
  PROVE  Reuse'
<1>1. user.version \in Nat
  BY DEF Inv, TypeOK, Row
<1>2. /\ DOMAIN token' = DOMAIN token /\ 0 \notin DOMAIN token
      /\ \A t \in DOMAIN token : token'[t].version = token[t].version
  <2>1. EndTokens \in {Replace, EndTokens, Lapse} \cup {Exchange(t) : t \in DOMAIN token}
    OBVIOUS
  <2> QED
    BY <2>1, FatesOnly, TokensSigned DEF Inv
<1>3. \A t \in DOMAIN token : token'[t].fate = "ended"
  <2>1. \A t \in DOMAIN token : token[t] \in Signed
    BY TokensSigned DEF Inv
  <2> QED
    BY <2>1 DEF EndTokens, Signed
<1>4. Onwards /\ user'.version \in Nat
  BY <1>1, <1>2, <1>3 DEF Onwards, Spent
<1>5. FatesAreTrue'
  BY <1>2, <1>3 DEF FatesAreTrue
<1> QED
  BY <1>4, <1>5, ReuseStep

\* A token is signed, and the row gets it.
LEMMA TokenSigned ==
  ASSUME Inv, Reuse, NEW q \in Requests, request' = [request EXCEPT ![q] = Idle],
         NEW s \in {Replace} \cup {Exchange(t) : t \in DOMAIN token},
         NEW n \in Signed, n.fate = "current", token' = Append(s, n),
         user'.version = user.version, user'.refresh = Len(token) + 1,
         \A t \in DOMAIN token :
           /\ s[t].fate # "current"
           /\ s[t].fate = "rotated" => t = user'.previous /\ user'.inGrace
           /\ token[t].fate \in Spent => s[t].fate \in Spent
  PROVE  Reuse'
<1>1. user.version \in Nat
  BY DEF Inv, TypeOK, Row
<1>2. /\ s \in Seq(Signed) /\ DOMAIN s = DOMAIN token /\ Len(s) = Len(token)
      /\ \A t \in DOMAIN token : s[t].version = token[t].version
  BY FatesOnly DEF Inv
<1>3. DOMAIN token = 1 .. Len(token) /\ Len(token) \in Nat
  BY TokensSigned DEF Inv
<1>4. /\ Len(token') = Len(s) + 1 /\ token' \in Seq(Signed)
      /\ \A t \in 1 .. Len(s) : token'[t] = s[t]
      /\ token'[Len(s) + 1] = n
  BY <1>2, AppendProperties
<1>5. /\ DOMAIN token' = 1 .. Len(token) + 1
      /\ \A t \in DOMAIN token : token'[t] = s[t]
      /\ token'[Len(token) + 1] = n
  BY <1>2, <1>3, <1>4
<1>6. Onwards /\ user'.version \in Nat
  BY <1>1, <1>2, <1>3, <1>5 DEF Onwards
<1>7. FatesAreTrue'
  <2> SUFFICES ASSUME NEW t \in DOMAIN token'
               PROVE  /\ token'[t].fate = "current" <=> t = user'.refresh
                      /\ token'[t].fate = "rotated" => t = user'.previous /\ user'.inGrace
    BY DEF FatesAreTrue
  <2>1. CASE t \in DOMAIN token
    BY <1>3, <1>5, <2>1
  <2>2. CASE t = Len(token) + 1
    BY <1>5, <2>2
  <2> QED
    BY <1>3, <1>5, <2>1, <2>2
<1>8. Suspects(q)'
  <2>1. request'[q].pc = "idle"
    BY DEF Inv, Idle
  <2> QED
    BY <2>1 DEF Suspects
<1> QED
  BY <1>6, <1>7, <1>8, ReuseStep

LEMMA StepReuse ==
  ASSUME Bounds, Inv, Reuse, Next
  PROVE  Reuse'
<1>1. /\ \A q \in Requests : \A r : request' = [request EXCEPT ![q] = r] => request'[q] = r
      /\ user \in Row /\ user.version \in Nat
  BY DEF Inv, TypeOK, Row
<1>2. \A t \in DOMAIN token : token[t] \in Signed
  BY TokensSigned DEF Inv
<1>3. ASSUME NEW q \in Requests, request' = [request EXCEPT ![q] = Idle]
      PROVE  Suspects(q)'
  <2>1. request'[q] = Idle
    BY <1>1, <1>3
  <2> QED
    BY <2>1 DEF Suspects, Idle
<1>4. ASSUME NEW q \in Requests, NEW right \in BOOLEAN, Login(q, right)
      PROVE  Reuse'
  <2> DEFINE r == [pc |-> IF right THEN "welcome" ELSE "refuse", version |-> user.version,
                   password |-> user.password, failed |-> user.failed]
  <2>1. request' = [request EXCEPT ![q] = r] /\ UNCHANGED <<user, token>>
    BY <1>4 DEF Login
  <2>2. Suspects(q)'
    <3>1. request'[q] = r
      BY <1>1, <2>1
    <3> QED
      BY <2>1, <3>1 DEF Suspects
  <2> HIDE DEF r
  <2> QED
    BY <2>1, <2>2, TokensStay
<1>5. ASSUME NEW q \in Requests, NEW t \in DOMAIN token, Refresh(q, t)
      PROVE  Reuse'
  <2> DEFINE r == [pc |-> IF t = user.refresh THEN "rotate" ELSE "reread",
                   presented |-> t, version |-> user.version]
  <2>1. request' = [request EXCEPT ![q] = r] /\ UNCHANGED <<user, token>>
    BY <1>5 DEF Refresh
  <2>2. Suspects(q)'
    <3>1. request'[q] = r
      BY <1>1, <2>1
    <3> QED
      BY <2>1, <3>1 DEF Suspects
  <2> HIDE DEF r
  <2> QED
    BY <2>1, <2>2, TokensStay
<1>6. ASSUME NEW q \in Requests, Refuse(q)
      PROVE  Reuse'
  <2>1. /\ user'.version = user.version /\ user'.refresh = user.refresh
        /\ user'.previous = user.previous /\ user'.inGrace = user.inGrace
    BY <1>1, <1>6 DEF Refuse, Row
  <2> QED
    BY <1>3, <1>6, <2>1, TokensStay DEF Refuse, Finish
<1>7. ASSUME NEW q \in Requests, Welcome(q)
      PROVE  Reuse'
  <2> DEFINE r == [pc |-> "issue", version |-> request[q].version,
                   password |-> request[q].password]
  <2>1. /\ user'.version = user.version /\ user'.refresh = user.refresh
        /\ user'.previous = user.previous /\ user'.inGrace = user.inGrace
    BY <1>1, <1>7 DEF Welcome, Row
  <2>2. request' = [request EXCEPT ![q] = r] /\ token' = token
    BY <1>7 DEF Welcome, Inv
  <2>3. Suspects(q)'
    <3>1. request'[q] = r
      BY <1>1, <2>2
    <3> QED
      BY <2>1, <3>1 DEF Suspects
  <2> HIDE DEF r
  <2> QED
    BY <2>1, <2>2, <2>3, TokensStay
<1>8. ASSUME NEW q \in Requests, GoogleLogin(q) \/ Logout(q) \/ ChangePassword(q)
      PROVE  Reuse'
  <2>1. PICK r \in {[pc |-> "issue", version |-> user.version, password |-> user.password],
                    [pc |-> "revoke", presented |-> None], [pc |-> "change"]} :
          request' = [request EXCEPT ![q] = r] /\ UNCHANGED <<user, token>>
    BY <1>8 DEF GoogleLogin, Logout, ChangePassword
  <2>2. Suspects(q)'
    <3>1. request'[q] = r
      BY <1>1, <2>1
    <3> QED
      BY <2>1, <3>1 DEF Suspects
  <2> QED
    BY <2>1, <2>2, TokensStay
<1>9. ASSUME NEW q \in Requests, IssueTokens(q)
      PROVE  Reuse'
  <2> DEFINE n == [version |-> request[q].version, password |-> request[q].password,
                   fate |-> "current"]
  <2>1. /\ token' = Append(Replace, n) /\ request' = [request EXCEPT ![q] = Idle]
        /\ user' = [user EXCEPT !.refresh = Len(token) + 1, !.previous = 0, !.inGrace = FALSE]
    BY <1>9 DEF IssueTokens, IssuedVersion, Finish
  <2>2. user'.version = user.version /\ user'.refresh = Len(token) + 1
    BY <1>1, <2>1 DEF Row
  <2>3. n \in Signed
    BY <1>9 DEF Inv, Carried, Knows, IssueTokens, Signed, Fates
  <2>4. \A t \in DOMAIN token :
           /\ Replace[t].fate \notin {"current", "rotated"}
           /\ token[t].fate \in Spent => Replace[t].fate \in Spent
    BY <1>2 DEF Replace, Signed, Fates, Spent
  <2>5. n.fate = "current"
    OBVIOUS
  <2> HIDE DEF n
  <2> QED
    BY <2>1, <2>2, <2>3, <2>4, <2>5, TokenSigned
<1>10. ASSUME NEW q \in Requests, Rotate(q)
      PROVE  Reuse'
  <2> DEFINE t == request[q].presented
             n == [version |-> request[q].version, password |-> token[t].password,
                   fate |-> "current"]
             r == [pc |-> "reread", presented |-> t]
  <2>1. t \in DOMAIN token /\ request[q].version = token[t].version
    BY <1>10 DEF Rotate, Inv, Carried
  <2>2. CASE Rotates(q)
    <3>1. /\ token' = Append(Exchange(t), n) /\ request' = [request EXCEPT ![q] = Idle]
          /\ user' = [user EXCEPT !.refresh = Len(token) + 1, !.previous = t, !.inGrace = TRUE]
      BY <1>10, <2>2 DEF Rotate, Finish
    <3>2. /\ user'.version = user.version /\ user'.refresh = Len(token) + 1
          /\ user'.previous = t /\ user'.inGrace
      BY <1>1, <3>1 DEF Row
    <3>3. n \in Signed
      BY <1>2, <2>1 DEF Signed, Fates
    <3>4. t = user.refresh
      BY <2>2 DEF Rotates
    <3>5. \A i \in DOMAIN token :
            /\ Exchange(t)[i].fate # "current"
            /\ Exchange(t)[i].fate = "rotated" => i = t
            /\ token[i].fate \in Spent => Exchange(t)[i].fate \in Spent
      BY <1>2, <2>1, <3>4 DEF Exchange, Signed, Fates, Spent, Reuse, FatesAreTrue
    <3>6. n.fate = "current" /\ Exchange(t) \in {Exchange(i) : i \in DOMAIN token}
      BY <2>1
    <3> HIDE DEF n, t
    <3> QED
      BY <3>1, <3>2, <3>3, <3>5, <3>6, TokenSigned
  <2>3. CASE ~ Rotates(q)
    <3>1. request' = [request EXCEPT ![q] = r] /\ UNCHANGED <<user, token>>
      BY <1>10, <2>3 DEF Rotate
    <3>2. request'[q].pc = "reread" /\ request'[q].presented = t
      <4>1. r.pc = "reread" /\ r.presented = t
        OBVIOUS
      <4> HIDE DEF r
      <4>2. request'[q] = r
        BY <1>1, <3>1
      <4> QED
        BY <4>1, <4>2
    <3>3. token[t].version # user.version \/ t # user.refresh
      BY <2>1, <2>3 DEF Rotates
    <3>4. Suspects(q)'
      BY <2>1, <3>1, <3>2, <3>3 DEF Suspects
    <3> HIDE DEF r
    <3> QED
      BY <3>1, <3>4, TokensStay
  <2> QED
    BY <2>2, <2>3
<1>11. ASSUME NEW q \in Requests, Reread(q)
      PROVE  Reuse'
  <2> DEFINE t == request[q].presented
             r == [pc |-> "revoke", presented |-> t]
  <2>1. UNCHANGED <<user, token>>
    BY <1>11 DEF Reread
  <2>2. CASE request' = [request EXCEPT ![q] = Idle]
    BY <1>3, <2>1, <2>2, TokensStay
  <2>3. CASE /\ request' = [request EXCEPT ![q] = r]
             /\ Active(t) /\ ~ WithinReuseGrace(t)
    <3>1. t \in DOMAIN token /\ (token[t].version # user.version \/ t # user.refresh)
      BY <1>11 DEF Reread, Reuse, Suspects
    <3>2. token[t].fate \in Spent
      BY <1>2, <2>3, <3>1 DEF Active, WithinReuseGrace, Reuse, FatesAreTrue, Signed, Fates, Spent
    <3>3. request'[q].pc = "revoke" /\ request'[q].presented = t
      <4>1. r.pc = "revoke" /\ r.presented = t
        OBVIOUS
      <4> HIDE DEF r
      <4>2. request'[q] = r
        BY <1>1, <2>3
      <4> QED
        BY <4>1, <4>2
    <3>4. Suspects(q)'
      BY <2>1, <3>1, <3>2, <3>3 DEF Suspects
    <3> HIDE DEF r
    <3> QED
      BY <2>1, <2>3, <3>4, TokensStay
  <2> QED
    BY <1>11, <2>2, <2>3 DEF Reread, Finish
<1>12. ASSUME NEW q \in Requests, Revoke(q)
      PROVE  Reuse'
  <2>1. user'.version = user.version + 1 /\ user'.refresh = 0
    BY <1>1, <1>12 DEF Revoke, NoSession, Row
  <2> QED
    BY <1>3, <1>12, <2>1, TokensEnd DEF Revoke, Finish
<1>13. ASSUME NEW q \in Requests, WritePassword(q)
      PROVE  Reuse'
  <2> DEFINE r == [pc |-> "issue", version |-> user.version + 1, password |-> user.password + 1]
  <2>1. request' = [request EXCEPT ![q] = r] /\ token' = EndTokens
    BY <1>13 DEF WritePassword
  <2>2. user'.version = user.version + 1 /\ user'.refresh = 0
    BY <1>1, <1>13 DEF WritePassword, NoSession, Row
  <2>3. Suspects(q)'
    <3>1. request'[q] = r
      BY <1>1, <2>1
    <3> QED
      BY <2>1, <3>1 DEF Suspects
  <2> HIDE DEF r
  <2> QED
    BY <2>1, <2>2, <2>3, TokensEnd
<1>14. ASSUME Tick
       PROVE  Reuse'
  <2>1. /\ user'.version = user.version /\ user'.refresh = user.refresh
        /\ user'.previous = user.previous /\ request' = request
    BY <1>1, <1>14 DEF Tick, Row
  <2>2. CASE token' = token /\ user'.inGrace = user.inGrace
    <3>1. FatesAreTrue'
      BY <2>1, <2>2 DEF Reuse, FatesAreTrue
    <3>2. \A q \in Requests : Suspects(q)'
      BY <2>1, <2>2 DEF Reuse, Suspects
    <3> QED
      BY <3>1, <3>2 DEF Reuse
  <2>3. CASE token' = Lapse
    <3>1. /\ DOMAIN token' = DOMAIN token
          /\ \A t \in DOMAIN token : /\ token'[t].version = token[t].version
                                     /\ token'[t].fate # "rotated"
                                     /\ token'[t].fate = "current" <=> token[t].fate = "current"
                                     /\ token[t].fate \in Spent => token'[t].fate \in Spent
      BY <1>2, <2>3 DEF Lapse, Signed, Spent
    <3>2. FatesAreTrue'
      BY <2>1, <3>1 DEF Reuse, FatesAreTrue
    <3>3. \A q \in Requests : Suspects(q)'
      BY <2>1, <3>1 DEF Reuse, Suspects
    <3> QED
      BY <3>2, <3>3 DEF Reuse
  <2> QED
    BY <1>1, <1>14, <2>2, <2>3 DEF Tick, Lapse, Row
<1> QED
  BY <1>4, <1>5, <1>6, <1>7, <1>8, <1>9, <1>10, <1>11, <1>12, <1>13, <1>14 DEF Next

\* A refresh ends the sessions only for a token that was exchanged longer ago than the
\* grace time, or twice, or replaced by a login: tabs that present one token at once,
\* and whose reads and writes of the row interleave, never do.
THEOREM TabsStaySignedIn ==
  ASSUME Bounds
  PROVE  Spec => []RevokesReuseOnly
<1>1. Init => Reuse
  <2> SUFFICES ASSUME Init PROVE Reuse
    OBVIOUS
  <2>1. FatesAreTrue
    BY DEF Init, FatesAreTrue
  <2>2. \A q \in Requests : request[q].pc = "idle"
    BY DEF Init, Idle
  <2> QED
    BY <2>1, <2>2 DEF Reuse, Suspects
<1>2. Inv /\ Reuse /\ [Next]_sessionVars => Reuse'
  <2> SUFFICES ASSUME Inv, Reuse, [Next]_sessionVars PROVE Reuse'
    OBVIOUS
  <2>1. CASE UNCHANGED sessionVars
    BY <2>1 DEF sessionVars, Reuse, FatesAreTrue, Suspects
  <2> QED
    BY <2>1, StepReuse
<1>3. Reuse => RevokesReuseOnly
  BY DEF Reuse, Suspects, RevokesReuseOnly, Spent
<1> QED
  BY <1>1, <1>2, <1>3, SessionsInvariant, PTL DEF Spec

-----------------------------------------------------------------------------
(* Requests with one key                                                   *)

CONSTANTS
  Attempts, BodyOf, MarkTtl, AnswerTtl, HandlerTime, MaxFailures, MaxFaults, NoRecord

VARIABLES record, attempt, writes, effects, mishap

Keys == INSTANCE Idempotency

LEMMA InitOwner == Keys!InTime /\ Keys!Init => Keys!OneOwner
BY DEF Keys!InTime, Keys!Init, Keys!OneOwner, Keys!Fresh, Keys!At

\* Only a request is elsewhere afterwards, and it is not carried out.
LEMMA MovedOwner ==
  ASSUME Keys!OneOwner, NEW a \in Attempts, Keys!At(a) # "execute",
         NEW pc \in {"get", "reserve", "raced", "answered", "busy", "reused", "failed"},
         HandlerTime \in Nat, Keys!Move(a, pc), UNCHANGED <<record, writes, effects, mishap>>
  PROVE  Keys!OneOwner'
<1>1. /\ Keys!At(a)' = pc
      /\ \A b \in Attempts \ {a} : attempt'[b] = attempt[b]
      /\ attempt' \in [Attempts -> [pc : {"get", "reserve", "raced", "execute", "answered",
                                    "busy", "reused", "failed"}, age : 0 .. HandlerTime]]
  BY DEF Keys!Move, Keys!OneOwner, Keys!At
<1>2. ASSUME NEW b \in Attempts, Keys!At(b)' = "execute"
      PROVE  /\ Keys!Marked(b)' /\ writes' = {}
             /\ \A c \in Attempts : Keys!At(c)' = "execute" => c = b
  <2>1. b # a /\ Keys!At(b) = "execute" /\ attempt'[b] = attempt[b]
    BY <1>1, <1>2 DEF Keys!At
  <2> QED
    BY <1>1, <2>1 DEF Keys!OneOwner, Keys!Marked, Keys!At
<1> QED
  BY <1>1, <1>2 DEF Keys!OneOwner

LEMMA AskedOwner ==
  ASSUME Keys!InTime, Keys!OneOwner, NEW a \in Attempts, Keys!Get(a) \/ Keys!Raced(a) \/ Keys!Retry(a)
  PROVE  Keys!OneOwner'
<1>1. ~ Keys!Fault
  BY DEF Keys!Fault, Keys!InTime, Keys!OneOwner
<1>2. Keys!Decision(record, a) \in {"reused", "busy", "answered"}
  BY DEF Keys!Decision
<1>3. \E pc \in {"reserve", "reused", "busy", "answered", "get"} : Keys!Move(a, pc)
  BY <1>1, <1>2 DEF Keys!Get, Keys!Raced, Keys!Retry
<1> QED
  BY <1>1, <1>3, MovedOwner DEF Keys!InTime, Keys!Get, Keys!Raced, Keys!Retry

LEMMA ReserveOwner ==
  ASSUME Keys!InTime, Keys!OneOwner, NEW a \in Attempts, Keys!Reserve(a)
  PROVE  Keys!OneOwner'
<1>1. ~ Keys!Fault
  BY DEF Keys!Fault, Keys!InTime, Keys!OneOwner
<1>2. CASE record # NoRecord
  BY <1>1, <1>2, MovedOwner DEF Keys!Reserve, Keys!Free, Keys!InTime
<1>3. CASE record = NoRecord
  <2>1. /\ record' = Keys!Mark(a) /\ Keys!Move(a, "execute") /\ UNCHANGED <<writes, effects, mishap>>
    BY <1>1, <1>3 DEF Keys!Reserve, Keys!Free
  <2>2. /\ writes = {} /\ effects = 0
        /\ \A b \in Attempts : Keys!At(b) # "execute"
    <3>1. \A b \in Attempts : ~ Keys!Marked(b)
      BY <1>3 DEF Keys!Marked, Keys!InTime, Keys!Kept, Keys!OneOwner
    <3> QED
      BY <1>3, <3>1 DEF Keys!OneOwner
  <2>3. /\ attempt'[a] = [pc |-> "execute", age |-> 0]
        /\ \A b \in Attempts \ {a} : attempt'[b] = attempt[b]
        /\ attempt' \in [Attempts -> [pc : {"get", "reserve", "raced", "execute",
                    "answered", "busy", "reused", "failed"}, age : 0 .. HandlerTime]]
    BY <2>1 DEF Keys!Move, Keys!OneOwner, Keys!InTime
  <2>4. record' \in Keys!Kept /\ record'.state = "IN_PROGRESS" /\ Keys!Marked(a)'
    BY <2>1, <2>3 DEF Keys!Mark, Keys!Marked, Keys!Kept, Keys!InTime
  <2> QED
    BY <2>1, <2>2, <2>3, <2>4 DEF Keys!OneOwner, Keys!At
<1> QED
  BY <1>2, <1>3

\* The request is carried out, or refused, and tells Redis.
LEMMA EndedOwner ==
  ASSUME Keys!InTime, Keys!OneOwner, NEW a \in Attempts, Keys!Succeed(a) \/ Keys!Fail(a)
  PROVE  Keys!OneOwner'
<1>1. /\ Keys!At(a) = "execute" /\ Keys!Marked(a) /\ writes = {} /\ effects = 0
      /\ record \in Keys!Kept /\ record.state = "IN_PROGRESS"
      /\ \A b \in Attempts : Keys!At(b) = "execute" => b = a
  <2>1. Keys!At(a) = "execute" /\ Keys!Marked(a) /\ writes = {}
    BY DEF Keys!Succeed, Keys!Fail, Keys!OneOwner
  <2>2. record.state = "IN_PROGRESS" /\ record \in Keys!Kept
    <3>1. attempt[a].age \in 0 .. HandlerTime
      BY DEF Keys!OneOwner
    <3> QED
      BY <2>1, <3>1 DEF Keys!Marked, Keys!Kept, Keys!InTime
  <2> QED
    BY <2>1, <2>2 DEF Keys!OneOwner
<1>2. PICK kind \in {"complete", "abandon"}, pc \in {"answered", "failed"} :
        /\ writes' = writes \cup {[by |-> a, kind |-> kind]} /\ Keys!Move(a, pc)
        /\ effects' = IF kind = "complete" THEN effects + 1 ELSE effects
        /\ record' = record /\ mishap'.faults = mishap.faults
  <2>1. CASE Keys!Succeed(a)
    BY <2>1 DEF Keys!Succeed
  <2>2. CASE Keys!Fail(a)
    BY <2>2 DEF Keys!Fail
  <2> QED
    BY <2>1, <2>2
<1>3. /\ \A b \in Attempts : Keys!At(b)' # "execute"
      /\ attempt' \in [Attempts -> [pc : {"get", "reserve", "raced", "execute",
                  "answered", "busy", "reused", "failed"}, age : 0 .. HandlerTime]]
  BY <1>1, <1>2 DEF Keys!Move, Keys!At, Keys!OneOwner, Keys!InTime
<1>4. writes' = {[by |-> a, kind |-> kind]}
  BY <1>1, <1>2
<1>5. record' \in Keys!Kept /\ record' # NoRecord /\ record'.state = "IN_PROGRESS"
  BY <1>1, <1>2 DEF Keys!InTime
<1> QED
  BY <1>1, <1>2, <1>3, <1>4, <1>5 DEF Keys!OneOwner

\* What it tells Redis arrives.
LEMMA ArrivedOwner ==
  ASSUME Keys!InTime, Keys!OneOwner, NEW w \in writes, Keys!Arrive(w)
  PROVE  Keys!OneOwner'
<1>1. ~ Keys!Fault
  BY DEF Keys!Fault, Keys!InTime, Keys!OneOwner
<1>2. /\ w.by \in Attempts /\ w.kind \in {"complete", "abandon"} /\ writes' = {}
      /\ record' = IF w.kind = "abandon" THEN NoRecord
                     ELSE [state |-> "COMPLETED", body |-> BodyOf[w.by], ttl |-> AnswerTtl]
      /\ UNCHANGED <<attempt, effects, mishap>>
  BY <1>1 DEF Keys!Arrive, Keys!OneOwner
<1>3. \A a \in Attempts : Keys!At(a) # "execute"
  BY DEF Keys!OneOwner
<1>4. effects = IF w.kind = "complete" THEN 1 ELSE 0
  BY DEF Keys!OneOwner
<1>5. CASE w.kind = "abandon"
  BY <1>2, <1>3, <1>4, <1>5 DEF Keys!OneOwner, Keys!At
<1>6. CASE w.kind = "complete"
  <2>1. record' \in Keys!Kept /\ record'.state = "COMPLETED" /\ record' # NoRecord
    BY <1>2, <1>6 DEF Keys!Kept, Keys!InTime
  <2> QED
    BY <1>2, <1>3, <1>4, <1>6, <2>1 DEF Keys!OneOwner, Keys!At
<1> QED
  BY <1>2, <1>5, <1>6

\* Time passes: no mark expires while its request is carried out.
LEMMA TickOwner ==
  ASSUME Keys!InTime, Keys!OneOwner, Keys!Tick
  PROVE  Keys!OneOwner'
<1>1. /\ writes = {} /\ UNCHANGED <<writes, mishap>> /\ record' = Keys!Aged
      /\ \A a \in Attempts : attempt[a].age < HandlerTime
      /\ \A a \in Attempts :
           attempt'[a] = IF Keys!At(a) = "execute" THEN [attempt[a] EXCEPT !.age = @ + 1]
                                              ELSE attempt[a]
      /\ effects' = IF record # NoRecord /\ record.state = "COMPLETED" /\ Keys!Aged = NoRecord
                      THEN 0 ELSE effects
  BY DEF Keys!Tick
<1>2. /\ \A a \in Attempts : Keys!At(a)' = Keys!At(a)
      /\ \A a \in Attempts : Keys!At(a) = "execute" => attempt'[a].age = attempt[a].age + 1
      /\ attempt' \in [Attempts -> [pc : {"get", "reserve", "raced", "execute",
                  "answered", "busy", "reused", "failed"}, age : 0 .. HandlerTime]]
  BY <1>1 DEF Keys!At, Keys!OneOwner, Keys!InTime, Keys!Tick
<1>3. /\ Keys!Aged \in Keys!Kept \cup {NoRecord}
      /\ record = NoRecord => Keys!Aged = NoRecord
      /\ Keys!Aged # NoRecord => Keys!Aged.state = record.state
  BY DEF Keys!Aged, Keys!OneOwner, Keys!Kept, Keys!InTime
<1>4. ASSUME NEW a \in Attempts, Keys!At(a) = "execute"
      PROVE  Keys!Marked(a)'
  <2>1. /\ Keys!Marked(a) /\ attempt[a].age \in Nat /\ attempt[a].age < HandlerTime
        /\ record # NoRecord
    BY <1>1, <1>4 DEF Keys!OneOwner, Keys!Marked, Keys!Kept, Keys!InTime
  <2>2. record.ttl = MarkTtl - attempt[a].age /\ record.ttl # 1
    BY <2>1 DEF Keys!Marked, Keys!InTime
  <2>3. Keys!Aged = [record EXCEPT !.ttl = @ - 1]
    BY <2>1, <2>2 DEF Keys!Aged
  <2> QED
    BY <1>1, <1>2, <1>4, <2>1, <2>2, <2>3 DEF Keys!Marked, Keys!InTime
<1>5. effects' = IF record' # NoRecord /\ record'.state = "COMPLETED" THEN 1 ELSE 0
  BY <1>1, <1>3 DEF Keys!OneOwner
<1> QED
  BY <1>1, <1>2, <1>3, <1>4, <1>5 DEF Keys!OneOwner

LEMMA NextOwner ==
  ASSUME Keys!InTime, Keys!OneOwner, [Keys!Next]_(Keys!idempotencyVars)
  PROVE  Keys!OneOwner'
<1>1. ASSUME NEW a \in Attempts, Keys!Serve(a) \/ Keys!Crash(a) \/ Keys!Retry(a)
      PROVE  Keys!OneOwner'
  <2>1. ~ Keys!Crash(a)
    BY DEF Keys!Crash, Keys!Fault, Keys!InTime, Keys!OneOwner
  <2> QED
    BY <1>1, <2>1, AskedOwner, ReserveOwner, EndedOwner DEF Keys!Serve
<1>2. CASE UNCHANGED Keys!idempotencyVars
  BY <1>2 DEF Keys!idempotencyVars, Keys!OneOwner, Keys!Marked, Keys!At
<1> QED
  BY <1>1, <1>2, ArrivedOwner, TickOwner DEF Keys!Next

\* Requests with one key have their effect once at most for as long as its answer is kept,
\* however many there are and however they overlap, are refused and are sent again, as
\* long as Redis answers and a mark outlives the handler that set it.
THEOREM KeyWorksOnce == Keys!InTime /\ Keys!Spec => []Keys!ExecutedOnce
<1>1. SUFFICES ASSUME Keys!InTime
               PROVE  Keys!Spec => []Keys!ExecutedOnce
  OBVIOUS
<1>2. Keys!Init => Keys!OneOwner
  BY <1>1, InitOwner
<1>3. Keys!OneOwner /\ [Keys!Next]_(Keys!idempotencyVars) => Keys!OneOwner'
  BY <1>1, NextOwner
<1>4. Keys!OneOwner => Keys!ExecutedOnce
  BY DEF Keys!OneOwner, Keys!ExecutedOnce
<1> QED
  BY <1>2, <1>3, <1>4, PTL DEF Keys!Spec
=============================================================================
