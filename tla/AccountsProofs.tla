-------------------------- MODULE AccountsProofs --------------------------
(* What Accounts promises, for any tabs, browsers, emails and passwords.   *)
EXTENDS Accounts, TLAPS

\* No two requests come of one click, and an account comes of a request that is gone.
Fresh ==
  /\ \A c \in asked : c.click \in 1..clicks /\ users[c.click] = NoRow
  /\ \A c, d \in asked : c.click = d.click => c = d
  /\ \A i \in Clicks : i > clicks => users[i] = NoRow

\* Requests bear what was typed in their browser, and so do the accounts in responses.
Earned ==
  /\ \A c \in asked : c \in SignCalls =>
       [email |-> NormEmail[c.email], password |-> c.password] \in typed[Browser[c.tab]]
  /\ \A a \in answered : a.ok /\ a.call \in SignCalls =>
       a.token \in Tokens /\ users[a.token.user] \in typed[Browser[a.call.tab]]
  /\ TokensAreEarned

\* A tab that is not apart shows whose token is stored, or is about to, and its requests
\* say so.
Shown ==
  /\ \A t \in Tabs :
       IF opened[t]
         THEN apart[t] \/ EmailOf(Storage(t).token) =
                            (IF writing[t] = Nothing THEN userEmail[t] ELSE writing[t])
         ELSE userEmail[t] = None /\ writing[t] = Nothing
  /\ \A c \in asked : opened[c.tab]
  /\ \A a \in answered : opened[a.call.tab]
  /\ \A c \in asked : c \in CreateCalls /\ c.token # NoToken =>
       users[c.token.user] \in Rows /\ (~c.apart => users[c.token.user].email = c.shown)
  /\ \A d \in documents : users[d.by] \in Rows

\* Unless tabs came across each other, one at most is between its two writes, and the
\* second is going to be what the first calls for.
Halfway ==
  \A t \in Tabs : writing[t] # Nothing /\ ~crossed[Browser[t]] =>
    writing[t] = EmailOf(Storage(t).token) /\ ~Disturbed(t)

\* The inductive invariant.
AccountsInv ==
  /\ TypeOK /\ OneAccountPerEmail /\ Fresh /\ Earned
  /\ Halfway /\ StorageAgrees /\ Shown /\ CreatedAsShown

LEMMA InitKeeps == Init => AccountsInv
<1> SUFFICES ASSUME Init PROVE AccountsInv OBVIOUS
<1> USE AccountsAssumption DEF Init
<1>1. TypeOK BY DEF TypeOK
<1>2. OneAccountPerEmail BY DEF OneAccountPerEmail
<1>3. Fresh BY DEF Fresh
<1>4. Earned BY DEF Earned, TokensAreEarned
<1>5. StorageAgrees BY DEF StorageAgrees, EmailOf
<1>6. Shown BY DEF Shown
<1>7. CreatedAsShown BY DEF CreatedAsShown
<1>8. Halfway BY DEF Halfway
<1>9. QED BY <1>1, <1>2, <1>3, <1>4, <1>5, <1>6, <1>7, <1>8 DEF AccountsInv

\* Requests are told apart by their kind.
LEMMA Kinds ==
  ASSUME NEW c \in Calls
  PROVE  /\ c.kind \in {"register", "login"} <=> c \in SignCalls
         /\ c.kind = "create" <=> c \in CreateCalls
BY DEF Calls, SignCalls, CreateCalls

\* Nothing that is stored names an account that does not exist.
LEMMA StoredExists ==
  ASSUME AccountsInv, NEW b \in Browsers, storage[b].token # NoToken
  PROVE  storage[b].token.user \in Clicks /\ users[storage[b].token.user] \in Rows
<1>1. storage[b].token \in Tokens BY DEF AccountsInv, TypeOK
<1>2. typed[b] \subseteq Rows BY DEF AccountsInv, TypeOK
<1>3. QED BY <1>1, <1>2 DEF AccountsInv, Earned, TokensAreEarned, Tokens

-----------------------------------------------------------------------------
(* In the tab.                                                             *)

LEMMA OpenKeeps == ASSUME AccountsInv, NEW t \in Tabs, Open(t) PROVE AccountsInv'
<1> USE AccountsAssumption DEF AccountsInv, Open, serverVars, userVars
<1>1. TypeOK' BY DEF TypeOK, Storage
<1>2. OneAccountPerEmail' BY DEF OneAccountPerEmail
<1>3. Fresh' BY DEF Fresh
<1>4. Earned' BY DEF Earned, TokensAreEarned
<1>5. Halfway' BY DEF Halfway, Disturbed, EmailOf, Storage
<1>6. StorageAgrees' BY DEF StorageAgrees, EmailOf
<1>7. Shown'
  <2>1. ASSUME NEW u \in Tabs
        PROVE  IF opened'[u]
                 THEN apart'[u] \/ EmailOf(Storage(u).token)' =
                                    (IF writing[u] = Nothing THEN userEmail'[u] ELSE writing[u])
                 ELSE userEmail'[u] = None /\ writing[u] = Nothing
    <3>1. CASE u # t BY <3>1 DEF Shown, Storage, EmailOf, TypeOK
    <3>2. CASE u = t
      <4>1. writing[t] = Nothing BY DEF Shown
      <4>2. apart'[t] = (Disturbed(t) \/ crossed[Browser[t]]) /\ opened'[t]
            /\ userEmail'[t] = storage[Browser[t]].email
        BY DEF TypeOK, Storage
      <4>3. ASSUME ~apart'[t] PROVE userEmail'[t] = EmailOf(storage[Browser[t]].token)
        BY <4>1, <4>2, <4>3 DEF StorageAgrees, Disturbed
      <4> QED BY <3>2, <4>1, <4>2, <4>3 DEF Storage, EmailOf
    <3> QED BY <3>1, <3>2
  <2> QED BY <2>1 DEF Shown, Storage
<1>8. CreatedAsShown' BY DEF CreatedAsShown
<1>9. QED BY <1>1, <1>2, <1>3, <1>4, <1>5, <1>6, <1>7, <1>8

LEMMA SignKeeps ==
  ASSUME AccountsInv, NEW t \in Tabs, NEW kind \in {"register", "login"},
         NEW e \in Emails, NEW p \in Passwords, Sign(t, kind, e, p)
  PROVE  AccountsInv'
<1> DEFINE c == [kind |-> kind, tab |-> t, click |-> clicks + 1, email |-> e, password |-> p]
<1> USE AccountsAssumption DEF AccountsInv
<1>1. /\ asked' = asked \cup {c} /\ clicks' = clicks + 1 /\ clicks + 1 \in Clicks
      /\ clicks \in Nat /\ opened[t]
      /\ typed' = [typed EXCEPT ![Browser[t]] =
                     @ \cup {[email |-> NormEmail[e], password |-> p]}]
      /\ UNCHANGED <<users, documents, live, storage, opened, userEmail, creating, writing,
                     apart, crossed, answered, mishaps>>
  BY DEF Sign, Idle, Click, serverVars, tabVars, TypeOK, Clicks
<1>2. c \in SignCalls /\ c \notin CreateCalls /\ c.tab = t BY <1>1 DEF SignCalls, CreateCalls
<1>3. [email |-> NormEmail[e], password |-> p] \in Rows BY DEF Rows
<1>4. \A b \in Browsers : typed[b] \subseteq typed'[b] BY <1>1 DEF TypeOK
<1>5. TypeOK' BY <1>1, <1>2, <1>3 DEF TypeOK, Calls, Clicks
<1>6. OneAccountPerEmail' BY <1>1 DEF OneAccountPerEmail
<1>7. Fresh' BY <1>1 DEF Fresh, Clicks
<1>8. Earned'
  <2>1. ASSUME NEW d \in asked', d \in SignCalls
        PROVE  [email |-> NormEmail[d.email], password |-> d.password] \in typed'[Browser[d.tab]]
    <3>1. CASE d = c BY <3>1, <1>1 DEF TypeOK
    <3>2. CASE d # c
      <4>1. d \in asked /\ Browser[d.tab] \in Browsers BY <3>2, <1>1, <2>1 DEF SignCalls
      <4> QED BY <4>1, <2>1, <1>4 DEF Earned
    <3> QED BY <3>1, <3>2
  <2>2. ASSUME NEW a \in answered, a.ok, a.call \in SignCalls
        PROVE  a.token \in Tokens /\ users[a.token.user] \in typed'[Browser[a.call.tab]]
    <3>1. Browser[a.call.tab] \in Browsers BY <2>2 DEF SignCalls
    <3> QED BY <3>1, <2>2, <1>4 DEF Earned
  <2>3. TokensAreEarned' BY <1>1, <1>4 DEF Earned, TokensAreEarned
  <2> QED BY <2>1, <2>2, <2>3, <1>1 DEF Earned
<1>9. Halfway' BY <1>1 DEF Halfway, Disturbed, Storage, EmailOf
<1>10. StorageAgrees' BY <1>1 DEF StorageAgrees, EmailOf
<1>11. Shown' BY <1>1, <1>2 DEF Shown, Storage, EmailOf
<1>12. CreatedAsShown' BY <1>1 DEF CreatedAsShown
<1>13. QED BY <1>5, <1>6, <1>7, <1>8, <1>9, <1>10, <1>11, <1>12

\* A tab that writes a token whose account it is going to show.
LEMMA WriteTokenKeeps ==
  ASSUME AccountsInv, NEW t \in Tabs, Idle(t), NEW token \in Tokens \cup {NoToken},
         token # NoToken => users[token.user] \in typed[Browser[t]],
         WriteToken(t, token, EmailOf(token)), answered' \subseteq answered,
         UNCHANGED <<serverVars, asked, userVars>>
  PROVE  AccountsInv'
<1> DEFINE b == Browser[t]
           e == EmailOf(token)
<1> USE AccountsAssumption DEF AccountsInv
<1>1. /\ storage' = [storage EXCEPT ![b].token = token] /\ writing' = [writing EXCEPT ![t] = e]
      /\ apart' = Apart(t) /\ crossed' = [crossed EXCEPT ![b] = Disturbed(t)]
      /\ UNCHANGED <<users, documents, live, opened, userEmail, creating, asked, typed, clicks,
                     mishaps>>
      /\ answered' \subseteq answered
  BY DEF WriteToken, serverVars, userVars
<1>2. b \in Browsers /\ opened[t] BY DEF Idle
<1>3. e \in Emails \cup {None} /\ e # Nothing
  BY <1>2 DEF EmailOf, TypeOK, Rows
<1>4. /\ storage'[b].token = token /\ storage'[b].email = storage[b].email
      /\ \A d \in Browsers : d # b => storage'[d] = storage[d] /\ crossed'[d] = crossed[d]
      /\ crossed'[b] = Disturbed(t)
  BY <1>1, <1>2 DEF TypeOK
<1>5. writing'[t] = e /\ \A u \in Tabs : u # t => writing'[u] = writing[u] BY <1>1 DEF TypeOK
<1> HIDE DEF b, e
<1>6. TypeOK'
  <2>1. Apart(t) \in [Tabs -> BOOLEAN] BY DEF Apart, TypeOK
  <2>2. Disturbed(t) \in BOOLEAN BY DEF Disturbed
  <2>3. crossed' \in [Browsers -> BOOLEAN] BY <1>1, <2>2 DEF TypeOK
  <2>4. writing' \in [Tabs -> Emails \cup {None, Nothing}] BY <1>1, <1>3 DEF TypeOK
  <2>5. storage' \in [Browsers -> [token : Tokens \cup {NoToken}, email : Emails \cup {None}]]
    BY <1>1 DEF TypeOK
  <2> QED BY <1>1, <2>1, <2>3, <2>4, <2>5 DEF TypeOK
<1>7. OneAccountPerEmail' BY <1>1 DEF OneAccountPerEmail
<1>8. Fresh' BY <1>1 DEF Fresh
<1>9. Earned'
  <2>1. TokensAreEarned' BY <1>1, <1>4 DEF Earned, TokensAreEarned, b
  <2> QED BY <2>1, <1>1 DEF Earned
<1>10. Halfway'
  <2> SUFFICES ASSUME NEW u \in Tabs, writing'[u] # Nothing, ~crossed'[Browser[u]]
               PROVE  writing'[u] = EmailOf(Storage(u).token)' /\ ~Disturbed(u)'
    BY DEF Halfway
  <2>1. CASE u = t
    <3>1. ~Disturbed(t) BY <2>1, <1>4 DEF b
    <3>2. ~Disturbed(t)' BY <3>1, <1>5 DEF Disturbed
    <3>3. EmailOf(Storage(t).token)' = e BY <1>1, <1>4 DEF EmailOf, Storage, b, e
    <3> QED BY <2>1, <3>2, <3>3, <1>5
  <2>2. CASE u # t /\ Browser[u] = b
    <3>1. Disturbed(t) BY <2>2, <1>5 DEF Disturbed, b
    <3> QED BY <3>1, <2>2, <1>4
  <2>3. CASE u # t /\ Browser[u] # b
    <3>1. Browser[u] \in Browsers OBVIOUS
    <3>2. writing[u] = EmailOf(Storage(u).token) /\ ~Disturbed(u)
      BY <2>3, <3>1, <1>4, <1>5 DEF Halfway
    <3>3. ~Disturbed(u)' BY <3>2, <2>3, <1>5 DEF Disturbed, b
    <3>4. EmailOf(Storage(u).token)' = EmailOf(Storage(u).token)
      BY <2>3, <3>1, <1>1, <1>4 DEF EmailOf, Storage
    <3> QED BY <2>3, <3>2, <3>3, <3>4, <1>5
  <2> QED BY <2>1, <2>2, <2>3
<1>11. StorageAgrees'
  <2> SUFFICES ASSUME NEW d \in Browsers, ~crossed'[d],
                      \A u \in Tabs : Browser[u] = d => writing'[u] = Nothing
               PROVE  storage'[d].email = EmailOf(storage[d].token)'
    BY DEF StorageAgrees
  <2>1. d # b BY <1>3, <1>5 DEF b
  <2>2. \A u \in Tabs : Browser[u] = d => writing[u] = Nothing BY <2>1, <1>5 DEF b
  <2> QED BY <2>1, <2>2, <1>1, <1>4 DEF StorageAgrees, EmailOf
<1>12. Shown'
  <2>1. ASSUME NEW u \in Tabs
        PROVE  IF opened[u]
                 THEN apart'[u] \/ EmailOf(Storage(u).token)' =
                                    (IF writing'[u] = Nothing THEN userEmail[u] ELSE writing'[u])
                 ELSE userEmail[u] = None /\ writing'[u] = Nothing
    <3>1. CASE u = t
      <4>1. EmailOf(Storage(t).token)' = e BY <1>1, <1>4 DEF EmailOf, Storage, b, e
      <4> QED BY <3>1, <4>1, <1>2, <1>3, <1>5
    <3>2. CASE u # t /\ Browser[u] = b
      <4>1. opened[u] => apart'[u] BY <3>2, <1>1 DEF Apart, b
      <4> QED BY <3>2, <4>1, <1>5 DEF Shown
    <3>3. CASE u # t /\ Browser[u] # b
      <4>1. apart'[u] = apart[u] BY <3>3, <1>1 DEF Apart, b, TypeOK
      <4>2. EmailOf(Storage(u).token)' = EmailOf(Storage(u).token)
        BY <3>3, <1>1, <1>4 DEF EmailOf, Storage
      <4> QED BY <3>3, <4>1, <4>2, <1>5 DEF Shown
    <3> QED BY <3>1, <3>2, <3>3
  <2>2. \A a \in answered' : opened[a.call.tab] BY <1>1 DEF Shown
  <2> QED BY <2>1, <2>2, <1>1 DEF Shown
<1>13. CreatedAsShown' BY <1>1 DEF CreatedAsShown
<1>14. QED BY <1>6, <1>7, <1>8, <1>9, <1>10, <1>11, <1>12, <1>13

LEMMA LogoutKeeps == ASSUME AccountsInv, NEW t \in Tabs, Logout(t) PROVE AccountsInv'
<1>1. EmailOf(NoToken) = None BY DEF EmailOf
<1>2. QED BY <1>1, WriteTokenKeeps DEF Logout

LEMMA WriteEmailKeeps == ASSUME AccountsInv, NEW t \in Tabs, WriteEmail(t) PROVE AccountsInv'
<1> DEFINE b == Browser[t]
<1> USE AccountsAssumption DEF AccountsInv
<1>1. /\ storage' = [storage EXCEPT ![b].email = writing[t]] /\ writing[t] # Nothing
      /\ userEmail' = [userEmail EXCEPT ![t] = writing[t]]
      /\ writing' = [writing EXCEPT ![t] = Nothing]
      /\ UNCHANGED <<users, documents, live, opened, creating, apart, crossed, asked, answered,
                     typed, clicks, mishaps>>
  BY DEF WriteEmail, serverVars, userVars
<1>2. b \in Browsers /\ opened[t] BY <1>1 DEF Shown
<1>3. writing[t] \in Emails \cup {None} BY <1>1 DEF TypeOK
<1>4. /\ storage'[b].email = writing[t]
      /\ \A d \in Browsers : storage'[d].token = storage[d].token
      /\ \A d \in Browsers : d # b => storage'[d] = storage[d]
  BY <1>1, <1>2 DEF TypeOK
<1>5. /\ writing'[t] = Nothing /\ userEmail'[t] = writing[t]
      /\ \A u \in Tabs : u # t => writing'[u] = writing[u] /\ userEmail'[u] = userEmail[u]
  BY <1>1 DEF TypeOK
<1> HIDE DEF b
<1>6. \A d \in Browsers : EmailOf(storage[d].token)' = EmailOf(storage[d].token)
  BY <1>1, <1>4 DEF EmailOf
<1>7. TypeOK'
  <2>1. storage' \in [Browsers -> [token : Tokens \cup {NoToken}, email : Emails \cup {None}]]
    BY <1>1, <1>3 DEF TypeOK
  <2>2. /\ userEmail' \in [Tabs -> Emails \cup {None}]
        /\ writing' \in [Tabs -> Emails \cup {None, Nothing}]
    BY <1>1, <1>3 DEF TypeOK
  <2> QED BY <1>1, <2>1, <2>2 DEF TypeOK
<1>8. OneAccountPerEmail' BY <1>1 DEF OneAccountPerEmail
<1>9. Fresh' BY <1>1 DEF Fresh
<1>10. Earned'
  <2>1. TokensAreEarned' BY <1>1, <1>4 DEF Earned, TokensAreEarned
  <2> QED BY <2>1, <1>1 DEF Earned
<1>11. Halfway'
  <2> SUFFICES ASSUME NEW u \in Tabs, writing'[u] # Nothing, ~crossed[Browser[u]]
               PROVE  writing'[u] = EmailOf(Storage(u).token)' /\ ~Disturbed(u)'
    BY <1>1 DEF Halfway
  <2>1. u # t /\ Browser[u] \in Browsers BY <1>5
  <2>2. writing[u] = EmailOf(Storage(u).token) /\ ~Disturbed(u)
    BY <2>1, <1>5 DEF Halfway
  <2>3. ~Disturbed(u)' BY <2>2, <1>5 DEF Disturbed
  <2> QED BY <2>1, <2>2, <2>3, <1>5, <1>6 DEF Storage
<1>12. StorageAgrees'
  <2> SUFFICES ASSUME NEW d \in Browsers, ~crossed[d],
                      \A u \in Tabs : Browser[u] = d => writing'[u] = Nothing
               PROVE  storage'[d].email = EmailOf(storage[d].token)'
    BY <1>1 DEF StorageAgrees
  <2>1. CASE d = b
    <3>1. writing[t] = EmailOf(storage[b].token) BY <2>1, <1>1 DEF Halfway, Storage, b
    <3> QED BY <2>1, <3>1, <1>4, <1>6
  <2>2. CASE d # b
    <3>1. \A u \in Tabs : Browser[u] = d => writing[u] = Nothing BY <2>2, <1>5 DEF b
    <3> QED BY <2>2, <3>1, <1>4, <1>6 DEF StorageAgrees
  <2> QED BY <2>1, <2>2
<1>13. Shown'
  <2>1. ASSUME NEW u \in Tabs
        PROVE  IF opened[u]
                 THEN apart[u] \/ EmailOf(Storage(u).token)' =
                                   (IF writing'[u] = Nothing THEN userEmail'[u] ELSE writing'[u])
                 ELSE userEmail'[u] = None /\ writing'[u] = Nothing
    <3>1. EmailOf(Storage(u).token)' = EmailOf(Storage(u).token) BY <1>6 DEF Storage
    <3>2. CASE u = t BY <3>1, <3>2, <1>1, <1>2, <1>5 DEF Shown
    <3>3. CASE u # t BY <3>1, <3>3, <1>5 DEF Shown
    <3> QED BY <3>2, <3>3
  <2> QED BY <2>1, <1>1 DEF Shown
<1>14. CreatedAsShown' BY <1>1 DEF CreatedAsShown
<1>15. QED BY <1>7, <1>8, <1>9, <1>10, <1>11, <1>12, <1>13, <1>14

LEMMA CreateDocKeeps == ASSUME AccountsInv, NEW t \in Tabs, CreateDoc(t) PROVE AccountsInv'
<1> DEFINE c == CreateCall(t, clicks + 1, Storage(t).token)
<1> USE AccountsAssumption DEF AccountsInv
<1>1. /\ asked' = asked \cup {c} /\ clicks' = clicks + 1 /\ clicks + 1 \in Clicks
      /\ clicks \in Nat /\ opened[t] /\ writing[t] = Nothing
      /\ creating' = [creating EXCEPT ![t] = TRUE]
      /\ UNCHANGED <<users, documents, live, storage, opened, userEmail, writing, apart,
                     crossed, answered, typed, mishaps>>
  BY DEF CreateDoc, Idle, Click, serverVars, TypeOK, Clicks
<1>2. c \in CreateCalls /\ c \notin SignCalls
  BY <1>1 DEF SignCalls, CreateCalls, CreateCall, TypeOK, Storage
<1>3. c.click = clicks + 1 /\ c.tab = t BY DEF CreateCall
<1>4. TypeOK' BY <1>1, <1>2 DEF TypeOK, Calls, Clicks
<1>5. OneAccountPerEmail' BY <1>1 DEF OneAccountPerEmail
<1>6. Fresh' BY <1>1, <1>3 DEF Fresh, Clicks
<1>7. Earned' BY <1>1, <1>2 DEF Earned, TokensAreEarned
<1>8. Halfway' BY <1>1 DEF Halfway, Disturbed, Storage, EmailOf
<1>9. StorageAgrees' BY <1>1 DEF StorageAgrees, EmailOf
<1>10. Shown'
  <2>1. c.token # NoToken =>
          users[c.token.user] \in Rows /\ (~c.apart => users[c.token.user].email = c.shown)
    <3> SUFFICES ASSUME c.token # NoToken
                 PROVE  users[c.token.user] \in Rows
                        /\ (~c.apart => users[c.token.user].email = c.shown)
      OBVIOUS
    <3>1. /\ c.token = storage[Browser[t]].token /\ c.apart = apart[t]
          /\ c.shown = userEmail[t] /\ Browser[t] \in Browsers
      BY DEF CreateCall, Storage
    <3>2. users[c.token.user] \in Rows BY <3>1, StoredExists
    <3>3. EmailOf(storage[Browser[t]].token) = users[c.token.user].email BY <3>1 DEF EmailOf
    <3>4. apart[t] \/ userEmail[t] = EmailOf(storage[Browser[t]].token)
      BY <1>1 DEF Shown, Storage
    <3> QED BY <3>1, <3>2, <3>3, <3>4
  <2> HIDE DEF c
  <2> QED BY <2>1, <1>1, <1>3 DEF Shown, Storage, EmailOf
<1>11. CreatedAsShown' BY <1>1 DEF CreatedAsShown
<1>12. QED BY <1>4, <1>5, <1>6, <1>7, <1>8, <1>9, <1>10, <1>11

-----------------------------------------------------------------------------
(* On the server.                                                          *)

\* A document bears the account that was shown when it was asked for.
WellMade(d) == users[d.by] \in Rows /\ (~d.apart => users[d.by].email = d.shown)

\* A response without a token tells nobody anything.
LEMMA RefusalKeeps ==
  ASSUME AccountsInv, NEW c \in asked, NEW ok \in BOOLEAN, Answer(c, ok, NoToken),
         c \in SignCalls => ~ok, mishaps' \in 0..MaxMishaps,
         UNCHANGED <<users, live, storage, opened, userEmail, creating, writing, apart, crossed,
                     typed, clicks>>,
         documents' \subseteq Documents, \A d \in documents' : WellMade(d)
  PROVE  AccountsInv'
<1> USE DEF AccountsInv, Answer
<1>1. Reply(c, ok, NoToken) \in [call : Calls, ok : BOOLEAN, token : Tokens \cup {NoToken}]
  BY DEF Reply, TypeOK
<1>2. TypeOK' BY <1>1 DEF TypeOK
<1>3. OneAccountPerEmail' BY DEF OneAccountPerEmail
<1>4. Fresh' BY DEF Fresh
<1>5. Earned' BY DEF Earned, TokensAreEarned, Reply
<1>6. Halfway' BY DEF Halfway, Disturbed, Storage, EmailOf
<1>7. StorageAgrees' BY DEF StorageAgrees, EmailOf
<1>8. Shown' BY DEF Shown, Storage, EmailOf, WellMade, Reply
<1>9. CreatedAsShown' BY DEF CreatedAsShown, WellMade
<1>10. QED BY <1>2, <1>3, <1>4, <1>5, <1>6, <1>7, <1>8, <1>9

\* So does one that comes with no new document.
LEMMA PlainRefusalKeeps ==
  ASSUME AccountsInv, NEW c \in asked, NEW ok \in BOOLEAN, Answer(c, ok, NoToken),
         c \in SignCalls => ~ok, mishaps' \in 0..MaxMishaps,
         UNCHANGED <<users, live, storage, opened, userEmail, creating, writing, apart, crossed,
                     typed, clicks>>,
         UNCHANGED documents
  PROVE  AccountsInv'
<1>1. \A d \in documents : WellMade(d) BY DEF AccountsInv, Shown, CreatedAsShown, WellMade
<1>2. documents \subseteq Documents BY DEF AccountsInv, TypeOK
<1>3. QED BY <1>1, <1>2, RefusalKeeps

\* A response with a token for an account whose password was typed in the browser.
LEMMA AcceptanceKeeps ==
  ASSUME AccountsInv, NEW c \in asked, c \in SignCalls, NEW i \in Clicks,
         Answer(c, TRUE, Token(i, c.click)), live' = Append(live, Token(i, c.click)),
         users'[i] = [email |-> NormEmail[c.email], password |-> c.password],
         users' = users \/ (i = c.click
                    /\ users' = [users EXCEPT ![i] = [email |-> NormEmail[c.email], password |-> c.password]]
                    /\ ~Taken(NormEmail[c.email])),
         UNCHANGED <<documents, tabVars, userVars>>
  PROVE  AccountsInv'
<1> DEFINE r == Reply(c, TRUE, Token(i, c.click))
           row == [email |-> NormEmail[c.email], password |-> c.password]
<1> USE AccountsAssumption DEF AccountsInv
<1>1. /\ asked' = asked \ {c} /\ answered' = answered \cup {r}
      /\ UNCHANGED <<documents, storage, opened, userEmail, creating, writing, apart, crossed,
                     typed, clicks, mishaps>>
  BY DEF Answer, tabVars, userVars
<1>2. c \in Calls /\ c.click \in Clicks /\ c.tab \in Tabs /\ Browser[c.tab] \in Browsers
  BY DEF TypeOK, SignCalls
<1>3. Token(i, c.click) \in Tokens BY <1>2 DEF Token, Tokens
<1>4. row \in Rows /\ row # NoRow BY DEF SignCalls, Rows, NoRow
<1>5. users \in [Clicks -> Rows \cup {NoRow}] BY DEF TypeOK
<1>6. \A j \in Clicks : users[j] # NoRow => users'[j] = users[j]
  <2>1. users[c.click] = NoRow BY DEF Fresh
  <2> QED BY <2>1, <1>5
<1>7. NoRow \notin Rows BY DEF Rows, NoRow
<1>8. \A j \in Clicks : users[j] \in Rows => users'[j] = users[j] BY <1>6, <1>7
<1>9. r \in [call : Calls, ok : BOOLEAN, token : Tokens \cup {NoToken}]
  BY <1>2, <1>3 DEF Reply
<1>10. TypeOK'
  <2>1. users' \in [Clicks -> Rows \cup {NoRow}] BY <1>4, <1>5
  <2>2. live' \in Seq(Tokens) BY <1>3 DEF TypeOK
  <2> QED BY <2>1, <2>2, <1>1, <1>9 DEF TypeOK
<1>11. OneAccountPerEmail'
  <2>1. CASE users' = users BY <2>1 DEF OneAccountPerEmail
  <2>2. CASE users' = [users EXCEPT ![i] = row] /\ ~Taken(NormEmail[c.email])
    <3> SUFFICES ASSUME NEW j \in Clicks, NEW k \in Clicks, j # k,
                        users'[j].email = users'[k].email
                 PROVE  users'[j] = NoRow
      BY DEF OneAccountPerEmail
    <3>1. \A l \in Clicks : users[l].email # row.email BY <2>2 DEF Taken
    <3>2. j # i /\ k # i BY <3>1, <2>2, <1>5
    <3> QED BY <3>2, <2>2, <1>5 DEF OneAccountPerEmail
  <2> QED BY <2>1, <2>2
<1>12. Fresh'
  <2>1. c.click \in 1..clicks BY DEF Fresh
  <2>2. \A d \in asked' : d.click # c.click BY <1>1 DEF Fresh
  <2>3. \A j \in Clicks : j # c.click => users'[j] = users[j] BY <1>5
  <2>4. \A d \in asked' : d.click \in 1..clicks /\ d.click \in Clicks /\ users[d.click] = NoRow
    BY <1>1 DEF Fresh, TypeOK, Clicks
  <2>5. \A j \in Clicks : j > clicks => users'[j] = NoRow
    BY <2>1, <2>3 DEF Fresh, TypeOK
  <2>6. \A d, f \in asked' : d.click = f.click => d = f BY <1>1 DEF Fresh
  <2> QED BY <2>2, <2>3, <2>4, <2>5, <2>6, <1>1 DEF Fresh
<1>13. \A b \in Browsers : \A j \in Clicks : users[j] \in typed[b] => users'[j] = users[j]
  BY <1>8 DEF TypeOK
<1>14. Earned'
  <2>1. ASSUME NEW a \in answered', a.ok, a.call \in SignCalls
        PROVE  a.token \in Tokens /\ users'[a.token.user] \in typed[Browser[a.call.tab]]
    <3>1. CASE a = r
      <4>1. row \in typed[Browser[c.tab]] BY DEF Earned
      <4>2. a.token = Token(i, c.click) /\ a.call = c BY <3>1 DEF Reply
      <4>3. a.token.user = i BY <4>2 DEF Token
      <4> QED BY <4>1, <4>2, <4>3, <1>3
    <3>2. CASE a # r
      <4>1. a.token \in Tokens /\ users[a.token.user] \in typed[Browser[a.call.tab]]
        BY <3>2, <2>1, <1>1 DEF Earned
      <4>2. a.token.user \in Clicks /\ Browser[a.call.tab] \in Browsers
        BY <4>1, <2>1 DEF Tokens, SignCalls
      <4> QED BY <4>1, <4>2, <1>13
    <3> QED BY <3>1, <3>2
  <2>2. TokensAreEarned'
    <3> SUFFICES ASSUME NEW b \in Browsers, storage[b].token # NoToken
                 PROVE  users'[storage[b].token.user] \in typed[b]
      BY <1>1 DEF TokensAreEarned
    <3>1. storage[b].token.user \in Clicks BY StoredExists
    <3> QED BY <3>1, <1>13 DEF Earned, TokensAreEarned
  <2> QED BY <2>1, <2>2, <1>1 DEF Earned
<1>15. \A d \in Browsers : EmailOf(storage[d].token)' = EmailOf(storage[d].token)
  BY <1>1, <1>8, StoredExists DEF EmailOf
<1>16. Halfway'
  BY <1>1, <1>15 DEF Halfway, Disturbed, Storage
<1>17. StorageAgrees'
  BY <1>1, <1>15 DEF StorageAgrees
<1>18. Shown'
  <2>1. \A d \in asked' : d \in CreateCalls /\ d.token # NoToken =>
          users'[d.token.user] = users[d.token.user]
    <3> SUFFICES ASSUME NEW d \in asked', d \in CreateCalls, d.token # NoToken
                 PROVE  users'[d.token.user] = users[d.token.user]
      OBVIOUS
    <3>1. users[d.token.user] \in Rows BY <1>1 DEF Shown
    <3>2. d.token.user \in Clicks BY DEF CreateCalls, Tokens
    <3> QED BY <3>1, <3>2, <1>8
  <2>2. \A d \in documents : users'[d.by] = users[d.by]
    BY <1>8 DEF Shown, TypeOK, Documents
  <2> QED BY <2>1, <2>2, <1>1, <1>15 DEF Shown, Storage, Reply
<1>19. CreatedAsShown'
  <2>1. \A d \in documents : users'[d.by] = users[d.by]
    BY <1>8 DEF Shown, TypeOK, Documents
  <2> QED BY <2>1, <1>1 DEF CreatedAsShown
<1>20. QED BY <1>10, <1>11, <1>12, <1>14, <1>16, <1>17, <1>18, <1>19

LEMMA RegisterKeeps == ASSUME AccountsInv, NEW c \in asked, Register(c) PROVE AccountsInv'
<1>1. c \in Calls /\ c \in SignCalls
  BY Kinds DEF AccountsInv, TypeOK, Register
<1>2. c.click \in Clicks BY <1>1 DEF SignCalls
<1>3. CASE ~Taken(NormEmail[c.email])
  <2>1. /\ users' = [users EXCEPT ![c.click] = [email |-> NormEmail[c.email], password |-> c.password]]
        /\ live' = Append(live, Token(c.click, c.click))
        /\ Answer(c, TRUE, Token(c.click, c.click))
        /\ UNCHANGED <<documents, tabVars, userVars>>
    BY <1>3 DEF Register
  <2>2. users'[c.click] = [email |-> NormEmail[c.email], password |-> c.password]
    BY <2>1, <1>2 DEF AccountsInv, TypeOK
  <2> QED BY <2>1, <2>2, <1>1, <1>2, <1>3, AcceptanceKeeps
<1>4. CASE Taken(NormEmail[c.email])
  BY <1>1, <1>4, PlainRefusalKeeps DEF Register, tabVars, userVars, AccountsInv, TypeOK
<1>5. QED BY <1>3, <1>4

LEMMA LoginKeeps == ASSUME AccountsInv, NEW c \in asked, Login(c) PROVE AccountsInv'
<1>1. c \in Calls /\ c \in SignCalls
  BY Kinds DEF AccountsInv, TypeOK, Login
<1>2. CASE \E i \in Clicks :
             /\ users[i] = [email |-> NormEmail[c.email], password |-> c.password]
             /\ live' = Append(live, Token(i, c.click))
             /\ Answer(c, TRUE, Token(i, c.click))
  BY <1>1, <1>2, AcceptanceKeeps DEF Login
<1>3. CASE Answer(c, FALSE, NoToken) /\ UNCHANGED live
  BY <1>1, <1>3, PlainRefusalKeeps DEF Login, tabVars, userVars, AccountsInv, TypeOK
<1>4. QED BY <1>2, <1>3 DEF Login

LEMMA CreateKeeps == ASSUME AccountsInv, NEW c \in asked, Create(c) PROVE AccountsInv'
<1> DEFINE d == [by |-> c.token.user, shown |-> c.shown, apart |-> c.apart, click |-> c.click]
<1>1. c \in CreateCalls /\ c \notin SignCalls
  BY Kinds DEF AccountsInv, TypeOK, Create, SignCalls
<1>2. \A f \in documents : WellMade(f) BY DEF AccountsInv, Shown, CreatedAsShown, WellMade
<1>3. documents \subseteq Documents BY DEF AccountsInv, TypeOK
<1>4. ASSUME Verify(c.token) PROVE d \in Documents /\ WellMade(d)
  <2>1. c.token \in Tokens BY <1>4 DEF Verify, AccountsInv, TypeOK
  <2>2. c.token # NoToken /\ c.token.user \in Clicks BY <2>1 DEF Tokens, NoToken, Clicks
  <2>3. users[c.token.user] \in Rows /\ (~c.apart => users[c.token.user].email = c.shown)
    BY <1>1, <2>2 DEF AccountsInv, Shown
  <2>4. d \in Documents BY <1>1, <2>2 DEF Documents, CreateCalls
  <2> QED BY <2>3, <2>4 DEF WellMade
<1>5. documents' \subseteq Documents /\ \A f \in documents' : WellMade(f)
  <2> HIDE DEF d
  <2>1. documents' = IF Verify(c.token) THEN documents \cup {d} ELSE documents
    BY DEF Create, d
  <2> QED BY <2>1, <1>2, <1>3, <1>4
<1>6. Verify(c.token) \in BOOLEAN BY DEF Verify
<1>7. /\ Answer(c, Verify(c.token), NoToken) /\ mishaps' \in 0..MaxMishaps
      /\ UNCHANGED <<users, live, storage, opened, userEmail, creating, writing, apart, crossed,
                     typed, clicks>>
  BY DEF Create, tabVars, userVars, AccountsInv, TypeOK
<1>8. QED BY <1>1, <1>5, <1>6, <1>7, RefusalKeeps

LEMMA FailKeeps == ASSUME AccountsInv, NEW c \in asked, Fail(c) PROVE AccountsInv'
<1>1. mishaps' \in 0..MaxMishaps
  BY AccountsAssumption DEF Fail, Mishap, AccountsInv, TypeOK
<1>2. QED BY <1>1, PlainRefusalKeeps DEF Fail, serverVars, tabVars

LEMMA LoseReplyKeeps ==
  ASSUME AccountsInv, NEW a \in answered, LoseReply(a) PROVE AccountsInv'
<1> USE AccountsAssumption
       DEF AccountsInv, LoseReply, serverVars, tabVars
<1> DEFINE r == Reply(a.call, FALSE, NoToken)
<1>0. /\ answered' = (answered \ {a}) \cup {r} /\ ~r.ok /\ r.call = a.call
      /\ r \in [call : Calls, ok : BOOLEAN, token : Tokens \cup {NoToken}]
  BY DEF Reply, TypeOK
<1> HIDE DEF r
<1>1. TypeOK'
  <2>1. mishaps' \in 0..MaxMishaps BY DEF TypeOK, Mishap
  <2> QED BY <1>0, <2>1 DEF TypeOK
<1>2. OneAccountPerEmail' BY DEF OneAccountPerEmail
<1>3. Fresh' BY DEF Fresh
<1>4. Earned' BY <1>0 DEF Earned, TokensAreEarned
<1>5. Halfway' BY DEF Halfway, Disturbed, Storage, EmailOf
<1>6. StorageAgrees' BY DEF StorageAgrees, EmailOf
<1>7. Shown' BY <1>0 DEF Shown, Storage, EmailOf
<1>8. CreatedAsShown' BY DEF CreatedAsShown
<1>9. QED BY <1>1, <1>2, <1>3, <1>4, <1>5, <1>6, <1>7, <1>8

LEMMA ExpireKeeps == ASSUME AccountsInv, Expire PROVE AccountsInv'
<1> USE AccountsAssumption DEF AccountsInv, Expire, Mishap, tabVars
<1>1. TypeOK' BY DEF TypeOK
<1>2. OneAccountPerEmail' BY DEF OneAccountPerEmail
<1>3. Fresh' BY DEF Fresh
<1>4. Earned' BY DEF Earned, TokensAreEarned
<1>5. Halfway' BY DEF Halfway, Disturbed, Storage, EmailOf
<1>6. StorageAgrees' BY DEF StorageAgrees, EmailOf
<1>7. Shown' BY DEF Shown, Storage, EmailOf
<1>8. CreatedAsShown' BY DEF CreatedAsShown
<1>9. QED BY <1>1, <1>2, <1>3, <1>4, <1>5, <1>6, <1>7, <1>8

-----------------------------------------------------------------------------
(* The response.                                                           *)

\* Signing in stores a token that was earned in this browser, and its email.
LEMMA SignedInKeeps ==
  ASSUME AccountsInv, NEW t \in Tabs, NEW a \in answered, a.call.tab = t, Idle(t),
         SignedIn(t, a), answered' = answered \ {a}, UNCHANGED <<serverVars, asked, userVars>>
  PROVE  AccountsInv'
<1>1. a.call \in SignCalls /\ a.ok
  BY Kinds DEF SignedIn, AccountsInv, TypeOK
<1>2. a.token \in Tokens /\ users[a.token.user] \in typed[Browser[t]]
  BY <1>1 DEF AccountsInv, Earned
<1>3. a.token # NoToken BY <1>2 DEF Tokens, NoToken, Clicks
<1>4. EmailOf(a.token) = users[a.token.user].email BY <1>3 DEF EmailOf
<1>5. QED BY <1>2, <1>4, WriteTokenKeeps DEF SignedIn

LEMMA HearKeeps == ASSUME AccountsInv, NEW t \in Tabs, Hear(t) PROVE AccountsInv'
<1>1. PICK a \in answered :
        /\ a.call.tab = t /\ Idle(t)
        /\ SignedIn(t, a) \/ NotSignedIn(t, a) \/ Created(t, a)
        /\ answered' = answered \ {a}
        /\ UNCHANGED <<serverVars, asked, userVars>>
  BY DEF Hear
<1>2. CASE SignedIn(t, a) BY <1>1, <1>2, SignedInKeeps
<1>3. CASE NotSignedIn(t, a) \/ Created(t, a)
  <2>1. /\ UNCHANGED <<users, documents, live, storage, opened, userEmail, writing, apart, crossed,
                       asked, typed, clicks, mishaps>>
        /\ creating' \in [Tabs -> BOOLEAN] /\ answered' \subseteq answered
    BY <1>1, <1>3
       DEF NotSignedIn, Created, serverVars, tabVars, userVars, AccountsInv, TypeOK
  <2> USE <2>1 DEF AccountsInv
  <2>2. TypeOK' BY DEF TypeOK
  <2>3. OneAccountPerEmail' BY DEF OneAccountPerEmail
  <2>4. Fresh' BY DEF Fresh
  <2>5. Earned' BY DEF Earned, TokensAreEarned
  <2>6. Halfway' BY DEF Halfway, Disturbed, Storage, EmailOf
  <2>7. StorageAgrees' BY DEF StorageAgrees, EmailOf
  <2>8. Shown' BY DEF Shown, Storage, EmailOf
  <2>9. CreatedAsShown' BY DEF CreatedAsShown
  <2> QED BY <2>2, <2>3, <2>4, <2>5, <2>6, <2>7, <2>8, <2>9
<1>4. QED BY <1>1, <1>2, <1>3

LEMMA StutterKeeps == ASSUME AccountsInv, UNCHANGED vars PROVE AccountsInv'
<1> USE DEF AccountsInv, vars, serverVars, tabVars, userVars
<1>1. TypeOK' BY DEF TypeOK
<1>2. OneAccountPerEmail' BY DEF OneAccountPerEmail
<1>3. Fresh' BY DEF Fresh
<1>4. Earned' BY DEF Earned, TokensAreEarned
<1>5. Halfway' BY DEF Halfway, Disturbed, Storage, EmailOf
<1>6. StorageAgrees' BY DEF StorageAgrees, EmailOf
<1>7. Shown' BY DEF Shown, Storage, EmailOf
<1>8. CreatedAsShown' BY DEF CreatedAsShown
<1>9. QED BY <1>1, <1>2, <1>3, <1>4, <1>5, <1>6, <1>7, <1>8

LEMMA NextKeeps == AccountsInv /\ [Next]_vars => AccountsInv'
<1> SUFFICES ASSUME AccountsInv, [Next]_vars PROVE AccountsInv' OBVIOUS
<1>1. ASSUME NEW t \in Tabs, Open(t) PROVE AccountsInv' BY <1>1, OpenKeeps
<1>2. ASSUME NEW t \in Tabs, Logout(t) PROVE AccountsInv' BY <1>2, LogoutKeeps
<1>3. ASSUME NEW t \in Tabs, CreateDoc(t) PROVE AccountsInv' BY <1>3, CreateDocKeeps
<1>4. ASSUME NEW t \in Tabs, Serve(t) PROVE AccountsInv'
  BY <1>4, RegisterKeeps, LoginKeeps, CreateKeeps, FailKeeps DEF Serve
<1>5. ASSUME NEW t \in Tabs, Hear(t) PROVE AccountsInv' BY <1>5, HearKeeps
<1>6. ASSUME NEW t \in Tabs, NEW kind \in {"register", "login"}, NEW e \in Emails,
             NEW p \in Passwords, Sign(t, kind, e, p)
      PROVE  AccountsInv'
  BY <1>6, SignKeeps
<1>7. ASSUME NEW a \in answered, LoseReply(a) PROVE AccountsInv' BY <1>7, LoseReplyKeeps
<1>8. CASE Expire BY <1>8, ExpireKeeps
<1>9. ASSUME NEW t \in Tabs, WriteEmail(t) PROVE AccountsInv' BY <1>9, WriteEmailKeeps
<1>10. CASE UNCHANGED vars BY <1>10, StutterKeeps
<1>11. QED BY <1>1, <1>2, <1>3, <1>4, <1>5, <1>6, <1>7, <1>8, <1>9, <1>10 DEF Next

LEMMA AccountsHold == Spec => []AccountsInv
BY InitKeeps, NextKeeps, PTL DEF Spec

\* The types: documents, responses and stored tokens name accounts (Auth's "anon" never
\* comes up).
THEOREM TypeCorrect == Spec => []TypeOK
<1>1. AccountsInv => TypeOK BY DEF AccountsInv
<1>2. QED BY <1>1, AccountsHold, PTL

\* Registrations at once, whatever the spelling: one account (users.go:34).
THEOREM EmailsAreUnique == Spec => []OneAccountPerEmail
<1>1. AccountsInv => OneAccountPerEmail BY DEF AccountsInv
<1>2. QED BY <1>1, AccountsHold, PTL

\* A browser has a token only of an account whose password was typed in it
\* (users.go:34-43, 69-79).
THEOREM TokensEarned == Spec => []TokensAreEarned
<1>1. AccountsInv => TokensAreEarned BY DEF AccountsInv, Earned
<1>2. QED BY <1>1, AccountsHold, PTL

\* Token and email in localStorage are of one account, unless a tab is between its two
\* writes or two tabs were at once (app.component.ts:81-117).
THEOREM StorageKept == Spec => []StorageAgrees
<1>1. AccountsInv => StorageAgrees BY DEF AccountsInv
<1>2. QED BY <1>1, AccountsHold, PTL

\* A document belongs to whom the tab showed when it was asked for
\* (app.component.ts:137-153, app.config.ts:6-12).
THEOREM AuthorsAreRight == Spec => []CreatedAsShown
<1>1. AccountsInv => CreatedAsShown BY DEF AccountsInv
<1>2. QED BY <1>1, AccountsHold, PTL
=============================================================================
