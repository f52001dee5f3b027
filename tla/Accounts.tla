----------------------------- MODULE Accounts -----------------------------
(***************************************************************************)
(* Registration, sign-in and tokens, from the buttons of app.component.ts  *)
(* through auth.service.ts and the interceptor of app.config.ts to the     *)
(* users table and back.  The tabs of one browser share localStorage, but  *)
(* each keeps its own idea of who is signed in (AppComponent.userEmail).   *)
(* The tabs may run in processes of their own, so what one of them does to *)
(* localStorage in two steps, others may come between.                     *)
(*                                                                         *)
(* Passwords long enough and emails with an "@" are all there are here;    *)
(* what bcrypt and JWT compute is left out: a password matches or does     *)
(* not, and a token names an account and is accepted until it expires (it  *)
(* is never the empty string that setToken skips).                         *)
(* Requests to the server are handled in any order; any may fail, before   *)
(* or after the server has done what it was asked for.                     *)
(***************************************************************************)
EXTENDS Naturals, Sequences

CONSTANTS
  Tabs,       \* browser tabs
  Browsers,   \* browsers: the tabs of one share localStorage
  Browser,    \* Browser[t]: the one tab t is in
  Emails,     \* emails as users type them
  NormEmail,  \* NormEmail[e]: trimmed and in lower case
  Passwords,  \* passwords
  None,       \* no email, no password
  Nothing,    \* nothing to be written
  Types,      \* bound: Types[b] is what users may type in b
  MaxClicks,  \* bound: how often users click a button that sends a request
  MaxMishaps  \* bound: requests and responses that fail, and tokens that expire

ASSUME AccountsAssumption ==
  /\ Browser \in [Tabs -> Browsers]
  /\ NormEmail \in [Emails -> Emails]
  /\ Types \in [Browsers -> SUBSET [email : Emails, password : Passwords]]
  /\ None \notin Emails \cup Passwords
  /\ Nothing \notin Emails \cup {None}
  /\ MaxClicks \in Nat /\ MaxMishaps \in Nat

\* Clicks are numbered, and what comes of one bears its number: requests, accounts,
\* tokens, documents.
Clicks == 1..MaxClicks
Tokens == [user : Clicks, click : Clicks]
NoToken == [user |-> 0, click |-> 0]
Rows == [email : Emails, password : Passwords]
NoRow == [email |-> None, password |-> None]
SignCalls == [kind : {"register", "login"}, tab : Tabs, click : Clicks,
              email : Emails, password : Passwords]
\* With the token, and what the tab showed when the button was clicked: the email, and whether
\* another tab had changed the account meanwhile.
CreateCalls == [kind : {"create"}, tab : Tabs, click : Clicks,
                token : Tokens \cup {NoToken},
                shown : Emails \cup {None}, apart : BOOLEAN]
Calls == SignCalls \cup CreateCalls
Documents == [by : Clicks, shown : Emails \cup {None}, apart : BOOLEAN, click : Clicks]

VARIABLES
  users,      \* users[i]: the row of the users table that click i made, or NoRow
  documents,  \* the rows of the documents table
  live,       \* the tokens issued that have not expired, the oldest first
  storage,    \* storage[b]: jwt_token and user_email in b's localStorage
  opened,     \* opened[t]: the application runs in t
  userEmail,  \* userEmail[t]: AppComponent.userEmail, or None
  creating,   \* creating[t]: a document is being created
  writing,    \* writing[t]: what t has yet to write to user_email, having written jwt_token
  apart,      \* apart[t]: another tab has signed in or out since t did or was opened,
              \*   or was at it when t was opened
  crossed,    \* crossed[b]: two tabs of b were at it at once, and none by itself since then
  asked,      \* requests the server has not handled
  answered,   \* responses on their way
  typed,      \* typed[b]: emails and passwords that were typed in b, normalised
  clicks,     \* how many clicks there have been
  mishaps     \* how many mishaps

serverVars == <<users, documents, live>>
tabVars == <<storage, opened, userEmail, creating, writing, apart, crossed>>
userVars == <<typed, clicks, mishaps>>
vars == <<serverVars, tabVars, asked, answered, userVars>>

Init ==
  /\ users = [i \in Clicks |-> NoRow]
  /\ documents = {}
  /\ live = <<>>
  /\ storage = [b \in Browsers |-> [token |-> NoToken, email |-> None]]
  /\ opened = [t \in Tabs |-> FALSE]
  /\ userEmail = [t \in Tabs |-> None]
  /\ creating = [t \in Tabs |-> FALSE]
  /\ writing = [t \in Tabs |-> Nothing]
  /\ apart = [t \in Tabs |-> FALSE]
  /\ crossed = [b \in Browsers |-> FALSE]
  /\ asked = {}
  /\ answered = {}
  /\ typed = [b \in Browsers |-> {}]
  /\ clicks = 0
  /\ mishaps = 0

-----------------------------------------------------------------------------
(* In the tab.                                                             *)

Storage(t) == storage[Browser[t]]

\* The interceptor adds the stored token to the request.
CreateCall(t, n, token) ==
  [kind |-> "create", tab |-> t, click |-> n, token |-> token,
   shown |-> userEmail[t], apart |-> apart[t]]

\* A tab does one thing at a time.
Idle(t) == opened[t] /\ writing[t] = Nothing

\* Other tabs of t's browser are between their two writes.
Disturbed(t) == \E u \in Tabs \ {t} : Browser[u] = Browser[t] /\ writing[u] # Nothing

\* The other tabs of t's browser are now apart, and t is not.
Apart(t) == [u \in Tabs |-> IF u = t THEN FALSE
                            ELSE apart[u] \/ (Browser[u] = Browser[t] /\ opened[u])]

\* jwt_token is written or removed; user_email is to follow, and so is what t shows.
WriteToken(t, token, email) ==
  /\ storage' = [storage EXCEPT ![Browser[t]].token = token]
  /\ writing' = [writing EXCEPT ![t] = email]
  /\ apart' = Apart(t)
  /\ crossed' = [crossed EXCEPT ![Browser[t]] = Disturbed(t)]
  /\ UNCHANGED <<opened, userEmail, creating>>

Click == clicks < MaxClicks /\ clicks' = clicks + 1

\* The application starts: it shows who is signed in.
Open(t) ==
  /\ ~opened[t]
  /\ opened' = [opened EXCEPT ![t] = TRUE]
  /\ userEmail' = [userEmail EXCEPT ![t] = Storage(t).email]
  /\ apart' = [apart EXCEPT ![t] = Disturbed(t) \/ crossed[Browser[t]]]
  /\ UNCHANGED <<serverVars, storage, creating, writing, crossed, asked, answered, userVars>>

\* doRegister, doLogin.  The form is shown to those who are not signed in; the screen
\* may be older than what another tab did.
Sign(t, kind, e, p) ==
  /\ [email |-> e, password |-> p] \in Types[Browser[t]]
  /\ Idle(t)
  /\ userEmail[t] = None \/ apart[t]
  /\ Click
  /\ asked' = asked \cup {[kind |-> kind, tab |-> t, click |-> clicks + 1,
                           email |-> e, password |-> p]}
  /\ typed' = [typed EXCEPT ![Browser[t]] = @ \cup {[email |-> NormEmail[e], password |-> p]}]
  /\ UNCHANGED <<serverVars, tabVars, answered, mishaps>>

\* Fault: the email stays in localStorage.
LogoutKeepsEmail(t) ==
  /\ Idle(t) /\ userEmail[t] # None
  /\ storage' = [storage EXCEPT ![Browser[t]].token = NoToken]
  /\ userEmail' = [userEmail EXCEPT ![t] = None]
  /\ apart' = Apart(t)
  /\ UNCHANGED <<serverVars, opened, creating, writing, crossed, asked, answered, userVars>>

\* doLogout, up to the first of its two removals.
Logout(t) ==
  /\ Idle(t) /\ userEmail[t] # None
  /\ WriteToken(t, NoToken, None)
  /\ UNCHANGED <<serverVars, asked, answered, userVars>>

\* Fault: what is shown is read from localStorage before it is stored there.
WriteEmailLate(t) ==
  /\ writing[t] # Nothing
  /\ storage' = [storage EXCEPT ![Browser[t]].email = writing[t]]
  /\ userEmail' = [userEmail EXCEPT ![t] = Storage(t).email]
  /\ writing' = [writing EXCEPT ![t] = Nothing]
  /\ UNCHANGED <<serverVars, opened, creating, apart, crossed, asked, answered, userVars>>

\* The rest of doRegister, doLogin and doLogout: user_email is written or removed.
WriteEmail(t) ==
  /\ writing[t] # Nothing
  /\ storage' = [storage EXCEPT ![Browser[t]].email = writing[t]]
  /\ userEmail' = [userEmail EXCEPT ![t] = writing[t]]
  /\ writing' = [writing EXCEPT ![t] = Nothing]
  /\ UNCHANGED <<serverVars, opened, creating, apart, crossed, asked, answered, userVars>>

\* The Create button, which is disabled while a document is being created.
CreateDoc(t) ==
  /\ Idle(t) /\ ~creating[t]
  /\ Click
  /\ creating' = [creating EXCEPT ![t] = TRUE]
  /\ asked' = asked \cup {CreateCall(t, clicks + 1, Storage(t).token)}
  /\ UNCHANGED <<serverVars, storage, opened, userEmail, writing, apart, crossed, answered,
                 typed, mishaps>>

-----------------------------------------------------------------------------
(* On the server.                                                          *)

Reply(c, ok, token) == [call |-> c, ok |-> ok, token |-> token]
Answer(c, ok, token) ==
  /\ asked' = asked \ {c}
  /\ answered' = answered \cup {Reply(c, ok, token)}

Token(user, n) == [user |-> user, click |-> n]

\* JWT.Verify.
Verify(token) == \E i \in DOMAIN live : live[i] = token

Taken(e) == \E i \in Clicks : users[i].email = e

\* Fault: someone who registers again is given the account there is.
RegisterOrFind(c) ==
  /\ c.kind = "register"
  /\ LET e == NormEmail[c.email]
     IN  \E i \in Clicks :
           /\ IF Taken(e) THEN users[i].email = e /\ UNCHANGED users
              ELSE i = c.click /\ users' = [users EXCEPT ![i] = [email |-> e, password |-> c.password]]
           /\ live' = Append(live, Token(i, c.click))
           /\ Answer(c, TRUE, Token(i, c.click))
  /\ UNCHANGED <<documents, tabVars, userVars>>

\* Fault: the table tells emails apart that are the same but for their case.
RegisterAsTyped(c) ==
  /\ c.kind = "register"
  /\ \/ /\ ~Taken(c.email)
        /\ users' = [users EXCEPT ![c.click] = [email |-> NormEmail[c.email], password |-> c.password]]
        /\ live' = Append(live, Token(c.click, c.click))
        /\ Answer(c, TRUE, Token(c.click, c.click))
     \/ /\ Taken(c.email)
        /\ Answer(c, FALSE, NoToken)
        /\ UNCHANGED <<users, live>>
  /\ UNCHANGED <<documents, tabVars, userVars>>

\* CreateUser and a token for the new account, unless the UNIQUE constraint refuses
\* the row.
Register(c) ==
  /\ c.kind = "register"
  /\ \/ /\ ~Taken(NormEmail[c.email])
        /\ users' = [users EXCEPT ![c.click] = [email |-> NormEmail[c.email], password |-> c.password]]
        /\ live' = Append(live, Token(c.click, c.click))
        /\ Answer(c, TRUE, Token(c.click, c.click))
     \/ /\ Taken(NormEmail[c.email])
        /\ Answer(c, FALSE, NoToken)
        /\ UNCHANGED <<users, live>>
  /\ UNCHANGED <<documents, tabVars, userVars>>

\* VerifyUser, and a token for the account.
Login(c) ==
  /\ c.kind = "login"
  /\ LET row == [email |-> NormEmail[c.email], password |-> c.password]
     IN  \/ \E i \in Clicks :
              /\ users[i] = row
              /\ live' = Append(live, Token(i, c.click))
              /\ Answer(c, TRUE, Token(i, c.click))
         \/ /\ \A i \in Clicks : users[i] # row
            /\ Answer(c, FALSE, NoToken)
            /\ UNCHANGED live
  /\ UNCHANGED <<users, documents, tabVars, userVars>>

\* Fault: without Auth, UserID falls back to "anon".
CreateByAnyone(c) ==
  /\ c.kind = "create"
  /\ Answer(c, TRUE, NoToken)
  /\ documents' = documents \cup {[by |-> c.token.user, shown |-> c.shown,
                                   apart |-> c.apart, click |-> c.click]}
  /\ UNCHANGED <<users, live, tabVars, userVars>>

\* DocsAPI.Create, behind Auth: the row names the account of the token.
Create(c) ==
  /\ c.kind = "create"
  /\ Answer(c, Verify(c.token), NoToken)
  /\ documents' = IF Verify(c.token)
                    THEN documents \cup {[by |-> c.token.user, shown |-> c.shown,
                                          apart |-> c.apart, click |-> c.click]}
                    ELSE documents
  /\ UNCHANGED <<users, live, tabVars, userVars>>

Mishap == mishaps < MaxMishaps /\ mishaps' = mishaps + 1

\* Too many requests, no database, no network: the request is refused.
Fail(c) ==
  /\ Mishap
  /\ Answer(c, FALSE, NoToken)
  /\ UNCHANGED <<serverVars, tabVars, typed, clicks>>

Serve(t) ==
  \E c \in asked :
    c.tab = t /\ (Register(c) \/ Login(c) \/ Create(c) \/ Fail(c))

\* The response to what the server has done is lost.
LoseReply(a) ==
  /\ a.ok
  /\ Mishap
  /\ answered' = (answered \ {a}) \cup {Reply(a.call, FALSE, NoToken)}
  /\ UNCHANGED <<serverVars, tabVars, asked, typed, clicks>>

\* 24 hours after it was issued a token expires.
Expire ==
  /\ live # <<>>
  /\ Mishap
  /\ live' = Tail(live)
  /\ UNCHANGED <<users, documents, tabVars, asked, answered, typed, clicks>>

-----------------------------------------------------------------------------
(* The response.                                                           *)

\* Registered or signed in: the token is stored.  (The list of documents that
\* is asked for in the end is in DocSession.)
SignedIn(t, a) ==
  /\ a.call.kind \in {"register", "login"} /\ a.ok
  /\ WriteToken(t, a.token, users[a.token.user].email)

\* "Register failed", "Login failed".
NotSignedIn(t, a) ==
  /\ a.call.kind \in {"register", "login"} /\ ~a.ok
  /\ UNCHANGED tabVars

\* The document is created, or an error.
Created(t, a) ==
  /\ a.call.kind = "create"
  /\ creating' = [creating EXCEPT ![t] = FALSE]
  /\ UNCHANGED <<storage, opened, userEmail, writing, apart, crossed>>

Hear(t) ==
  \E a \in answered :
    /\ a.call.tab = t /\ Idle(t)
    /\ SignedIn(t, a) \/ NotSignedIn(t, a) \/ Created(t, a)
    /\ answered' = answered \ {a}
    /\ UNCHANGED <<serverVars, asked, userVars>>

Next ==
  \/ \E t \in Tabs :
       \/ Open(t) \/ Logout(t) \/ WriteEmail(t) \/ CreateDoc(t) \/ Serve(t) \/ Hear(t)
       \/ \E kind \in {"register", "login"}, e \in Emails, p \in Passwords : Sign(t, kind, e, p)
  \/ \E a \in answered : LoseReply(a)
  \/ Expire

Spec == Init /\ [][Next]_vars

-----------------------------------------------------------------------------

\* Every variable keeps its type.
TypeOK ==
  /\ users \in [Clicks -> Rows \cup {NoRow}]
  /\ documents \subseteq Documents
  /\ live \in Seq(Tokens)
  /\ storage \in [Browsers -> [token : Tokens \cup {NoToken}, email : Emails \cup {None}]]
  /\ opened \in [Tabs -> BOOLEAN]
  /\ userEmail \in [Tabs -> Emails \cup {None}]
  /\ creating \in [Tabs -> BOOLEAN]
  /\ writing \in [Tabs -> Emails \cup {None, Nothing}]
  /\ apart \in [Tabs -> BOOLEAN]
  /\ crossed \in [Browsers -> BOOLEAN]
  /\ asked \subseteq Calls
  /\ answered \subseteq [call : Calls, ok : BOOLEAN, token : Tokens \cup {NoToken}]
  /\ typed \in [Browsers -> SUBSET Rows]
  /\ clicks \in 0..MaxClicks
  /\ mishaps \in 0..MaxMishaps

\* However many register at once, and however they spell it, an email has one account.
\* (users.go:20, 34-38, 0003_users.sql:6)
OneAccountPerEmail ==
  \A i, j \in Clicks : i # j /\ users[i].email = users[j].email => users[i] = NoRow

\* A browser that holds a token has been told the password of the account: nobody gets
\* into an account by registering it again, nor by a response to someone else.
\* (users.go:34-43, 69-79, app.component.ts:84-89, 98-104)
TokensAreEarned ==
  \A b \in Browsers :
    storage[b].token # NoToken => users[storage[b].token.user] \in typed[b]

\* Whose token it is.
EmailOf(token) == IF token = NoToken THEN None ELSE users[token.user].email

\* Whichever tabs sign in and out, late responses included, what localStorage has is of
\* one account or of none, but while a tab is between its two writes, or after two tabs
\* were at it at once; then it is so again when a tab has signed in or out undisturbed.
\* (app.component.ts:84-117, auth.service.ts:12-14)
StorageAgrees ==
  \A b \in Browsers :
    ~crossed[b] /\ (\A t \in Tabs : Browser[t] = b => writing[t] = Nothing) =>
      storage[b].email = EmailOf(storage[b].token)

\* A document belongs to the account the tab showed when it was asked for, even if the
\* user signed out or in again before the server handled it; only what another tab of
\* the browser did may come between.  (app.config.ts:6-12, docs_handlers.go:34)
CreatedAsShown ==
  \A d \in documents : ~d.apart => users[d.by].email = d.shown
=============================================================================
