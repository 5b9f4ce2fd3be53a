-------------------------- MODULE BrowserSessions ---------------------------
(***************************************************************************)
(* One browser with several tabs against the login endpoints of the        *)
(* gateway: OIDC login with state and PKCE cookies, token login, logout,   *)
(* the session store behind them, and who a request is taken for.          *)
(*                                                                         *)
(* Logins are numbered.  A login's number also stands for what is random   *)
(* or unique about it: its state, its verifier, the code issued for its    *)
(* challenge, its session ID or its token.  0 is an absent cookie.         *)
(*                                                                         *)
(* A request carries the cookies the browser had when it was sent; the     *)
(* Set-Cookie headers of its response are applied when it arrives, which   *)
(* may be after those of later requests.  A browser is external, and so is *)
(* the identity provider (IdP).                                            *)
(***************************************************************************)
EXTENDS Naturals, FiniteSets

CONSTANTS
    Users,      \* identities
    NoOne,      \* nobody is authenticated
    Rejected,   \* the credential is refused: 401
    Tabs,
    MaxLogins   \* bound: logins that are started

ASSUME LoginAssumption ==
    MaxLogins \in Nat /\ NoOne \notin Users /\ Rejected \notin Users /\ NoOne # Rejected

Logins == 1 .. MaxLogins
Cookies == {"oidc_state", "oidc_verifier", "session", "lattice_session"}

VARIABLES
    jar,        \* the browser's cookies
    tab,        \* what each tab is doing
    logins,     \* logins started
    who,        \* identity of each login
    codes,      \* authorization codes that were issued and not used
    store,      \* sessions in the back end
    expired,    \* sessions past their ExpiresAt
    staleJWT,   \* logins whose ID token or token is no longer valid
    exchanged,  \* history: <<code, verifier>> pairs sent to the token endpoint
    latest,     \* history: the login whose response arrived last, 0 after a logout
    clean,      \* history: tabs whose logout was sent after all login responses
    quiet,      \* history: no login response arrived since a logout was sent
    ended       \* history: sessions of successful logouts

vars == <<jar, tab, logins, who, codes, store, expired, staleJWT,
          exchanged, latest, clean, quiet, ended>>
history == <<exchanged, latest, clean, quiet, ended>>
server == <<codes, store, expired, staleJWT>>

NoCookies == [c \in Cookies |-> 0]

(***************************************************************************)
(* The Set-Cookie headers of a response, a function on some of Cookies     *)
(***************************************************************************)
NoneSet == [c \in {} |-> 0]

TemporarySet(i) == [c \in {"oidc_state", "oidc_verifier"} |-> i]

ClearTemporary == TemporarySet(0)

SessionSet(i) ==
    [c \in {"oidc_state", "oidc_verifier", "session"} |-> IF c = "session" THEN i ELSE 0]

TokenSet(i) ==
    [c \in {"session", "lattice_session"} |-> IF c = "session" THEN 0 ELSE i]

ClearSession == [c \in {"session"} |-> 0]

LogoutSet == [c \in {"session", "lattice_session"} |-> 0]

(* stage: what the tab waits for; login: the login it is about; cookies:   *)
(* those of its request; set: the Set-Cookie headers of its response;      *)
(* then: what follows the response.                                        *)
TabState(stage, i, cookies, set, then) ==
    [stage |-> stage, login |-> i, cookies |-> cookies, set |-> set, then |-> then]

Waits(stage, i) == TabState(stage, i, NoCookies, NoneSet, "idle")

Sends(t, stage, i) ==
    tab' = [tab EXCEPT ![t] = TabState(stage, i, jar, NoneSet, "idle")]

Answers(t, set, then) ==
    tab' = [tab EXCEPT ![t] =
              TabState("answer", tab[t].login, tab[t].cookies, set, then)]

Init ==
    /\ jar = NoCookies
    /\ tab = [t \in Tabs |-> Waits("idle", 0)]
    /\ logins = 0
    /\ who = [i \in Logins |-> NoOne]
    /\ codes = {} /\ store = {} /\ expired = {} /\ staleJWT = {}
    /\ exchanged = {} /\ latest = 0 /\ clean = {} /\ quiet = FALSE /\ ended = {}

(***************************************************************************)
(* The session store, in memory or in Redis                                *)
(***************************************************************************)
(* readable: the read does not fail; if it does, there is no session. *)
Get(s, readable) == readable /\ s \in store \ expired

getSession(cookies, readable) ==
    IF Get(cookies["session"], readable) THEN cookies["session"] ELSE 0

Create(s) == store' = store \cup {s}

(* DeleteWithError: Redis may fail before or after the key was removed. *)
Delete(s, ok) ==
    /\ ok \/ s # 0
    /\ \/ store' = store \ {s}
       \/ ~ok /\ store' = store

clearSession(t, ok) == Delete(tab[t].cookies["session"], ok)

(* The TTL has passed; Redis removes the key by itself. *)
SessionExpires(s) ==
    /\ s \in store \ expired
    /\ expired' = expired \cup {s}
    /\ UNCHANGED <<jar, tab, logins, who, codes, store, staleJWT, history>>

cleanup ==
    /\ store \cap expired # {}
    /\ store' = store \ expired
    /\ UNCHANGED <<jar, tab, logins, who, codes, expired, staleJWT, history>>

(* ID tokens do not live as long as sessions. *)
TokenExpires(i) ==
    /\ i \in 1 .. logins \ staleJWT /\ who[i] # NoOne
    /\ staleJWT' = staleJWT \cup {i}
    /\ UNCHANGED <<jar, tab, logins, who, codes, store, expired, history>>

(***************************************************************************)
(* OIDC login                                                              *)
(***************************************************************************)
(* HandleOIDCLogin does not look at cookies: request and answer in one. *)
prepareAuthorizationURL(t) ==
    /\ tab[t].stage = "idle" /\ logins < MaxLogins
    /\ logins' = logins + 1
    /\ tab' = [tab EXCEPT ![t] = TabState("answer", logins + 1, NoCookies,
                                          TemporarySet(logins + 1), "idp")]
    /\ UNCHANGED <<jar, who, server, history>>

(* Someone signs in at the IdP, which redirects to the callback. *)
SignIn(t, u) ==
    LET i == tab[t].login
    IN /\ tab[t].stage = "idp"
       /\ who' = [who EXCEPT ![i] = u]
       /\ codes' = codes \cup {i}
       /\ Sends(t, "callback", i)
       /\ UNCHANGED <<jar, logins, store, expired, staleJWT, history>>

(* The IdP redirects with an error: "Missing code". *)
MissingCode(t) ==
    /\ tab[t].stage = "idp"
    /\ tab' = [tab EXCEPT ![t] = Waits("idle", 0)]
    /\ UNCHANGED <<jar, logins, who, server, history>>

(* The callback's address is opened again. *)
Reload(t) ==
    /\ tab[t].stage = "idle" /\ tab[t].login # 0 /\ who[tab[t].login] # NoOne
    /\ Sends(t, "callback", tab[t].login)
    /\ UNCHANGED <<jar, logins, who, server, history>>

(* Faulty variant: any state cookie will do. *)
StateVerifiedAny(cookies, state) ==
    cookies["oidc_state"] # 0 /\ cookies["oidc_verifier"] # 0

StateVerified(cookies, state) ==
    cookies["oidc_state"] = state /\ cookies["oidc_verifier"] # 0

CallbackRefused(t) ==
    /\ tab[t].stage = "callback"
    /\ ~StateVerified(tab[t].cookies, tab[t].login)
    /\ Answers(t, NoneSet, "idle")
    /\ UNCHANGED <<jar, logins, who, server, history>>

Exchange(t) ==
    /\ tab[t].stage = "callback"
    /\ StateVerified(tab[t].cookies, tab[t].login)
    /\ exchanged' = exchanged \cup {<<tab[t].login, tab[t].cookies["oidc_verifier"]>>}
    /\ UNCHANGED <<jar, logins, who, expired, staleJWT, latest, clean, quiet, ended>>

(* exchangeCode, the provisioning of the user, or Create fails; the code   *)
(* may have been used, and the session may have been stored.               *)
CallbackFails(t) ==
    /\ Exchange(t)
    /\ Answers(t, ClearTemporary, "idle")
    /\ \/ UNCHANGED <<codes, store>>
       \/ tab[t].login \in codes /\ codes' = codes \ {tab[t].login} /\ UNCHANGED store
       \/ tab[t].login \in codes /\ codes' = codes \ {tab[t].login}
                                 /\ Create(tab[t].login)

(* The IdP takes a code once, with the verifier of its challenge. *)
CallbackSucceeds(t) ==
    LET i == tab[t].login
    IN /\ Exchange(t)
       /\ i \in codes /\ tab[t].cookies["oidc_verifier"] = i
       /\ codes' = codes \ {i}
       /\ Create(i)
       /\ Answers(t, SessionSet(i), "idle")

(***************************************************************************)
(* Token login and logout                                                  *)
(***************************************************************************)
SendTokenLogin(t, u) ==
    /\ tab[t].stage = "idle" /\ logins < MaxLogins
    /\ logins' = logins + 1
    /\ who' = [who EXCEPT ![logins + 1] = u]
    /\ Sends(t, "token", logins + 1)
    /\ UNCHANGED <<jar, server, history>>

(* The token is not valid any more when it is looked at. *)
TokenRefused(t) ==
    /\ tab[t].stage = "token" /\ tab[t].login \in staleJWT
    /\ Answers(t, NoneSet, "idle")
    /\ UNCHANGED <<jar, logins, who, server, history>>

(* Faulty variant: the OIDC session is deleted, its cookie kept, and a     *)
(* failure to delete it ignored.                                           *)
HandleTokenLoginKeepsSession(t, ok) ==
    /\ tab[t].stage = "token" /\ tab[t].login \notin staleJWT
    /\ clearSession(t, ok)
    /\ Answers(t, [c \in {"lattice_session"} |-> tab[t].login], "idle")
    /\ UNCHANGED <<jar, logins, who, codes, expired, staleJWT, history>>

HandleTokenLogin(t, ok) ==
    /\ tab[t].stage = "token" /\ tab[t].login \notin staleJWT
    /\ clearSession(t, ok)
    /\ Answers(t, IF ok THEN TokenSet(tab[t].login) ELSE ClearSession, "idle")
    /\ UNCHANGED <<jar, logins, who, codes, expired, staleJWT, history>>

SendLogout(t) ==
    /\ tab[t].stage = "idle" /\ jar # NoCookies
    /\ Sends(t, "logout", tab[t].login)
    /\ clean' = clean \cup {t}
    /\ UNCHANGED <<jar, logins, who, server, exchanged, latest, quiet, ended>>

(* Faulty variant: the token cookie is left alone. *)
HandleLogoutOIDCOnly(t, ok) ==
    /\ tab[t].stage = "logout"
    /\ clearSession(t, ok)
    /\ Answers(t, ClearSession, "idle")
    /\ ended' = IF ok THEN ended \cup {tab[t].cookies["session"]} ELSE ended
    /\ UNCHANGED <<jar, logins, who, codes, expired, staleJWT, exchanged, latest, clean, quiet>>

(* Both cookies are cleared, also when the session could not be deleted. *)
HandleLogout(t, ok) ==
    /\ tab[t].stage = "logout"
    /\ clearSession(t, ok)
    /\ Answers(t, LogoutSet, "idle")
    /\ ended' = IF ok THEN ended \cup {tab[t].cookies["session"]} ELSE ended
    /\ UNCHANGED <<jar, logins, who, codes, expired, staleJWT, exchanged, latest, clean, quiet>>

(***************************************************************************)
(* The browser                                                             *)
(***************************************************************************)
(* The cookie of a login that succeeded, 0 for other responses. *)
Grants(set) ==
    LET g == {set[c] : c \in DOMAIN set \cap {"session", "lattice_session"}} \ {0}
    IN IF g = {} THEN 0 ELSE CHOOSE i \in g : TRUE

ResponseArrives(t) ==
    LET set == tab[t].set
        granted == Grants(set)
        clears == "session" \in DOMAIN set
    IN /\ tab[t].stage = "answer"
       /\ jar' = [c \in Cookies |-> IF c \in DOMAIN set THEN set[c] ELSE jar[c]]
       /\ latest' = IF granted # 0 THEN granted ELSE IF clears THEN 0 ELSE latest
       /\ quiet' = (granted = 0 /\ (quiet \/ t \in clean))
       /\ clean' = IF granted = 0 THEN clean \ {t} ELSE {}
       /\ tab' = [tab EXCEPT ![t] = Waits(tab[t].then, tab[t].login)]
       /\ UNCHANGED <<logins, who, server, exchanged, ended>>

(* MaxAge of the temporary cookies, ten minutes *)
TemporaryCookiesExpire ==
    /\ jar["oidc_state"] # 0
    /\ jar' = [jar EXCEPT !["oidc_state"] = 0, !["oidc_verifier"] = 0]
    /\ UNCHANGED <<tab, logins, who, server, history>>

Next ==
    \/ \E t \in Tabs :
         \/ prepareAuthorizationURL(t) \/ MissingCode(t) \/ Reload(t)
         \/ CallbackRefused(t) \/ CallbackFails(t) \/ CallbackSucceeds(t)
         \/ TokenRefused(t) \/ SendLogout(t) \/ ResponseArrives(t)
         \/ \E u \in Users : SignIn(t, u) \/ SendTokenLogin(t, u)
         \/ \E ok \in BOOLEAN : HandleTokenLogin(t, ok) \/ HandleLogout(t, ok)
    \/ \E i \in Logins : SessionExpires(i) \/ TokenExpires(i)
    \/ cleanup \/ TemporaryCookiesExpire

Spec == Init /\ [][Next]_vars

(***************************************************************************)
(* Who a request is taken for                                              *)
(***************************************************************************)
(* sessionCookieAuthenticator: the OIDC session, else the token cookie *)
Authenticate(cookies, readable) ==
    LET s == getSession(cookies, readable)
        c == IF s # 0 THEN s ELSE cookies["lattice_session"]
    IN IF c = 0 THEN NoOne ELSE IF c \in staleJWT THEN Rejected ELSE who[c]

(* SessionMiddleware: only the OIDC session *)
SessionUser(cookies, readable) ==
    LET s == getSession(cookies, readable)
    IN IF s = 0 THEN NoOne ELSE who[s]

tokenClaimsFromCookie(cookies) ==
    LET c == cookies["lattice_session"]
    IN IF c = 0 \/ c \in staleJWT THEN NoOne ELSE who[c]

(* HandleSession: what the user interface shows *)
ShownUser(cookies, readable) ==
    IF getSession(cookies, readable) # 0
    THEN SessionUser(cookies, readable)
    ELSE tokenClaimsFromCookie(cookies)

(***************************************************************************)
(* Properties                                                              *)
(***************************************************************************)
(* Whatever logins other tabs start, finish or repeat, HandleCallback      *)
(* sends a code to the token endpoint only with the verifier of the login  *)
(* it was issued for.                                                      *)
CodeMatchesVerifier == \A e \in exchanged : e[1] = e[2]

(* After a logout nobody is authenticated, by neither kind of cookie,      *)
(* unless the response of a login arrived since the logout was sent, also  *)
(* if the session store cannot be read; and a session whose logout         *)
(* succeeded is in the store no more.                                      *)
LogoutLeavesNothing ==
    /\ quiet => \A readable \in BOOLEAN :
                  /\ Authenticate(jar, readable) = NoOne
                  /\ SessionUser(jar, readable) = NoOne
                  /\ ShownUser(jar, readable) = NoOne
    /\ ended \cap store = {}

(* As long as the login that completed last is good, requests are those of *)
(* its user: earlier logins of either kind, also in other tabs, do not     *)
(* show through, and the user interface names the same user.  This needs a *)
(* store that can be read: without its session a login from the identity   *)
(* provider leaves the token cookie of an earlier one in force.            *)
LatestLoginWins ==
    LET live == \/ jar["session"] = latest /\ latest \in store \ expired
                \/ jar["lattice_session"] = latest
    IN latest # 0 /\ live /\ latest \notin staleJWT =>
         /\ Authenticate(jar, TRUE) = who[latest]
         /\ ShownUser(jar, TRUE) = who[latest]
         /\ SessionUser(jar, TRUE) \in {NoOne, who[latest]}
=============================================================================
