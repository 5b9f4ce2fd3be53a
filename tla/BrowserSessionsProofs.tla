----------------------- MODULE BrowserSessionsProofs ------------------------
(***************************************************************************)
(* Theorems about BrowserSessions, for any number of tabs, users and       *)
(* logins.                                                                 *)
(***************************************************************************)
EXTENDS BrowserSessions, TLAPS

Ids == 0 .. MaxLogins
Jar == [Cookies -> Ids]

(* The headers that a response may carry. *)
SetCookies ==
    {NoneSet, ClearSession, LogoutSet}
      \cup {TemporarySet(i) : i \in Ids}
      \cup {SessionSet(i) : i \in Ids}
      \cup {TokenSet(i) : i \in Ids}

Stages == {"idle", "answer", "idp", "callback", "token", "logout"}
TabStates ==
    [stage : Stages, login : Ids, cookies : Jar, set : SetCookies, then : {"idle", "idp"}]

TypeOK ==
    /\ jar \in Jar
    /\ tab \in [Tabs -> TabStates]
    /\ logins \in Ids
    /\ who \in [Logins -> Users \cup {NoOne}]
    /\ codes \subseteq Logins
    /\ store \subseteq Logins
    /\ ended \subseteq Ids
    /\ clean \subseteq Tabs
    /\ quiet \in BOOLEAN
    /\ latest \in Ids

(* The two temporary cookies are set and cleared together. *)
Paired(cookies) == cookies["oidc_state"] = cookies["oidc_verifier"]

PairInv == Paired(jar) /\ \A t \in Tabs : Paired(tab[t].cookies)

(* The session cookie is that of the latest login, if it is there. *)
SessionInv == jar["session"] \in {0, latest}

(* No credential is left in the browser after a logout, and a logout that  *)
(* no login has overtaken will leave none.                                 *)
QuietInv ==
    /\ quiet => jar["session"] = 0 /\ jar["lattice_session"] = 0
    /\ \A t \in clean :
         tab[t].stage = "logout" \/ (tab[t].stage = "answer" /\ tab[t].set = LogoutSet)

(* A tab is on its way to the IdP, or there, with a login of its own that  *)
(* nobody has signed in to.                                                *)
Away(t) == tab[t].stage = "idp" \/ (tab[t].stage = "answer" /\ tab[t].then = "idp")

AwayInv ==
    /\ \A t \in Tabs : Away(t) => tab[t].login \in 1 .. logins /\ who[tab[t].login] = NoOne
    /\ \A t, x \in Tabs : Away(t) /\ Away(x) /\ tab[t].login = tab[x].login => t = x
    /\ \A i \in Logins : i > logins => who[i] = NoOne
    /\ \A i \in codes : who[i] # NoOne

SessionIn(set) == IF "session" \in DOMAIN set THEN set["session"] ELSE 0

(* The session of a login whose code was not used is not known to anyone. *)
Unseen(i) ==
    /\ i \notin store \cup ended /\ jar["session"] # i
    /\ \A t \in Tabs : tab[t].cookies["session"] # i /\ SessionIn(tab[t].set) # i

OnceInv ==
    /\ \A i \in Logins : i \in codes \/ who[i] = NoOne => Unseen(i)
    /\ ended \cap store = {}

-----------------------------------------------------------------------------
(* What the headers of a response can be. *)
LEMMA Headers ==
    ASSUME NEW set \in SetCookies
    PROVE  /\ \A c \in DOMAIN set : set[c] \in Ids
           /\ "oidc_state" \in DOMAIN set <=> "oidc_verifier" \in DOMAIN set
           /\ "oidc_state" \in DOMAIN set => set["oidc_state"] = set["oidc_verifier"]
           /\ SessionIn(set) \in Ids
           /\ Grants(set) \in Ids
           /\ Grants(set) # 0 => "session" \in DOMAIN set
           /\ SessionIn(set) \in {0, Grants(set)}
           /\ "lattice_session" \in DOMAIN set => set["lattice_session"] \in {0, Grants(set)}
<1>0. 0 \in Ids
  BY LoginAssumption DEF LoginAssumption, Ids
<1> USE DEF SessionIn
<1>1. CASE set = NoneSet
  <2>1. DOMAIN set = {}
    BY <1>1 DEF NoneSet
  <2>2. Grants(set) = 0
    BY <2>1 DEF Grants
  <2> QED
    BY <1>0, <2>1, <2>2
<1>2. ASSUME NEW i \in Ids, set = TemporarySet(i)
      PROVE  /\ DOMAIN set = {"oidc_state", "oidc_verifier"}
             /\ set["oidc_state"] = i /\ set["oidc_verifier"] = i /\ Grants(set) = 0
  <2>1. /\ DOMAIN set = {"oidc_state", "oidc_verifier"}
        /\ set["oidc_state"] = i /\ set["oidc_verifier"] = i
    BY <1>2 DEF TemporarySet
  <2> QED
    BY <2>1 DEF Grants
<1>3. ASSUME NEW i \in Ids, set = SessionSet(i)
      PROVE  /\ DOMAIN set = {"oidc_state", "oidc_verifier", "session"}
             /\ set["oidc_state"] = 0 /\ set["oidc_verifier"] = 0
             /\ set["session"] = i /\ Grants(set) = i
  <2>1. /\ DOMAIN set = {"oidc_state", "oidc_verifier", "session"}
        /\ set["oidc_state"] = 0 /\ set["oidc_verifier"] = 0 /\ set["session"] = i
    BY <1>3 DEF SessionSet
  <2>2. {set[c] : c \in DOMAIN set \cap {"session", "lattice_session"}} = {i}
    BY <2>1
  <2> QED
    BY <2>1, <2>2 DEF Grants
<1>4. ASSUME NEW i \in Ids, set = TokenSet(i)
      PROVE  /\ DOMAIN set = {"session", "lattice_session"}
             /\ set["session"] = 0 /\ set["lattice_session"] = i /\ Grants(set) = i
  <2>1. /\ DOMAIN set = {"session", "lattice_session"}
        /\ set["session"] = 0 /\ set["lattice_session"] = i
    BY <1>4 DEF TokenSet
  <2>2. {set[c] : c \in DOMAIN set \cap {"session", "lattice_session"}} = {0, i}
    BY <2>1
  <2> QED
    BY <2>1, <2>2 DEF Grants
<1>5. CASE set \in {ClearSession, LogoutSet}
  <2>1. /\ DOMAIN set \in {{"session"}, {"session", "lattice_session"}}
        /\ \A c \in DOMAIN set : set[c] = 0
    BY <1>5 DEF ClearSession, LogoutSet
  <2>2. {set[c] : c \in DOMAIN set \cap {"session", "lattice_session"}} \ {0} = {}
    BY <2>1
  <2>3. Grants(set) = 0
    BY <2>2 DEF Grants
  <2> QED
    BY <1>0, <2>1, <2>3
<1> QED
  BY <1>0, <1>1, <1>2, <1>3, <1>4, <1>5 DEF SetCookies

(* The jar after a response. *)
Applied(j, set) == [c \in Cookies |-> IF c \in DOMAIN set THEN set[c] ELSE j[c]]

(* What a response makes of the browser's cookies. *)
LEMMA AppliedJar ==
    ASSUME NEW j \in Jar, NEW set \in SetCookies
    PROVE  /\ Applied(j, set) \in Jar
           /\ Paired(j) => Paired(Applied(j, set))
           /\ Applied(j, set)["session"] =
                IF "session" \in DOMAIN set THEN SessionIn(set) ELSE j["session"]
           /\ Applied(j, set)["lattice_session"] \in {j["lattice_session"], 0, Grants(set)}
  BY Headers DEF Applied, Jar, Cookies, Paired, SessionIn

(* The response of a logout clears both credentials. *)
LEMMA Cleared ==
    ASSUME NEW j \in Jar
    PROVE  Applied(j, LogoutSet)["session"] = 0 /\ Applied(j, LogoutSet)["lattice_session"] = 0
  BY DEF Applied, LogoutSet, Cookies

(* All headers that the handlers send are accounted for. *)
LEMMA HeaderTypes ==
    /\ NoneSet \in SetCookies /\ ClearSession \in SetCookies /\ LogoutSet \in SetCookies
    /\ ClearTemporary \in SetCookies
    /\ \A i \in Ids : /\ TemporarySet(i) \in SetCookies
                      /\ SessionSet(i) \in SetCookies
                      /\ TokenSet(i) \in SetCookies
  BY LoginAssumption DEF LoginAssumption, Ids, SetCookies, ClearTemporary

(* An empty jar is one, and its temporary cookies are a pair. *)
LEMMA NoCookiesType == NoCookies \in Jar /\ Paired(NoCookies) /\ NoCookies["session"] = 0
  BY LoginAssumption DEF NoCookies, Jar, Ids, LoginAssumption, Cookies, Paired

(* The parts of a tab's state are what it is made of, *)
LEMMA TabFields ==
    ASSUME NEW stage \in Stages, NEW i \in Ids, NEW cookies \in Jar,
           NEW set \in SetCookies, NEW then \in {"idle", "idp"}
    PROVE  /\ TabState(stage, i, cookies, set, then) \in TabStates
           /\ TabState(stage, i, cookies, set, then).stage = stage
           /\ TabState(stage, i, cookies, set, then).login = i
           /\ TabState(stage, i, cookies, set, then).cookies = cookies
           /\ TabState(stage, i, cookies, set, then).set = set
           /\ TabState(stage, i, cookies, set, then).then = then
  BY DEF TabState, TabStates

(* and of their types. *)
LEMMA TabTypes ==
    ASSUME NEW u \in TabStates
    PROVE  /\ u.stage \in Stages /\ u.login \in Ids /\ u.cookies \in Jar
           /\ u.set \in SetCookies /\ u.then \in {"idle", "idp"}
  BY DEF TabStates

(* Tab t is in this state now, and the others are as they were. *)
Becomes(t, stage, i, cookies, set, then) ==
    /\ tab' \in [Tabs -> TabStates]
    /\ tab'[t].stage = stage /\ tab'[t].login = i /\ tab'[t].cookies = cookies
    /\ tab'[t].set = set /\ tab'[t].then = then
    /\ \A x \in Tabs \ {t} : tab'[x] = tab[x]

(* A tab that is given a new state has it, and the other tabs keep theirs. *)
LEMMA TabBecomes ==
    ASSUME TypeOK, NEW t \in Tabs,
           NEW stage \in Stages, NEW i \in Ids, NEW cookies \in Jar,
           NEW set \in SetCookies, NEW then \in {"idle", "idp"},
           tab' = [tab EXCEPT ![t] = TabState(stage, i, cookies, set, then)]
    PROVE  Becomes(t, stage, i, cookies, set, then)
  BY TabFields DEF TypeOK, Becomes

(* A request carries the browser's cookies. *)
LEMMA SendsTab ==
    ASSUME TypeOK, NEW t \in Tabs, NEW stage \in Stages, NEW i \in Ids, Sends(t, stage, i)
    PROVE  Becomes(t, stage, i, jar, NoneSet, "idle")
  BY TabBecomes, HeaderTypes DEF Sends, TypeOK

(* An answer keeps the login and the cookies of its request. *)
LEMMA AnswersTab ==
    ASSUME TypeOK, NEW t \in Tabs, NEW set \in SetCookies, NEW then \in {"idle", "idp"},
           Answers(t, set, then)
    PROVE  Becomes(t, "answer", tab[t].login, tab[t].cookies, set, then)
  BY TabBecomes, TabTypes DEF Answers, TypeOK, Stages

(* The answer to the start of a login sets the temporary cookies. *)
LEMMA PreparesTab ==
    ASSUME TypeOK, NEW t \in Tabs, prepareAuthorizationURL(t)
    PROVE  /\ logins + 1 \in Logins /\ logins + 1 \in Ids
           /\ Becomes(t, "answer", logins + 1, NoCookies, TemporarySet(logins + 1), "idp")
<1>1. logins + 1 \in Logins /\ logins + 1 \in Ids
  BY LoginAssumption DEF LoginAssumption, TypeOK, Ids, Logins, prepareAuthorizationURL
<1> QED
  BY <1>1, TabBecomes, HeaderTypes, NoCookiesType DEF prepareAuthorizationURL, Stages

(* A tab that waits has no request under way. *)
LEMMA WaitsTab ==
    ASSUME TypeOK, NEW t \in Tabs, NEW stage \in Stages, NEW i \in Ids,
           tab' = [tab EXCEPT ![t] = Waits(stage, i)]
    PROVE  Becomes(t, stage, i, NoCookies, NoneSet, "idle")
  BY TabBecomes, HeaderTypes, NoCookiesType DEF Waits

(* A response that arrives is applied to the browser's cookies. *)
LEMMA ArrivesTab ==
    ASSUME TypeOK, NEW t \in Tabs, ResponseArrives(t)
    PROVE  /\ Becomes(t, tab[t].then, tab[t].login, NoCookies, NoneSet, "idle")
           /\ tab[t].set \in SetCookies
           /\ jar' = Applied(jar, tab[t].set)
<1>1. /\ tab[t].login \in Ids /\ tab[t].then \in Stages
      /\ tab[t].set \in SetCookies
  BY TabTypes DEF TypeOK, Stages
<1> QED
  BY <1>1, WaitsTab DEF ResponseArrives, Applied

(* The requests carry the browser's cookies; an answer goes to the request *)
(* that it is for.                                                         *)
Requests(t) ==
    \/ Reload(t) \/ SendLogout(t)
    \/ \E u \in Users : SignIn(t, u) \/ SendTokenLogin(t, u)

(* Whatever is requested, the tab waits for it with the browser's cookies. *)
LEMMA RequestTab ==
    ASSUME TypeOK, NEW t \in Tabs, Requests(t)
    PROVE  /\ \E stage \in {"callback", "logout", "token"}, i \in Ids :
                Becomes(t, stage, i, jar, NoneSet, "idle")
           /\ jar' = jar
<1>1. tab[t].login \in Ids
  BY TabTypes DEF TypeOK
<1>2. ASSUME NEW u \in Users, SendTokenLogin(t, u)
      PROVE  logins + 1 \in Ids
  BY <1>2, LoginAssumption DEF SendTokenLogin, TypeOK, Ids, LoginAssumption
<1> QED
  BY <1>1, <1>2, SendsTab DEF Requests, Reload, SendLogout, SignIn, SendTokenLogin, Stages

Responses(t) ==
    \/ CallbackRefused(t) \/ TokenRefused(t) \/ CallbackFails(t) \/ CallbackSucceeds(t)
    \/ \E ok \in BOOLEAN : HandleTokenLogin(t, ok) \/ HandleLogout(t, ok)

(* Whatever is answered, the answer is on its way to the tab. *)
LEMMA ResponseTab ==
    ASSUME TypeOK, NEW t \in Tabs, Responses(t)
    PROVE  /\ \E set \in SetCookies :
                Becomes(t, "answer", tab[t].login, tab[t].cookies, set, "idle")
           /\ jar' = jar
<1>1. tab[t].login \in Ids
  BY TabTypes DEF TypeOK
<1> QED
  BY <1>1, AnswersTab, HeaderTypes
     DEF Responses, CallbackRefused, TokenRefused, CallbackFails, CallbackSucceeds,
         HandleTokenLogin, HandleLogout, Exchange

-----------------------------------------------------------------------------
(* A browser without cookies and tabs that are idle. *)
LEMMA TypeInitial == Init => TypeOK
<1>1. Waits("idle", 0) \in TabStates /\ 0 \in Ids /\ NoCookies \in Jar
  BY TabFields, HeaderTypes, NoCookiesType, LoginAssumption
     DEF Waits, Ids, LoginAssumption, Stages
<1> QED
  BY <1>1 DEF Init, TypeOK

(* Every step keeps the types; SignIn because the login it names was       *)
(* started.                                                                *)
LEMMA TypeStep == TypeOK /\ AwayInv /\ [Next]_vars => TypeOK'
<1> SUFFICES ASSUME TypeOK, AwayInv, [Next]_vars
             PROVE  TypeOK'
  OBVIOUS
<1>0. /\ 0 \in Ids /\ Logins \subseteq Ids
      /\ \A t \in Tabs : /\ tab[t].login \in Ids /\ tab[t].cookies \in Jar
                         /\ tab[t].set \in SetCookies
                         /\ tab[t].cookies["session"] \in Ids
  BY TabTypes, LoginAssumption DEF TypeOK, Ids, Logins, LoginAssumption, Jar, Cookies
<1> USE DEF history, server
<1>1. ASSUME NEW t \in Tabs, prepareAuthorizationURL(t)
      PROVE  TypeOK'
  BY <1>1, PreparesTab DEF prepareAuthorizationURL, Becomes, TypeOK
<1>2. ASSUME NEW t \in Tabs, MissingCode(t)
      PROVE  TypeOK'
  BY <1>0, <1>2, WaitsTab DEF MissingCode, Becomes, TypeOK, Stages
<1>3. ASSUME NEW t \in Tabs, Reload(t)
      PROVE  TypeOK'
  BY <1>0, <1>3, SendsTab DEF Reload, Becomes, TypeOK, Stages
<1>4. ASSUME NEW t \in Tabs, CallbackRefused(t) \/ TokenRefused(t)
      PROVE  TypeOK'
  BY <1>4, AnswersTab, HeaderTypes DEF CallbackRefused, TokenRefused, Becomes, TypeOK
<1>5. ASSUME NEW t \in Tabs, CallbackFails(t)
      PROVE  TypeOK'
  BY <1>0, <1>5, AnswersTab, HeaderTypes
     DEF CallbackFails, Exchange, Create, Becomes, TypeOK
<1>6. ASSUME NEW t \in Tabs, CallbackSucceeds(t)
      PROVE  TypeOK'
  BY <1>0, <1>6, AnswersTab, HeaderTypes
     DEF CallbackSucceeds, Exchange, Create, Becomes, TypeOK
<1>7. ASSUME NEW t \in Tabs, SendLogout(t)
      PROVE  TypeOK'
  BY <1>0, <1>7, SendsTab DEF SendLogout, Becomes, TypeOK, Stages
<1>8. ASSUME NEW t \in Tabs, ResponseArrives(t)
      PROVE  TypeOK'
  <2>1. jar' \in Jar /\ Grants(tab[t].set) \in Ids
    BY <1>8, ArrivesTab, AppliedJar, Headers DEF TypeOK
  <2>2. latest' \in Ids
    BY <1>0, <1>8, <2>1 DEF ResponseArrives, TypeOK
  <2>3. tab' \in [Tabs -> TabStates]
    BY <1>8, ArrivesTab DEF Becomes
  <2>4. quiet' \in BOOLEAN /\ clean' \subseteq Tabs
    BY <1>8 DEF ResponseArrives, TypeOK
  <2> QED
    BY <1>8, <2>1, <2>2, <2>3, <2>4 DEF ResponseArrives, TypeOK
<1>9. ASSUME NEW t \in Tabs, NEW u \in Users, SignIn(t, u)
      PROVE  TypeOK'
  <2>1. tab[t].login \in Logins
    BY <1>9, LoginAssumption DEF SignIn, AwayInv, Away, TypeOK, Ids, Logins, LoginAssumption
  <2> QED
    BY <1>0, <1>9, <2>1, SendsTab DEF SignIn, Becomes, TypeOK, Stages
<1>10. ASSUME NEW t \in Tabs, NEW u \in Users, SendTokenLogin(t, u)
      PROVE  TypeOK'
  <2>1. logins + 1 \in Logins /\ logins + 1 \in Ids
    BY <1>10, LoginAssumption DEF SendTokenLogin, TypeOK, Ids, Logins, LoginAssumption
  <2> QED
    BY <1>10, <2>1, SendsTab DEF SendTokenLogin, Becomes, TypeOK, Stages
<1>11. ASSUME NEW t \in Tabs, NEW ok \in BOOLEAN, HandleTokenLogin(t, ok)
      PROVE  TypeOK'
  BY <1>0, <1>11, AnswersTab, HeaderTypes
     DEF HandleTokenLogin, clearSession, Delete, Becomes, TypeOK
<1>12. ASSUME NEW t \in Tabs, NEW ok \in BOOLEAN, HandleLogout(t, ok)
      PROVE  TypeOK'
  BY <1>0, <1>12, AnswersTab, HeaderTypes
     DEF HandleLogout, clearSession, Delete, Becomes, TypeOK
<1>13. ASSUME NEW i \in Logins, SessionExpires(i) \/ TokenExpires(i)
      PROVE  TypeOK'
  BY <1>13 DEF SessionExpires, TokenExpires, TypeOK
<1>14. CASE cleanup
  BY <1>14 DEF cleanup, TypeOK
<1>15. CASE TemporaryCookiesExpire
  BY <1>0, <1>15 DEF TemporaryCookiesExpire, TypeOK, Jar, Cookies
<1>16. CASE UNCHANGED vars
  BY <1>16 DEF vars, TypeOK
<1> QED
  BY <1>1, <1>2, <1>3, <1>4, <1>5, <1>6, <1>7, <1>8, <1>9, <1>10, <1>11,
     <1>12, <1>13, <1>14, <1>15, <1>16 DEF Next

-----------------------------------------------------------------------------
(* Steps that send nobody to the IdP keep what is known of those who are   *)
(* there.                                                                  *)
LEMMA AwayKept ==
    ASSUME AwayInv, UNCHANGED <<who, logins>>, codes' \subseteq codes,
           \A t \in Tabs : Away(t)' => Away(t) /\ tab'[t].login = tab[t].login
    PROVE  AwayInv'
  BY DEF AwayInv

(* Every step keeps those who are away apart: a login that is started is a *)
(* new one, and a sign-in ends the stay.                                   *)
LEMMA AwayStep == TypeOK /\ AwayInv /\ [Next]_vars => AwayInv'
<1> SUFFICES ASSUME TypeOK, AwayInv, [Next]_vars
             PROVE  AwayInv'
  OBVIOUS
<1>0. 0 \in Ids /\ \A t \in Tabs : tab[t].login \in Ids
  BY TabTypes, LoginAssumption DEF TypeOK, Ids, LoginAssumption
<1> USE DEF history, server
<1>1. ASSUME NEW t \in Tabs, prepareAuthorizationURL(t)
      PROVE  AwayInv'
  <2>1. /\ logins' = logins + 1 /\ logins + 1 \in Logins
        /\ who' = who /\ codes' = codes /\ logins \in Nat
    <3>1. logins + 1 \in Logins
      BY <1>1, PreparesTab
    <3> QED
      BY <1>1, <3>1 DEF prepareAuthorizationURL, TypeOK, Ids
  <2>2. /\ tab'[t].login = logins + 1
        /\ \A x \in Tabs \ {t} : tab'[x] = tab[x] /\ (Away(x)' <=> Away(x))
    BY <1>1, PreparesTab DEF Becomes, Away
  <2>3. who[logins + 1] = NoOne /\ \A x \in Tabs : Away(x) => tab[x].login # logins + 1
    BY <2>1 DEF AwayInv, Logins
  <2> QED
    BY <2>1, <2>2, <2>3 DEF AwayInv, Logins
<1>2. ASSUME NEW t \in Tabs, MissingCode(t)
      PROVE  AwayInv'
  <2>1. Becomes(t, "idle", 0, NoCookies, NoneSet, "idle")
    BY <1>0, <1>2, WaitsTab DEF MissingCode, Stages
  <2> QED
    BY <1>2, <2>1, AwayKept DEF MissingCode, Becomes, Away
<1>3. ASSUME NEW t \in Tabs, Reload(t) \/ SendLogout(t)
      PROVE  AwayInv'
  <2>1. \E stage \in {"callback", "logout"} :
          Becomes(t, stage, tab[t].login, jar, NoneSet, "idle")
    BY <1>0, <1>3, SendsTab DEF Reload, SendLogout, Stages
  <2> QED
    BY <1>3, <2>1, AwayKept DEF Reload, SendLogout, Becomes, Away
<1>4. ASSUME NEW t \in Tabs, NEW set \in SetCookies, Answers(t, set, "idle"),
             UNCHANGED <<who, logins>>, codes' \subseteq codes
      PROVE  AwayInv'
  <2>1. Becomes(t, "answer", tab[t].login, tab[t].cookies, set, "idle")
    BY <1>4, AnswersTab
  <2> QED
    BY <1>4, <2>1, AwayKept DEF Becomes, Away
<1>5. ASSUME NEW t \in Tabs, CallbackRefused(t) \/ TokenRefused(t)
      PROVE  AwayInv'
  BY <1>4, <1>5, HeaderTypes DEF CallbackRefused, TokenRefused
<1>6. ASSUME NEW t \in Tabs, CallbackFails(t) \/ CallbackSucceeds(t)
      PROVE  AwayInv'
  BY <1>0, <1>4, <1>6, HeaderTypes DEF CallbackFails, CallbackSucceeds, Exchange
<1>7. ASSUME NEW t \in Tabs, ResponseArrives(t)
      PROVE  AwayInv'
  BY <1>7, AwayKept, ArrivesTab DEF ResponseArrives, Becomes, Away
<1>8. ASSUME NEW t \in Tabs, NEW u \in Users, SignIn(t, u)
      PROVE  AwayInv'
  <2>1. Becomes(t, "callback", tab[t].login, jar, NoneSet, "idle")
    BY <1>0, <1>8, SendsTab DEF SignIn, Stages
  <2>2. /\ Away(t) /\ ~Away(t)'
        /\ \A x \in Tabs \ {t} : tab'[x] = tab[x] /\ (Away(x)' <=> Away(x))
    BY <1>8, <2>1 DEF SignIn, Becomes, Away
  <2>3. /\ tab[t].login \in Logins /\ logins' = logins
        /\ who' = [who EXCEPT ![tab[t].login] = u] /\ u # NoOne
        /\ codes' = codes \cup {tab[t].login}
    BY <1>8, <2>2, LoginAssumption
       DEF SignIn, AwayInv, TypeOK, Ids, Logins, LoginAssumption
  <2>4. \A x \in Tabs \ {t} : Away(x) => tab[x].login # tab[t].login
    BY <2>2 DEF AwayInv
  <2>5. tab[t].login <= logins /\ logins \in Nat
    BY <2>2 DEF AwayInv, TypeOK, Ids
  <2> QED
    BY <2>2, <2>3, <2>4, <2>5 DEF AwayInv, TypeOK, Logins
<1>9. ASSUME NEW t \in Tabs, NEW u \in Users, SendTokenLogin(t, u)
      PROVE  AwayInv'
  <2>1. /\ logins + 1 \in Logins /\ logins + 1 \in Ids /\ logins \in Nat
        /\ logins' = logins + 1 /\ who' = [who EXCEPT ![logins + 1] = u] /\ u # NoOne
        /\ codes' = codes
    BY <1>9, LoginAssumption DEF SendTokenLogin, TypeOK, Ids, Logins, LoginAssumption
  <2>2. Becomes(t, "token", logins + 1, jar, NoneSet, "idle")
    BY <1>9, <2>1, SendsTab DEF SendTokenLogin, Stages
  <2>3. \A x \in Tabs : Away(x)' => Away(x) /\ tab'[x] = tab[x]
    BY <2>2 DEF Becomes, Away
  <2> QED
    BY <2>1, <2>3 DEF AwayInv, TypeOK, Logins
<1>10. ASSUME NEW t \in Tabs, NEW ok \in BOOLEAN,
              HandleTokenLogin(t, ok) \/ HandleLogout(t, ok)
      PROVE  AwayInv'
  BY <1>0, <1>4, <1>10, HeaderTypes DEF HandleTokenLogin, HandleLogout
<1>11. CASE UNCHANGED <<tab, logins, who, codes>>
  BY <1>11, AwayKept DEF Away
<1>12. CASE \/ \E i \in Logins : SessionExpires(i) \/ TokenExpires(i)
            \/ cleanup \/ TemporaryCookiesExpire \/ UNCHANGED vars
  BY <1>11, <1>12 DEF SessionExpires, TokenExpires, cleanup, TemporaryCookiesExpire, vars
<1> QED
  BY <1>1, <1>2, <1>3, <1>5, <1>6, <1>7, <1>8, <1>9, <1>10, <1>12 DEF Next

-----------------------------------------------------------------------------
(* The temporary cookies of the browser and of every request are a pair,   *)
(* whatever responses arrive in whatever order.                            *)
LEMMA PairStep ==
    TypeOK /\ PairInv /\ CodeMatchesVerifier /\ [Next]_vars
      => PairInv' /\ CodeMatchesVerifier'
<1> SUFFICES ASSUME TypeOK, PairInv, CodeMatchesVerifier, [Next]_vars
             PROVE  PairInv' /\ CodeMatchesVerifier'
  OBVIOUS
<1>0. /\ 0 \in Ids /\ jar \in Jar
      /\ \A t \in Tabs : tab[t].login \in Ids /\ tab[t].set \in SetCookies
  BY TabTypes, LoginAssumption DEF TypeOK, Ids, LoginAssumption
<1> USE DEF history, server
<1>1. ASSUME NEW t \in Tabs,
             NEW cookies \in {jar, tab[t].cookies, NoCookies}, tab'[t].cookies = cookies,
             \A x \in Tabs \ {t} : tab'[x] = tab[x], UNCHANGED <<jar, exchanged>>
      PROVE  PairInv' /\ CodeMatchesVerifier'
  BY <1>1, NoCookiesType DEF PairInv, CodeMatchesVerifier, Paired
<1>2. ASSUME NEW t \in Tabs, prepareAuthorizationURL(t)
      PROVE  PairInv' /\ CodeMatchesVerifier'
  BY <1>1, <1>2, PreparesTab DEF prepareAuthorizationURL, Becomes
<1>3. ASSUME NEW t \in Tabs, MissingCode(t)
      PROVE  PairInv' /\ CodeMatchesVerifier'
  BY <1>0, <1>1, <1>3, WaitsTab DEF MissingCode, Becomes, Stages
<1>4. ASSUME NEW t \in Tabs, Requests(t)
      PROVE  PairInv' /\ CodeMatchesVerifier'
  <2>1. exchanged' = exchanged
    BY <1>4 DEF Requests, Reload, SendLogout, SignIn, SendTokenLogin
  <2> QED
    BY <1>1, <1>4, <2>1, RequestTab DEF Becomes
<1>5. ASSUME NEW t \in Tabs, Responses(t), UNCHANGED exchanged
      PROVE  PairInv' /\ CodeMatchesVerifier'
  BY <1>1, <1>5, ResponseTab DEF Becomes
<1>6. ASSUME NEW t \in Tabs, CallbackFails(t) \/ CallbackSucceeds(t)
      PROVE  PairInv' /\ CodeMatchesVerifier'
  <2>1. /\ tab[t].cookies["oidc_verifier"] = tab[t].login
        /\ exchanged' = exchanged \cup {<<tab[t].login, tab[t].cookies["oidc_verifier"]>>}
    BY <1>6 DEF CallbackFails, CallbackSucceeds, Exchange, StateVerified, PairInv, Paired
  <2>2. /\ tab'[t].cookies = tab[t].cookies /\ jar' = jar
        /\ \A x \in Tabs \ {t} : tab'[x] = tab[x]
    BY <1>6, ResponseTab DEF Responses, Becomes
  <2> QED
    BY <2>1, <2>2 DEF PairInv, Paired, CodeMatchesVerifier
<1>7. ASSUME NEW t \in Tabs, ResponseArrives(t)
      PROVE  PairInv' /\ CodeMatchesVerifier'
  <2>1. Paired(jar')
    BY <1>0, <1>7, ArrivesTab, AppliedJar DEF PairInv
  <2>2. tab'[t].cookies = NoCookies /\ \A x \in Tabs \ {t} : tab'[x] = tab[x]
    BY <1>7, ArrivesTab DEF Becomes
  <2> QED
    BY <1>7, <2>1, <2>2, NoCookiesType
       DEF ResponseArrives, PairInv, Paired, CodeMatchesVerifier
<1>8. CASE UNCHANGED <<jar, tab, exchanged>>
  BY <1>8 DEF PairInv, CodeMatchesVerifier, Paired
<1>9. CASE \/ \E i \in Logins : SessionExpires(i) \/ TokenExpires(i)
           \/ cleanup \/ UNCHANGED vars
  BY <1>8, <1>9 DEF SessionExpires, TokenExpires, cleanup, vars
<1>10. CASE TemporaryCookiesExpire
  BY <1>0, <1>10 DEF TemporaryCookiesExpire, PairInv, Paired, CodeMatchesVerifier, Jar, Cookies
<1>11. ASSUME NEW t \in Tabs, Responses(t)
       PROVE  CallbackFails(t) \/ CallbackSucceeds(t) \/ UNCHANGED exchanged
  BY <1>11 DEF Responses, CallbackRefused, TokenRefused, HandleTokenLogin, HandleLogout
<1> QED
  BY <1>2, <1>3, <1>4, <1>5, <1>6, <1>7, <1>9, <1>10, <1>11 DEF Next, Requests, Responses

-----------------------------------------------------------------------------
(* Apart from the arrival of a response and the end of the temporary       *)
(* cookies, nothing changes the browser's cookies and what is remembered   *)
(* of logins and logouts.                                                  *)
LEMMA JarKept ==
    ASSUME [Next]_vars
    PROVE  \/ \E t \in Tabs : ResponseArrives(t)
           \/ /\ UNCHANGED <<latest, quiet>>
              /\ jar' = jar \/ TemporaryCookiesExpire
<1> USE DEF history, server
<1>1. CASE \E t \in Tabs : Requests(t)
  BY <1>1 DEF Requests, Reload, SendLogout, SignIn, SendTokenLogin
<1>2. CASE \E t \in Tabs : Responses(t)
  BY <1>2 DEF Responses, CallbackRefused, TokenRefused, CallbackFails, CallbackSucceeds,
              HandleTokenLogin, HandleLogout, Exchange
<1>3. CASE \E t \in Tabs : prepareAuthorizationURL(t) \/ MissingCode(t)
  BY <1>3 DEF prepareAuthorizationURL, MissingCode
<1>4. CASE \/ \E i \in Logins : SessionExpires(i) \/ TokenExpires(i)
           \/ cleanup \/ TemporaryCookiesExpire \/ UNCHANGED vars
  BY <1>4 DEF SessionExpires, TokenExpires, cleanup, TemporaryCookiesExpire, vars
<1> QED
  BY <1>1, <1>2, <1>3, <1>4 DEF Next, Requests, Responses

(* Every response that names a session is the latest login's, and every    *)
(* other login or logout clears the cookie.                                *)
LEMMA SessionStep == TypeOK /\ SessionInv /\ [Next]_vars => SessionInv'
<1> SUFFICES ASSUME TypeOK, SessionInv, [Next]_vars
             PROVE  SessionInv'
  OBVIOUS
<1>1. ASSUME NEW t \in Tabs, ResponseArrives(t)
      PROVE  SessionInv'
  <2> DEFINE set == tab[t].set
  <2>1. /\ set \in SetCookies
        /\ jar'["session"] = IF "session" \in DOMAIN set THEN SessionIn(set) ELSE jar["session"]
    BY <1>1, ArrivesTab, AppliedJar DEF TypeOK
  <2>2. latest' = IF Grants(set) # 0 THEN Grants(set)
                  ELSE IF "session" \in DOMAIN set THEN 0 ELSE latest
    BY <1>1 DEF ResponseArrives
  <2>3. /\ SessionIn(set) \in {0, Grants(set)}
        /\ Grants(set) # 0 => "session" \in DOMAIN set
    BY <2>1, Headers
  <2> HIDE DEF set
  <2> QED
    BY <2>1, <2>2, <2>3 DEF SessionInv
<1>2. CASE TemporaryCookiesExpire /\ latest' = latest
  BY <1>2 DEF TemporaryCookiesExpire, SessionInv, TypeOK, Jar, Cookies
<1> QED
  BY <1>1, <1>2, JarKept DEF SessionInv

(* Only the response of a login brings a credential back, and it ends both *)
(* the quiet and what it has overtaken.                                    *)
LEMMA QuietStep == TypeOK /\ QuietInv /\ [Next]_vars => QuietInv'
<1> SUFFICES ASSUME TypeOK, QuietInv, [Next]_vars
             PROVE  QuietInv'
  OBVIOUS
<1> DEFINE Nothing == jar["session"] = 0 /\ jar["lattice_session"] = 0
           Leaving(t) == \/ tab[t].stage = "logout"
                         \/ tab[t].stage = "answer" /\ tab[t].set = LogoutSet
<1> USE DEF history, server
<1>1. quiet' => Nothing'
  <2>1. ASSUME NEW t \in Tabs, ResponseArrives(t), quiet'
        PROVE  Nothing'
    <3> DEFINE set == tab[t].set
    <3>1. /\ set \in SetCookies /\ jar' = Applied(jar, set) /\ jar \in Jar
      BY <2>1, ArrivesTab DEF TypeOK
    <3>2. Grants(set) = 0 /\ (quiet \/ t \in clean) /\ tab[t].stage = "answer"
      BY <2>1, Zenon DEF ResponseArrives
    <3>3. CASE t \in clean
      <4>1. set = LogoutSet
        BY <3>2, <3>3 DEF QuietInv
      <4> QED
        BY <3>1, <4>1, Cleared
    <3>4. CASE quiet
      <4>1. jar["session"] = 0 /\ jar["lattice_session"] = 0
        BY <3>4 DEF QuietInv
      <4>2. SessionIn(set) = 0
        BY <3>1, <3>2, Headers
      <4> HIDE DEF set
      <4> QED
        BY <3>1, <3>2, <4>1, <4>2, AppliedJar
    <3> QED
      BY <3>2, <3>3, <3>4
  <2>2. CASE UNCHANGED quiet /\ (jar' = jar \/ TemporaryCookiesExpire)
    BY <2>2 DEF QuietInv, TemporaryCookiesExpire, TypeOK, Jar, Cookies
  <2> QED
    BY <2>1, <2>2, JarKept
<1>2. ASSUME NEW x \in clean'
      PROVE  Leaving(x)'
  <2>1. ASSUME NEW t \in Tabs, tab[t].stage \in {"idle", "callback", "token", "idp"},
               \A y \in Tabs \ {t} : tab'[y] = tab[y], clean' = clean
        PROVE  Leaving(x)'
    BY <1>2, <2>1 DEF QuietInv, TypeOK
  <2>2. ASSUME NEW t \in Tabs, prepareAuthorizationURL(t) \/ MissingCode(t)
        PROVE  Leaving(x)'
    BY <2>1, <2>2 DEF prepareAuthorizationURL, MissingCode, TypeOK
  <2>3. ASSUME NEW t \in Tabs, Requests(t), clean' = clean
        PROVE  Leaving(x)'
    <3>1. tab[t].stage \in {"idle", "idp"}
      BY <2>3 DEF Requests, Reload, SendLogout, SignIn, SendTokenLogin
    <3> QED
      BY <2>1, <2>3, <3>1, RequestTab DEF Becomes
  <2>4. ASSUME NEW t \in Tabs, SendLogout(t)
        PROVE  Leaving(x)'
    <3>1. tab[t].login \in Ids
      BY TabTypes DEF TypeOK
    <3>2. tab'[t].stage = "logout" /\ \A y \in Tabs \ {t} : tab'[y] = tab[y]
      BY <2>4, <3>1, SendsTab DEF SendLogout, Becomes, Stages
    <3>3. x \in clean \cup {t}
      BY <1>2, <2>4 DEF SendLogout
    <3> QED
      BY <3>2, <3>3 DEF QuietInv, TypeOK
  <2>5. ASSUME NEW t \in Tabs, Responses(t), tab[t].stage # "logout"
        PROVE  Leaving(x)'
    <3>1. tab[t].stage \in {"callback", "token"} /\ clean' = clean
      BY <2>5 DEF Responses, CallbackRefused, TokenRefused, CallbackFails, CallbackSucceeds,
                  HandleTokenLogin, HandleLogout, Exchange
    <3> QED
      BY <2>1, <2>5, <3>1, ResponseTab DEF Becomes
  <2>6. ASSUME NEW t \in Tabs, NEW ok \in BOOLEAN, HandleLogout(t, ok)
        PROVE  Leaving(x)'
    <3>1. /\ tab'[t].stage = "answer" /\ tab'[t].set = LogoutSet
          /\ \A y \in Tabs \ {t} : tab'[y] = tab[y]
      BY <2>6, AnswersTab, HeaderTypes DEF HandleLogout, Becomes
    <3> QED
      BY <1>2, <2>6, <3>1 DEF HandleLogout, QuietInv, TypeOK
  <2>7. ASSUME NEW t \in Tabs, ResponseArrives(t)
        PROVE  Leaving(x)'
    <3>1. x \in clean /\ x # t
      BY <1>2, <2>7 DEF ResponseArrives
    <3>2. \A y \in Tabs \ {t} : tab'[y] = tab[y]
      BY <2>7, ArrivesTab DEF Becomes
    <3> QED
      BY <3>1, <3>2 DEF QuietInv, TypeOK
  <2>8. CASE UNCHANGED <<tab, clean>>
    BY <1>2, <2>8 DEF QuietInv
  <2>9. CASE \/ \E i \in Logins : SessionExpires(i) \/ TokenExpires(i)
             \/ cleanup \/ TemporaryCookiesExpire \/ UNCHANGED vars
    BY <2>8, <2>9 DEF SessionExpires, TokenExpires, cleanup, TemporaryCookiesExpire, vars
  <2>10. ASSUME NEW t \in Tabs, Requests(t)
         PROVE  SendLogout(t) \/ clean' = clean
    BY <2>10 DEF Requests, Reload, SignIn, SendTokenLogin
  <2>11. ASSUME NEW t \in Tabs, Responses(t), tab[t].stage = "logout"
         PROVE  \E ok \in BOOLEAN : HandleLogout(t, ok)
    BY <2>11 DEF Responses, CallbackRefused, TokenRefused, CallbackFails, CallbackSucceeds,
                 HandleTokenLogin, Exchange
  <2> HIDE DEF Leaving
  <2> QED
    BY <2>2, <2>3, <2>4, <2>5, <2>6, <2>7, <2>9, <2>10, <2>11 DEF Next, Requests, Responses
<1> QED
  BY <1>1, <1>2 DEF QuietInv

-----------------------------------------------------------------------------
(* A session comes into being when its code is used, and no code is used   *)
(* or issued twice; what nobody has seen is not made known by requests,    *)
(* logouts and other logins' responses.                                    *)
LEMMA OnceStep ==
    TypeOK /\ AwayInv /\ OnceInv /\ [Next]_vars => OnceInv'
<1> SUFFICES ASSUME TypeOK, AwayInv, OnceInv, [Next]_vars
             PROVE  OnceInv'
  OBVIOUS
<1>0. /\ 0 \notin Logins /\ jar \in Jar /\ 0 \in Ids
      /\ \A t \in Tabs : tab[t].login \in Ids /\ tab[t].set \in SetCookies
  BY TabTypes, LoginAssumption DEF TypeOK, Ids, Logins, LoginAssumption
<1> USE DEF history, server
<1>1. ASSUME NEW t \in Tabs, \A x \in Tabs \ {t} : tab'[x] = tab[x],
             tab'[t].cookies["session"] \in {0, jar["session"], tab[t].cookies["session"]},
             SessionIn(tab'[t].set) = 0, jar' = jar,
             store' \subseteq store, ended' = ended,
             \A i \in Logins : i \in codes' \/ who'[i] = NoOne => i \in codes \/ who[i] = NoOne
      PROVE  OnceInv'
  BY <1>0, <1>1 DEF OnceInv, Unseen
<1>2. /\ SessionIn(NoneSet) = 0 /\ SessionIn(ClearTemporary) = 0
      /\ SessionIn(ClearSession) = 0 /\ SessionIn(LogoutSet) = 0
      /\ \A i \in Ids : /\ SessionIn(TemporarySet(i)) = 0
                        /\ SessionIn(TokenSet(i)) = 0
                        /\ SessionIn(SessionSet(i)) = i
  BY DEF SessionIn, NoneSet, ClearTemporary, ClearSession, LogoutSet, TemporarySet,
         TokenSet, SessionSet
<1>3. ASSUME NEW t \in Tabs, prepareAuthorizationURL(t)
      PROVE  OnceInv'
  BY <1>1, <1>2, <1>3, PreparesTab, NoCookiesType, ZenonT(40) DEF prepareAuthorizationURL, Becomes
<1>4. ASSUME NEW t \in Tabs, MissingCode(t)
      PROVE  OnceInv'
  <2>1. Becomes(t, "idle", 0, NoCookies, NoneSet, "idle")
    BY <1>0, <1>4, WaitsTab DEF MissingCode, Stages
  <2> QED
    BY <1>1, <1>2, <1>4, <2>1, NoCookiesType DEF MissingCode, Becomes
<1>5. ASSUME NEW t \in Tabs, Reload(t) \/ SendLogout(t)
      PROVE  OnceInv'
  <2>1. UNCHANGED <<jar, store, ended, codes, who>>
    BY <1>5 DEF Reload, SendLogout
  <2>2. /\ \A x \in Tabs \ {t} : tab'[x] = tab[x]
        /\ tab'[t].cookies = jar /\ tab'[t].set = NoneSet
    BY <1>5, RequestTab DEF Requests, Becomes
  <2> QED
    BY <1>1, <1>2, <2>1, <2>2
<1>6. ASSUME NEW t \in Tabs, NEW u \in Users, SendTokenLogin(t, u)
      PROVE  OnceInv'
  <2>1. /\ UNCHANGED <<jar, store, ended, codes>>
        /\ \A i \in Logins : who'[i] = NoOne => who[i] = NoOne
    BY <1>6, LoginAssumption DEF SendTokenLogin, TypeOK, LoginAssumption
  <2>2. /\ \A x \in Tabs \ {t} : tab'[x] = tab[x]
        /\ tab'[t].cookies = jar /\ tab'[t].set = NoneSet
    BY <1>6, RequestTab DEF Requests, Becomes
  <2> QED
    BY <1>1, <1>2, <2>1, <2>2
<1>7. ASSUME NEW t \in Tabs, NEW u \in Users, SignIn(t, u)
      PROVE  OnceInv'
  <2>1. /\ UNCHANGED <<jar, store, ended>> /\ codes' = codes \cup {tab[t].login}
        /\ \A i \in Logins : who'[i] = NoOne => who[i] = NoOne
        /\ who[tab[t].login] = NoOne
    BY <1>7, LoginAssumption DEF SignIn, TypeOK, LoginAssumption, AwayInv, Away
  <2>2. /\ \A x \in Tabs \ {t} : tab'[x] = tab[x]
        /\ tab'[t].cookies = jar /\ tab'[t].set = NoneSet
    BY <1>7, RequestTab DEF Requests, Becomes
  <2> QED
    BY <1>1, <1>2, <2>1, <2>2
<1>8. ASSUME NEW t \in Tabs, NEW set \in SetCookies, Answers(t, set, "idle"),
             SessionIn(set) = 0, UNCHANGED <<jar, ended, who>>,
             codes' \subseteq codes, store' \subseteq store
      PROVE  OnceInv'
  <2>1. /\ \A x \in Tabs \ {t} : tab'[x] = tab[x]
        /\ tab'[t].cookies = tab[t].cookies /\ tab'[t].set = set
    BY <1>8, AnswersTab DEF Becomes
  <2> QED
    BY <1>1, <1>8, <2>1
<1>9. ASSUME NEW t \in Tabs, CallbackRefused(t) \/ TokenRefused(t)
      PROVE  OnceInv'
  BY <1>2, <1>8, <1>9, HeaderTypes DEF CallbackRefused, TokenRefused
<1>10. ASSUME NEW t \in Tabs, NEW ok \in BOOLEAN, HandleTokenLogin(t, ok)
       PROVE  OnceInv'
  BY <1>0, <1>2, <1>8, <1>10, HeaderTypes DEF HandleTokenLogin, clearSession, Delete
(* The session of a code that is used comes into being here, once. *)
<1>11. ASSUME NEW t \in Tabs, NEW set \in SetCookies, Answers(t, set, "idle"),
              SessionIn(set) \in {0, tab[t].login}, UNCHANGED <<jar, ended, who>>,
              tab[t].login \in codes, codes' = codes \ {tab[t].login},
              store' \subseteq store \cup {tab[t].login}
       PROVE  OnceInv'
  <2>1. /\ \A x \in Tabs \ {t} : tab'[x] = tab[x]
        /\ tab'[t].cookies = tab[t].cookies /\ tab'[t].set = set
    BY <1>11, AnswersTab DEF Becomes
  <2>2. who[tab[t].login] # NoOne /\ tab[t].login \notin ended
    BY <1>11 DEF AwayInv, OnceInv, Unseen, TypeOK
  <2>3. ASSUME NEW i \in Logins, i \in codes' \/ who'[i] = NoOne
        PROVE  Unseen(i)'
    <3>1. i # tab[t].login /\ Unseen(i)
      BY <1>11, <2>2, <2>3 DEF OnceInv
    <3> QED
      BY <1>0, <1>11, <2>1, <3>1 DEF Unseen
  <2> QED
    BY <1>11, <2>2, <2>3 DEF OnceInv
<1>12. ASSUME NEW t \in Tabs, CallbackFails(t)
       PROVE  OnceInv'
  <2>1. /\ ClearTemporary \in SetCookies /\ Answers(t, ClearTemporary, "idle")
        /\ UNCHANGED <<jar, ended, who>>
    BY <1>12, HeaderTypes DEF CallbackFails, Exchange
  <2>2. CASE UNCHANGED <<codes, store>>
    BY <1>2, <1>8, <2>1, <2>2
  <2>3. CASE /\ tab[t].login \in codes /\ codes' = codes \ {tab[t].login}
             /\ store' \subseteq store \cup {tab[t].login}
    BY <1>2, <1>11, <2>1, <2>3
  <2> QED
    BY <1>12, <2>2, <2>3 DEF CallbackFails, Create
<1>13. ASSUME NEW t \in Tabs, CallbackSucceeds(t)
       PROVE  OnceInv'
  <2>1. /\ SessionSet(tab[t].login) \in SetCookies
        /\ SessionIn(SessionSet(tab[t].login)) = tab[t].login
    BY <1>0, <1>2, HeaderTypes
  <2> QED
    BY <1>11, <1>13, <2>1 DEF CallbackSucceeds, Exchange, Create
<1>14. ASSUME NEW t \in Tabs, NEW ok \in BOOLEAN, HandleLogout(t, ok)
       PROVE  OnceInv'
  <2> DEFINE s == tab[t].cookies["session"]
  <2>1. /\ \A x \in Tabs \ {t} : tab'[x] = tab[x]
        /\ tab'[t].cookies = tab[t].cookies /\ tab'[t].set = LogoutSet
    BY <1>14, AnswersTab, HeaderTypes DEF HandleLogout, Becomes
  <2>2. UNCHANGED <<jar, who, codes>>
    BY <1>14 DEF HandleLogout
  <2>3. \/ store' = store \ {s} /\ ended' \subseteq ended \cup {s}
        \/ store' = store /\ ended' = ended
    BY <1>14 DEF HandleLogout, clearSession, Delete
  <2>4. ASSUME NEW i \in Logins, i \in codes' \/ who'[i] = NoOne
        PROVE  Unseen(i)'
    <3>1. Unseen(i)
      BY <2>2, <2>4 DEF OnceInv
    <3> QED
      BY <1>0, <1>2, <2>1, <2>2, <2>3, <3>1 DEF Unseen
  <2> QED
    BY <2>3, <2>4 DEF OnceInv
<1>15. ASSUME NEW t \in Tabs, ResponseArrives(t)
       PROVE  OnceInv'
  <2>1. /\ \A x \in Tabs \ {t} : tab'[x] = tab[x]
        /\ tab'[t].cookies["session"] = 0 /\ SessionIn(tab'[t].set) = 0
    BY <1>2, <1>15, ArrivesTab, NoCookiesType DEF Becomes
  <2>2. jar'["session"] \in {jar["session"], SessionIn(tab[t].set)}
    BY <1>0, <1>15, ArrivesTab, AppliedJar
  <2>3. UNCHANGED <<who, codes, store, ended>>
    BY <1>15 DEF ResponseArrives
  <2> QED
    BY <1>0, <2>1, <2>2, <2>3 DEF OnceInv, Unseen
<1>16. CASE /\ UNCHANGED <<tab, who, codes, ended>> /\ store' \subseteq store
            /\ jar'["session"] = jar["session"]
  BY <1>16 DEF OnceInv, Unseen
<1>17. CASE \/ \E i \in Logins : SessionExpires(i) \/ TokenExpires(i)
            \/ cleanup \/ UNCHANGED vars
  BY <1>16, <1>17 DEF SessionExpires, TokenExpires, cleanup, vars
<1>18. CASE TemporaryCookiesExpire
  BY <1>0, <1>16, <1>18 DEF TemporaryCookiesExpire, Jar, Cookies
<1> QED
  BY <1>3, <1>4, <1>5, <1>6, <1>7, <1>9, <1>10, <1>12, <1>13, <1>14, <1>15, <1>17, <1>18
     DEF Next

-----------------------------------------------------------------------------
(* The invariants hold before the first request. *)
LEMMA Initial ==
    Init => /\ AwayInv /\ PairInv /\ CodeMatchesVerifier
            /\ SessionInv /\ QuietInv /\ OnceInv
<1> SUFFICES ASSUME Init
             PROVE  /\ AwayInv /\ PairInv /\ CodeMatchesVerifier
                    /\ SessionInv /\ QuietInv /\ OnceInv
  OBVIOUS
<1>1. 0 \in Ids /\ 0 \notin Logins
  BY LoginAssumption DEF LoginAssumption, Ids, Logins
<1>2. \A t \in Tabs : /\ tab[t].stage = "idle" /\ tab[t].cookies = NoCookies
                      /\ tab[t].set = NoneSet
  <2>1. \A t \in Tabs : tab[t] = TabState("idle", 0, NoCookies, NoneSet, "idle")
    BY DEF Init, Waits
  <2> QED
    BY <1>1, <2>1, TabFields, NoCookiesType, HeaderTypes DEF Stages
<1>3. SessionIn(NoneSet) = 0
  BY DEF SessionIn, NoneSet
<1> QED
  BY <1>1, <1>2, <1>3, NoCookiesType
     DEF Init, AwayInv, Away, PairInv, CodeMatchesVerifier, SessionInv, QuietInv, OnceInv, Unseen

(* Type correctness, and that whoever is sent to the IdP has a login of    *)
(* its own.                                                                *)
THEOREM TypeCorrect == Spec => [](TypeOK /\ AwayInv)
<1>1. Init => TypeOK /\ AwayInv
  BY TypeInitial, Initial
<1>2. (TypeOK /\ AwayInv) /\ [Next]_vars => (TypeOK /\ AwayInv)'
  BY TypeStep, AwayStep
<1> QED
  BY <1>1, <1>2, PTL DEF Spec

(* However many tabs log in at the same time and however their responses   *)
(* overwrite each other's cookies, HandleCallback sends a code only with   *)
(* the verifier that belongs to it.                                        *)
THEOREM CodesMatch == Spec => []CodeMatchesVerifier
<1>1. Init => PairInv /\ CodeMatchesVerifier
  BY Initial
<1>2. TypeOK /\ (PairInv /\ CodeMatchesVerifier) /\ [Next]_vars
        => (PairInv /\ CodeMatchesVerifier)'
  BY PairStep
<1> QED
  BY <1>1, <1>2, TypeCorrect, PTL DEF Spec

(* A logout leaves no credential behind: neither cookie names anyone until *)
(* the response of another login arrives, and a session that was ended is  *)
(* never created again, since its code has been used.                      *)
THEOREM LogoutIsFinal == Spec => []LogoutLeavesNothing
<1>1. Init => QuietInv /\ OnceInv
  BY Initial
<1>2. TypeOK /\ AwayInv /\ (QuietInv /\ OnceInv) /\ [Next]_vars => (QuietInv /\ OnceInv)'
  BY QuietStep, OnceStep
<1>3. QuietInv /\ OnceInv => LogoutLeavesNothing
  BY DEF QuietInv, OnceInv, LogoutLeavesNothing, Authenticate, SessionUser, ShownUser,
         getSession, Get, tokenClaimsFromCookie
<1> QED
  BY <1>1, <1>2, <1>3, TypeCorrect, PTL DEF Spec

(* Requests are those of the user of the login that completed last, as     *)
(* long as it is good: sessionCookieAuthenticator, SessionMiddleware and   *)
(* HandleSession agree, whatever cookies earlier logins have left.         *)
THEOREM LatestWins == Spec => []LatestLoginWins
<1>1. Init => SessionInv
  BY Initial
<1>2. TypeOK /\ SessionInv /\ [Next]_vars => SessionInv'
  BY SessionStep
<1>3. SessionInv => LatestLoginWins
  BY DEF SessionInv, LatestLoginWins, Authenticate, SessionUser, ShownUser,
         getSession, Get, tokenClaimsFromCookie
<1> QED
  BY <1>1, <1>2, <1>3, TypeCorrect, PTL DEF Spec
=============================================================================
