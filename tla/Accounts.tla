------------------------------ MODULE Accounts ------------------------------
(***************************************************************************)
(* Accounts, browser sessions and API keys: the OIDC login of              *)
(* auth/oidc_client.go, the administration of users in users/api.go, and   *)
(* the creation and the use of keys in apikeys.  The handlers run          *)
(* concurrently and every SQL statement is a step of its own: what a       *)
(* handler does is read, compute and write back without a transaction.     *)
(*                                                                         *)
(* Rows of the users table are never removed and each belongs to the OIDC  *)
(* identity (issuer, subject) that created it, so the identity stands for  *)
(* the row's id.  The display name only matters in that a change of it     *)
(* makes a login write the row.  Of the keys of a user only the number of  *)
(* active ones is kept.                                                    *)
(***************************************************************************)
EXTENDS Integers, FiniteSets

CONSTANTS
    Identities,  \* OIDC identities
    EmailsOf,    \* [Identities -> sets of e-mail addresses the IdP may claim]
    AdminEmail,  \* cfg.Auth.AdminEmail, or Unset
    MaxKeys,     \* cfg.APIKeys.MaxKeysPerUser, > 0
    MaxActive,   \* bound on the active keys of one user
    MaxRequests, \* bound on the requests that are begun
    Workers,     \* handlers that run at the same time
    Patches      \* the bodies of PATCH requests that administrators send

Unset == "unset"  \* the empty string

Role == {"user", "admin"}
Status == {"active", "suspended", "deleted"}
NoRow == [email |-> Unset, role |-> Unset, status |-> Unset]

(* The body of a PATCH: an empty field is left alone. *)
Patch == [role : Role \cup {Unset}, status : Status \cup {Unset}]
NoPatch == [role |-> Unset, status |-> Unset]

ASSUME AccountsAssumption ==
    /\ MaxKeys \in Nat \ {0} /\ MaxActive \in Nat /\ MaxRequests \in Nat
    /\ IsFiniteSet(Workers) /\ Identities # {}
    /\ Patches \subseteq Patch

VARIABLES
    users,     \* the users table, by identity: e-mail, role and status
    sessions,  \* SessionStore: user and isAdmin of the live sessions
    keys,      \* number of active rows of api_keys, by user
    pc,        \* what each handler does next
    target,    \* id of the user a handler holds
    copy,      \* its in-memory User
    asked,     \* the body of the request it serves
    todo,      \* ids that BulkUpdate has yet to update
    begun,     \* number of requests so far (a bound)
    overtaken  \* handlers during which another one wrote a row (observer)

table == <<users, sessions, keys>>
local == <<target, copy, asked, todo>>
vars == <<table, pc, local, begun, overtaken>>

Somebody == CHOOSE i \in Identities : TRUE

Init ==
    /\ users = [i \in Identities |-> NoRow]
    /\ sessions = {}
    /\ keys = [i \in Identities |-> 0]
    /\ pc = [w \in Workers |-> "idle"]
    /\ target = [w \in Workers |-> Somebody]
    /\ copy = [w \in Workers |-> NoRow]
    /\ asked = [w \in Workers |-> NoPatch]
    /\ todo = [w \in Workers |-> {}]
    /\ begun = 0
    /\ overtaken = {}

Exists(i) == users[i] # NoRow

(* The unique index on users(email). *)
EmailFree(i, email) == \A j \in Identities \ {i} : Exists(j) => users[j].email # email

(* A handler that is free takes a request. *)
Begin(w) ==
    /\ pc[w] = "idle"
    /\ begun < MaxRequests
    /\ begun' = begun + 1

(* The handler goes on at l, holding the row u of user i ... *)
Goto(w, l, i, u) ==
    /\ pc' = [pc EXCEPT ![w] = l]
    /\ target' = [target EXCEPT ![w] = i]
    /\ copy' = [copy EXCEPT ![w] = u]

(* ... or returns. *)
Return(w) ==
    /\ Goto(w, "idle", Somebody, NoRow)
    /\ asked' = [asked EXCEPT ![w] = NoPatch]
    /\ todo' = [todo EXCEPT ![w] = {}]

-----------------------------------------------------------------------------
(* OIDC login *)

(* GetByOIDC.  A user whose e-mail or name changed at the IdP is written   *)
(* back whole.                                                             *)
LoginKnown(w, i, email, renamed) ==
    /\ Begin(w) /\ Exists(i)
    /\ Goto(w, IF users[i].email # email \/ renamed THEN "update" ELSE "promote",
            i, [users[i] EXCEPT !.email = email])
    /\ UNCHANGED <<table, asked, todo>>

LoginUnknown(w, i, email) ==
    /\ Begin(w) /\ ~Exists(i)
    /\ Goto(w, "byEmail", i, [email |-> email, role |-> "user", status |-> "active"])
    /\ UNCHANGED <<table, asked, todo>>

(* GetByEmail: the account of another provider with the same e-mail. *)
LoginByEmail(w) ==
    /\ pc[w] = "byEmail"
    /\ \/ \E j \in Identities :
            /\ Exists(j) /\ users[j].email = copy[w].email
            /\ Goto(w, "promote", j, users[j])
       \/ /\ \A j \in Identities : Exists(j) => users[j].email # copy[w].email
          /\ Goto(w, "create", target[w], copy[w])
    /\ UNCHANGED <<table, asked, todo, begun>>

(* Create fails on the unique indexes if another login was faster. *)
LoginCreate(w) ==
    /\ pc[w] = "create"
    /\ IF ~Exists(target[w]) /\ EmailFree(target[w], copy[w].email)
       THEN /\ users' = [users EXCEPT ![target[w]] = copy[w]]
            /\ Goto(w, "promote", target[w], copy[w])
            /\ UNCHANGED <<asked, todo>>
       ELSE Return(w) /\ UNCHANGED users
    /\ UNCHANGED <<sessions, keys, begun>>

(* Update: e-mail, name, role and status, all from memory. *)
LoginUpdate(w) ==
    /\ pc[w] = "update"
    /\ IF EmailFree(target[w], copy[w].email)
       THEN /\ users' = [users EXCEPT ![target[w]] = copy[w]]
            /\ Goto(w, "promote", target[w], copy[w])
            /\ UNCHANGED <<asked, todo>>
       ELSE Return(w) /\ UNCHANGED users
    /\ UNCHANGED <<sessions, keys, begun>>

(* Faulty variant: whoever logs in is promoted. *)
LoginPromoteAnyone(w) ==
    /\ pc[w] = "promote"
    /\ users' = [users EXCEPT ![target[w]].role = "admin"]
    /\ Goto(w, "session", target[w], [copy[w] EXCEPT !.role = "admin"])
    /\ UNCHANGED <<sessions, keys, asked, todo, begun>>

IsAdminEmail(email) == AdminEmail # Unset /\ email = AdminEmail

(* UpdateRole for the configured administrator; a failure of it is only    *)
(* logged.                                                                 *)
LoginPromote(w) ==
    /\ pc[w] = "promote"
    /\ \/ /\ IsAdminEmail(copy[w].email) /\ copy[w].role = "user"
          /\ users' = [users EXCEPT ![target[w]].role = "admin"]
          /\ Goto(w, "session", target[w], [copy[w] EXCEPT !.role = "admin"])
       \/ /\ Goto(w, "session", target[w], copy[w])
          /\ UNCHANGED users
    /\ UNCHANGED <<sessions, keys, asked, todo, begun>>

(* The session keeps the role that the user had when it was read. *)
LoginSession(w) ==
    /\ pc[w] = "session"
    /\ sessions' = IF copy[w].status = "active"
                   THEN sessions \cup {[user |-> target[w],
                                        isAdmin |-> copy[w].role = "admin"]}
                   ELSE sessions
    /\ Return(w)
    /\ UNCHANGED <<users, keys, begun>>

(* clearSession, or the end of the session's TTL. *)
EndSession(s) ==
    /\ s \in sessions
    /\ sessions' = sessions \ {s}
    /\ UNCHANGED <<users, keys, pc, local, begun>>

-----------------------------------------------------------------------------
(* Administration *)

requireAdmin(s) == s.isAdmin \/ users[s.user].role = "admin"

(* The row with the requested changes applied. *)
Patched(u, p) ==
    [u EXCEPT !.role = IF p.role = Unset THEN @ ELSE p.role,
              !.status = IF p.status = Unset THEN @ ELSE p.status]

(* HandleUpdateUser: only a change of role meets checkLastAdmin, and only  *)
(* one's own role is protected.  Here and in HandleDeleteUser the role     *)
(* that requireAdmin looks up for a session without one is read together   *)
(* with the target's row; a requester who was an administrator only for    *)
(* the first of the two reads acts as one whose session still says so.     *)
UpdateUser(w, s, i, p) ==
    /\ Begin(w)
    /\ s \in sessions /\ requireAdmin(s) /\ Exists(i)
    /\ ~(p.role = "user" /\ s.user = i)
    /\ Goto(w, IF users[i].role = "admin" /\ p.role = "user" THEN "check" ELSE "write",
            i, Patched(users[i], p))
    /\ asked' = [asked EXCEPT ![w] = p]
    /\ UNCHANGED <<table, todo>>

(* HandleDeleteUser: a soft delete, never of oneself. *)
DeleteUser(w, s, i) ==
    /\ Begin(w)
    /\ s \in sessions /\ requireAdmin(s) /\ s.user # i /\ Exists(i)
    /\ Goto(w, IF users[i].role = "admin" THEN "check" ELSE "write",
            i, [users[i] EXCEPT !.status = "deleted"])
    /\ asked' = [asked EXCEPT ![w] = [NoPatch EXCEPT !.status = "deleted"]]
    /\ UNCHANGED <<table, todo>>

ActiveAdmin(i) == users[i].role = "admin" /\ users[i].status = "active"

(* Faulty variant: the administrator in question is counted too. *)
checkLastAdminAny(w) ==
    /\ pc[w] = "check"
    /\ IF \E j \in Identities : ActiveAdmin(j)
       THEN Goto(w, "checked", target[w], copy[w]) /\ UNCHANGED <<asked, todo>>
       ELSE Return(w)
    /\ UNCHANGED <<table, begun>>

checkLastAdmin(w) ==
    /\ pc[w] = "check"
    /\ IF \E j \in Identities \ {target[w]} : ActiveAdmin(j)
       THEN Goto(w, "checked", target[w], copy[w]) /\ UNCHANGED <<asked, todo>>
       ELSE Return(w)
    /\ UNCHANGED <<table, begun>>

(* Store.Update writes the whole row; it fails on the unique e-mail.       *)
Update(w) ==
    /\ pc[w] \in {"write", "checked"}
    /\ users' = IF EmailFree(target[w], copy[w].email)
                THEN [users EXCEPT ![target[w]] = copy[w]] ELSE users
    /\ Return(w)
    /\ UNCHANGED <<sessions, keys, begun>>

(* HandleBulkUpdateUsers: none of the ids is the administrator's own. *)
BulkUpdate(w, s, ids, p) ==
    /\ Begin(w) /\ ids # {}
    /\ s \in sessions /\ requireAdmin(s) /\ s.user \notin ids
    /\ pc' = [pc EXCEPT ![w] = "bulk"]
    /\ asked' = [asked EXCEPT ![w] = p]
    /\ todo' = [todo EXCEPT ![w] = ids]
    /\ UNCHANGED <<table, target, copy>>

(* The loop: GetByID, and the end of it at the first id that is unknown.   *)
BulkRead(w) ==
    /\ pc[w] = "bulk" /\ todo[w] # {}
    /\ \E i \in todo[w] :
         IF Exists(i)
         THEN /\ Goto(w, "bulkWrite", i, Patched(users[i], asked[w]))
              /\ todo' = [todo EXCEPT ![w] = @ \ {i}]
              /\ UNCHANGED asked
         ELSE Return(w)
    /\ UNCHANGED <<table, begun>>

(* UPDATE of role and status, both of them, by id. *)
WithRights(u, v) == [u EXCEPT !.role = v.role, !.status = v.status]

BulkWrite(w) ==
    /\ pc[w] = "bulkWrite"
    /\ users' = [users EXCEPT ![target[w]] = WithRights(@, copy[w])]
    /\ IF todo[w] = {} THEN Return(w)
       ELSE Goto(w, "bulk", Somebody, NoRow) /\ UNCHANGED <<asked, todo>>
    /\ UNCHANGED <<sessions, keys, begun>>

-----------------------------------------------------------------------------
(* API keys *)

(* resolveAppUserID: a session names the account, a JWT or an API key the  *)
(* identity that created it; its status is not looked at.                  *)
resolveAppUserID(i) == Exists(i)

(* Faulty variant: off by one. *)
CreateKeyOneMore(w, i) ==
    /\ Begin(w) /\ resolveAppUserID(i)
    /\ keys[i] <= MaxKeys
    /\ Goto(w, "insert", i, NoRow)
    /\ UNCHANGED <<table, asked, todo>>

(* createKey: the active keys are counted ... *)
CreateKey(w, i) ==
    /\ Begin(w) /\ resolveAppUserID(i)
    /\ keys[i] < MaxKeys
    /\ Goto(w, "insert", i, NoRow)
    /\ UNCHANGED <<table, asked, todo>>

(* ... and the new one is inserted. *)
InsertKey(w) ==
    /\ pc[w] = "insert"
    /\ keys[target[w]] < MaxActive
    /\ keys' = [keys EXCEPT ![target[w]] = @ + 1]
    /\ Return(w)
    /\ UNCHANGED <<users, sessions, begun>>

(* revokeKey and deleteKey: one statement, by id and owner. *)
RevokeKey(i) ==
    /\ resolveAppUserID(i) /\ keys[i] > 0
    /\ keys' = [keys EXCEPT ![i] = @ - 1]
    /\ UNCHANGED <<users, sessions, pc, local, begun>>

(* Faulty variant: a suspended owner's keys go on working. *)
AuthenticateAnyStatus(w, i) ==
    /\ Begin(w)
    /\ keys[i] > 0
    /\ Goto(w, "serving", i, users[i])
    /\ UNCHANGED <<table, asked, todo>>

(* Authenticate: one statement reads the key, active and not expired, and  *)
(* its owner's row.  The request is served with the role that this row     *)
(* had; the time of last use is written meanwhile.                         *)
Authenticate(w, i) ==
    /\ Begin(w)
    /\ keys[i] > 0
    /\ users[i].status = "active"
    /\ Goto(w, "serving", i, users[i])
    /\ UNCHANGED <<table, asked, todo>>

Served(w) ==
    /\ pc[w] = "serving"
    /\ Return(w)
    /\ UNCHANGED <<table, begun>>

(* A statement fails, or the client is gone and its context cancelled. *)
Fail(w) ==
    /\ pc[w] # "idle"
    /\ Return(w)
    /\ UNCHANGED <<table, begun>>

Login(w) ==
    \/ \E i \in Identities : \E e \in EmailsOf[i] :
         \/ \E renamed \in BOOLEAN : LoginKnown(w, i, e, renamed)
         \/ LoginUnknown(w, i, e)
    \/ LoginByEmail(w) \/ LoginCreate(w) \/ LoginUpdate(w)
    \/ LoginPromote(w) \/ LoginSession(w)

Administer(w) ==
    \/ \E s \in sessions :
         \/ \E i \in Identities :
              \/ \E p \in Patches : UpdateUser(w, s, i, p)
              \/ DeleteUser(w, s, i)
         \/ \E ids \in SUBSET Identities, p \in Patches : BulkUpdate(w, s, ids, p)
    \/ checkLastAdmin(w) \/ Update(w) \/ BulkRead(w) \/ BulkWrite(w)

UseKeys(w) ==
    \/ InsertKey(w) \/ Served(w)
    \/ \E i \in Identities : CreateKey(w, i) \/ Authenticate(w, i)

(* No request is left to begin and none is under way. *)
BoundReached ==
    /\ begun = MaxRequests /\ \A w \in Workers : pc[w] = "idle"
    /\ UNCHANGED vars

(* Handlers under way while another one changes a row. *)
Observe ==
    overtaken' = {w \in Workers :
        /\ pc'[w] # "idle"
        /\ w \in overtaken \/ (users' # users /\ pc'[w] = pc[w])}

Step ==
    \/ \E w \in Workers : Login(w) \/ Administer(w) \/ UseKeys(w) \/ Fail(w)
    \/ \E s \in sessions : EndSession(s)
    \/ \E i \in Identities : RevokeKey(i)

Next == (Step /\ Observe) \/ BoundReached

Spec == Init /\ [][Next]_vars

Holds(w, i) == pc[w] # "idle" /\ target[w] = i

Serves(w, i) == pc[w] = "serving" /\ target[w] = i

(* A request of an administrator that asks for r is under way for user i. *)
AskedFor(i, r) ==
    \E w \in Workers :
      /\ r \in {asked[w].role, asked[w].status}
      /\ i \in todo[w] \cup {target[w]}

(* User i is suspended or deleted, and so is it for every handler that     *)
(* has read the row and might write it or open a session.                  *)
Barred(i) ==
    /\ Exists(i) /\ users[i].status # "active"
    /\ \A w \in Workers :
         Holds(w, i) /\ ~Serves(w, i) => copy[w].status # "active"

(* What a step may do to a user who is barred. *)
BarredKept(i) ==
    /\ Barred(i)' \/ AskedFor(i, "active")'
    /\ {s \in sessions' : s.user = i} \subseteq sessions
    /\ \A w \in Workers : Serves(w, i)' => Serves(w, i)

(* A suspension holds.  Once no handler that read the row before is under  *)
(* way, nothing but an administrator's PATCH makes the user active again:  *)
(* not a login that updates the e-mail, not the promotion of the           *)
(* configured administrator, not a write of the role.  Until then the user *)
(* gets no session and no request with one of the user's API keys begins,  *)
(* also with keys created after the suspension.                            *)
BarredUntilReactivated ==
    [][\A i \in Identities : Barred(i) => BarredKept(i)]_vars

(* User i has no administrator's rights: not in the table, not in a        *)
(* session, not in a request with an API key, not in what a handler is     *)
(* about to write, and not by e-mail.                                      *)
Plain(i) ==
    /\ users[i].role # "admin" /\ ~IsAdminEmail(users[i].email)
    /\ \A s \in sessions : s.user = i => ~s.isAdmin
    /\ \A w \in Workers :
         Holds(w, i) => copy[w].role # "admin" /\ ~IsAdminEmail(copy[w].email)

(* What a step may do to a user who has no rights. *)
PlainKept(i) ==
    \/ Plain(i)' \/ AskedFor(i, "admin")'
    \/ IsAdminEmail(users[i].email)'
    \/ \E w \in Workers : Holds(w, i)' /\ IsAdminEmail(copy[w].email)'

(* Rights come from an administrator's PATCH or from the configured        *)
(* address, and those that were taken away do not come back in another way.*)
RightsAreGranted ==
    [][\A i \in Identities : Plain(i) => PlainKept(i)]_vars

SomeAdmin == \E i \in Identities : ActiveAdmin(i)

(* A write that checkLastAdmin does not guard: of a PATCH of the status,   *)
(* of a bulk update, or of a handler whose row or count became old because *)
(* another one wrote in between.                                           *)
Unguarded(w) ==
    /\ pc'[w] # pc[w]
    /\ \/ w \in overtaken
       \/ pc[w] = "write" /\ asked[w].status # Unset
       \/ pc[w] = "bulkWrite"

(* The last active administrator is lost only by an unguarded write.       *)
(* Without concurrency no demotion and no deletion leaves none             *)
(* (HandleUpdateUser, HandleDeleteUser, GetOrCreate).                      *)
LastAdminKept ==
    [][SomeAdmin => SomeAdmin' \/ \E w \in Workers : Unguarded(w)]_vars

(* createKey counts before it inserts: what handlers that run at the same  *)
(* time can add to the limit is one key each, and no sequence of requests  *)
(* adds more.                                                              *)
KeyLimitOvershoot ==
    \A i \in Identities :
      keys[i] + Cardinality({w \in Workers : pc[w] = "insert" /\ target[w] = i})
        <= MaxKeys + Cardinality(Workers) - 1
=============================================================================
