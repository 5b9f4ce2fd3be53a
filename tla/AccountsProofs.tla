--------------------------- MODULE AccountsProofs ---------------------------
(***************************************************************************)
(* Theorems about Accounts, for any number of identities and of handlers   *)
(* that run at the same time.                                              *)
(***************************************************************************)
EXTENDS Accounts, FiniteSetTheorems, TLAPS

Email == UNION {EmailsOf[i] : i \in Identities}
Row == [email : Email, role : Role, status : Status]

(* Handlers that hold no row, and those whose row is in the table. *)
Empty == {"idle", "bulk", "insert"}
Known ==
    {"update", "promote", "session", "check", "checked", "write", "bulkWrite", "serving"}

TypeOK ==
    /\ users \in [Identities -> Row \cup {NoRow}]
    /\ sessions \subseteq [user : Identities, isAdmin : BOOLEAN]
    /\ keys \in [Identities -> Nat]
    /\ pc \in [Workers -> Empty \cup Known \cup {"byEmail", "create"}]
    /\ target \in [Workers -> Identities]
    /\ copy \in [Workers -> Row \cup {NoRow}]
    /\ asked \in [Workers -> Patch]
    /\ todo \in [Workers -> SUBSET Identities]
    /\ overtaken \subseteq Workers

(* A handler that is about to write a row has a whole one, and that of a   *)
(* user who exists, unless it creates the user.                            *)
HandlerInv ==
    \A w \in Workers :
        /\ pc[w] \in Empty <=> copy[w] = NoRow
        /\ pc[w] \in Known => Exists(target[w])

(* The record of a user who does not exist is no row and gives no rights. *)
LEMMA NoRowIsNone ==
    /\ NoRow \notin Row
    /\ NoRow.status # "active" /\ NoRow.role # "admin" /\ ~IsAdminEmail(NoRow.email)
  BY DEF NoRow, Row, Role, Unset, IsAdminEmail

(* There is an identity for an idle handler's target to name. *)
LEMMA SomebodyExists == Somebody \in Identities
  BY AccountsAssumption DEF AccountsAssumption, Somebody

(* What the handlers make of a row is a row, and what they do not mean to  *)
(* change in it stays.                                                     *)
LEMMA Renamed ==
    ASSUME NEW u \in Row, NEW e \in Email
    PROVE  /\ [u EXCEPT !.email = e] \in Row
           /\ [u EXCEPT !.email = e].email = e
           /\ [u EXCEPT !.email = e].role = u.role
           /\ [u EXCEPT !.email = e].status = u.status
  BY DEF Row

(* The promotion of the configured administrator changes the role. *)
LEMMA Promoted ==
    ASSUME NEW u \in Row
    PROVE  /\ [u EXCEPT !.role = "admin"] \in Row
           /\ [u EXCEPT !.role = "admin"].email = u.email
           /\ [u EXCEPT !.role = "admin"].role = "admin"
           /\ [u EXCEPT !.role = "admin"].status = u.status
  BY DEF Row, Role

(* A soft delete changes the status. *)
LEMMA Deleted ==
    ASSUME NEW u \in Row
    PROVE  /\ [u EXCEPT !.status = "deleted"] \in Row
           /\ [u EXCEPT !.status = "deleted"].email = u.email
           /\ [u EXCEPT !.status = "deleted"].role = u.role
           /\ [u EXCEPT !.status = "deleted"].status = "deleted"
  BY DEF Row, Status

(* A PATCH changes what it names. *)
LEMMA PatchedRow ==
    ASSUME NEW u \in Row, NEW p \in Patch
    PROVE  /\ Patched(u, p) \in Row
           /\ Patched(u, p).email = u.email
           /\ Patched(u, p).role = IF p.role = Unset THEN u.role ELSE p.role
           /\ Patched(u, p).status = IF p.status = Unset THEN u.status ELSE p.status
  BY DEF Row, Patch, Role, Status, Patched, Unset

(* A bulk update writes role and status and leaves the e-mail. *)
LEMMA Rewritten ==
    ASSUME NEW u \in Row, NEW v \in Row
    PROVE  /\ WithRights(u, v) \in Row
           /\ WithRights(u, v).email = u.email
           /\ WithRights(u, v).role = v.role
           /\ WithRights(u, v).status = v.status
  BY DEF Row, WithRights

(* A new user is an active user without rights. *)
LEMMA NewUser ==
    ASSUME NEW e \in Email
    PROVE  [email |-> e, role |-> "user", status |-> "active"] \in Row
  BY DEF Row, Role, Status

(* The requests' bodies are patches. *)
LEMMA PatchTypes ==
    /\ NoPatch \in Patch
    /\ [NoPatch EXCEPT !.status = "deleted"] \in Patch
    /\ Patches \subseteq Patch
  BY AccountsAssumption DEF AccountsAssumption, NoPatch, Patch, Role, Status, Unset

(* What an IdP may claim is an e-mail address. *)
LEMMA EmailTypes == \A i \in Identities : EmailsOf[i] \subseteq Email
  BY DEF Email

(* Nobody exists and no handler holds a row at the start. *)
LEMMA TypeInitial == Init => TypeOK /\ HandlerInv
  BY SomebodyExists, PatchTypes DEF Init, TypeOK, HandlerInv, Empty, Known

(* Every statement of every handler keeps the types and what handlers hold. *)
LEMMA TypeStep == TypeOK /\ HandlerInv /\ [Next]_vars => TypeOK' /\ HandlerInv'
<1> SUFFICES ASSUME TypeOK, HandlerInv, [Next]_vars
             PROVE  TypeOK' /\ HandlerInv'
  OBVIOUS
<1> USE SomebodyExists, NoRowIsNone, EmailTypes, PatchTypes
    DEF TypeOK, HandlerInv, Exists, Empty, Known, Observe, table, local
<1>1. ASSUME NEW w \in Workers, NEW i \in Identities, NEW e \in EmailsOf[i],
             NEW b \in BOOLEAN, LoginKnown(w, i, e, b), Observe
      PROVE  TypeOK' /\ HandlerInv'
  BY <1>1, Renamed DEF LoginKnown, Begin, Goto
<1>2. ASSUME NEW w \in Workers, NEW i \in Identities,
             NEW e \in EmailsOf[i], LoginUnknown(w, i, e), Observe
      PROVE  TypeOK' /\ HandlerInv'
  BY <1>2, NewUser DEF LoginUnknown, Begin, Goto
<1>3. ASSUME NEW w \in Workers, LoginByEmail(w), Observe
      PROVE  TypeOK' /\ HandlerInv'
  BY <1>3 DEF LoginByEmail, Goto
<1>4. ASSUME NEW w \in Workers, LoginCreate(w), Observe
      PROVE  TypeOK' /\ HandlerInv'
  BY <1>4 DEF LoginCreate, Goto, Return
<1>5. ASSUME NEW w \in Workers, LoginUpdate(w), Observe
      PROVE  TypeOK' /\ HandlerInv'
  BY <1>5 DEF LoginUpdate, Goto, Return
<1>6. ASSUME NEW w \in Workers, LoginPromote(w), Observe
      PROVE  TypeOK' /\ HandlerInv'
  BY <1>6, Promoted DEF LoginPromote, Goto
<1>7. ASSUME NEW w \in Workers, LoginSession(w), Observe
      PROVE  TypeOK' /\ HandlerInv'
  <2>1. [user |-> target[w], isAdmin |-> copy[w].role = "admin"]
          \in [user : Identities, isAdmin : BOOLEAN]
    OBVIOUS
  <2> QED
    BY <1>7, <2>1 DEF LoginSession, Goto, Return
<1>8. ASSUME NEW w \in Workers, NEW s \in sessions, NEW i \in Identities,
             NEW p \in Patches, UpdateUser(w, s, i, p), Observe
      PROVE  TypeOK' /\ HandlerInv'
  <2>1. Patched(users[i], p) \in Row
    BY <1>8, PatchedRow DEF UpdateUser
  <2> QED
    BY <1>8, <2>1 DEF UpdateUser, Begin, Goto
<1>9. ASSUME NEW w \in Workers, NEW s \in sessions,
             NEW i \in Identities, DeleteUser(w, s, i), Observe
      PROVE  TypeOK' /\ HandlerInv'
  BY <1>9, Deleted DEF DeleteUser, Begin, Goto
<1>10. ASSUME NEW w \in Workers, checkLastAdmin(w), Observe
      PROVE  TypeOK' /\ HandlerInv'
  BY <1>10 DEF checkLastAdmin, Goto, Return
<1>11. ASSUME NEW w \in Workers, Update(w), Observe
      PROVE  TypeOK' /\ HandlerInv'
  BY <1>11 DEF Update, Goto, Return
<1>12. ASSUME NEW w \in Workers, NEW s \in sessions, NEW ids \in SUBSET Identities,
             NEW p \in Patches, BulkUpdate(w, s, ids, p), Observe
      PROVE  TypeOK' /\ HandlerInv'
  BY <1>12 DEF BulkUpdate, Begin
<1>13. ASSUME NEW w \in Workers, BulkRead(w), Observe
      PROVE  TypeOK' /\ HandlerInv'
  <2>1. CASE Return(w)
    BY <1>13, <2>1 DEF BulkRead, Goto, Return
  <2>2. ASSUME NEW i \in todo[w], Exists(i), UNCHANGED asked,
               Goto(w, "bulkWrite", i, Patched(users[i], asked[w])),
               todo' = [todo EXCEPT ![w] = @ \ {i}]
        PROVE  TypeOK' /\ HandlerInv'
    <3>1. Patched(users[i], asked[w]) \in Row
      BY <2>2, PatchedRow
    <3> QED
      BY <1>13, <2>2, <3>1 DEF BulkRead, Goto
  <2> QED
    BY <1>13, <2>1, <2>2 DEF BulkRead
<1>14. ASSUME NEW w \in Workers, BulkWrite(w), Observe
      PROVE  TypeOK' /\ HandlerInv'
  <2>1. users[target[w]] \in Row /\ copy[w] \in Row
    BY <1>14 DEF BulkWrite
  <2>2. WithRights(users[target[w]], copy[w]) \in Row
    BY <2>1, Rewritten
  <2> QED
    BY <1>14, <2>1, <2>2 DEF BulkWrite, Goto, Return
<1>15. ASSUME NEW w \in Workers, NEW i \in Identities, CreateKey(w, i), Observe
      PROVE  TypeOK' /\ HandlerInv'
  BY <1>15 DEF CreateKey, Begin, Goto
<1>16. ASSUME NEW w \in Workers, InsertKey(w), Observe
      PROVE  TypeOK' /\ HandlerInv'
  BY <1>16 DEF InsertKey, Goto, Return
<1>17. ASSUME NEW w \in Workers, NEW i \in Identities, Authenticate(w, i), Observe
      PROVE  TypeOK' /\ HandlerInv'
  <2>1. Exists(i)
    BY <1>17 DEF Authenticate, NoRow, Unset
  <2> QED
    BY <1>17, <2>1 DEF Authenticate, Begin, Goto
<1>18. ASSUME NEW w \in Workers, Served(w) \/ Fail(w), Observe
      PROVE  TypeOK' /\ HandlerInv'
  BY <1>18 DEF Served, Fail, Goto, Return
<1>19. ASSUME NEW s \in sessions, EndSession(s), Observe
      PROVE  TypeOK' /\ HandlerInv'
  BY <1>19 DEF EndSession
<1>20. ASSUME NEW i \in Identities, RevokeKey(i), Observe
      PROVE  TypeOK' /\ HandlerInv'
  BY <1>20 DEF RevokeKey
<1>21. CASE UNCHANGED vars
  BY <1>21 DEF vars
<1> HIDE SomebodyExists, NoRowIsNone, EmailTypes, PatchTypes
    DEF TypeOK, HandlerInv, Exists, Empty, Known, Observe, table, local
<1> QED
  BY <1>1, <1>2, <1>3, <1>4, <1>5, <1>6, <1>7, <1>8, <1>9, <1>10, <1>11,
     <1>12, <1>13, <1>14, <1>15, <1>16, <1>17, <1>18, <1>19, <1>20, <1>21
     DEF Next, Step, Login, Administer, UseKeys, BoundReached

(* No statement of a handler reactivates a barred user, unless asked. *)
LEMMA BarredStep ==
    TypeOK /\ HandlerInv /\ [Next]_vars => \A i \in Identities : Barred(i) => BarredKept(i)
<1> SUFFICES ASSUME TypeOK, HandlerInv, [Next]_vars, NEW i \in Identities
             PROVE  Barred(i) => BarredKept(i)
  OBVIOUS
<1> USE SomebodyExists, NoRowIsNone, EmailTypes, PatchTypes
    DEF TypeOK, HandlerInv, Exists, Empty, Known, table, local,
        Barred, BarredKept, Holds, Serves, AskedFor
<1>1. ASSUME NEW w \in Workers, NEW j \in Identities, NEW e \in EmailsOf[j],
             NEW b \in BOOLEAN, LoginKnown(w, j, e, b)
      PROVE  Barred(i) => BarredKept(i)
  BY <1>1, Renamed DEF LoginKnown, Begin, Goto
<1>2. ASSUME NEW w \in Workers, NEW j \in Identities,
             NEW e \in EmailsOf[j], LoginUnknown(w, j, e)
      PROVE  Barred(i) => BarredKept(i)
  BY <1>2, NewUser DEF LoginUnknown, Begin, Goto
<1>3. ASSUME NEW w \in Workers, LoginByEmail(w)
      PROVE  Barred(i) => BarredKept(i)
  BY <1>3 DEF LoginByEmail, Goto
<1>4. ASSUME NEW w \in Workers, LoginCreate(w)
      PROVE  Barred(i) => BarredKept(i)
  BY <1>4 DEF LoginCreate, Goto, Return
<1>5. ASSUME NEW w \in Workers, LoginUpdate(w)
      PROVE  Barred(i) => BarredKept(i)
  BY <1>5 DEF LoginUpdate, Goto, Return
<1>6. ASSUME NEW w \in Workers, LoginPromote(w)
      PROVE  Barred(i) => BarredKept(i)
  <2> DEFINE r == [users[target[w]] EXCEPT !.role = "admin"]
             c == [copy[w] EXCEPT !.role = "admin"]
  <2>1. users[target[w]] \in Row /\ copy[w] \in Row
    BY <1>6 DEF LoginPromote
  <2>2. /\ r \in Row /\ r.status = users[target[w]].status
        /\ c \in Row /\ c.status = copy[w].status
    BY <2>1, Promoted
  <2>3. CASE UNCHANGED users
    BY <1>6, <2>1, <2>2, <2>3, ZenonT(40) DEF LoginPromote, Goto
  <2>4. CASE /\ IsAdminEmail(copy[w].email)
             /\ users' = [users EXCEPT ![target[w]] = r] /\ Goto(w, "session", target[w], c)
    <3> HIDE DEF r, c
    <3> QED
      BY <1>6, <2>1, <2>2, <2>4 DEF LoginPromote, Goto
  <2> QED
    BY <1>6, <2>3, <2>4 DEF LoginPromote
<1>7. ASSUME NEW w \in Workers, LoginSession(w)
      PROVE  Barred(i) => BarredKept(i)
  BY <1>7 DEF LoginSession, Goto, Return
<1>8. ASSUME NEW w \in Workers, NEW s \in sessions, NEW j \in Identities,
             NEW p \in Patches, UpdateUser(w, s, j, p)
      PROVE  Barred(i) => BarredKept(i)
  <2>1. users[j] \in Row
    BY <1>8 DEF UpdateUser
  <2>2. Patched(users[j], p).status = IF p.status = Unset THEN users[j].status ELSE p.status
    BY <2>1, PatchedRow
  <2> QED
    BY <1>8, <2>1, <2>2 DEF UpdateUser, Begin, Goto
<1>9. ASSUME NEW w \in Workers, NEW s \in sessions,
             NEW j \in Identities, DeleteUser(w, s, j)
      PROVE  Barred(i) => BarredKept(i)
  BY <1>9, Deleted DEF DeleteUser, Begin, Goto
<1>10. ASSUME NEW w \in Workers, checkLastAdmin(w)
      PROVE  Barred(i) => BarredKept(i)
  BY <1>10 DEF checkLastAdmin, Goto, Return
<1>11. ASSUME NEW w \in Workers, Update(w)
      PROVE  Barred(i) => BarredKept(i)
  BY <1>11 DEF Update, Goto, Return
<1>12. ASSUME NEW w \in Workers, NEW s \in sessions, NEW ids \in SUBSET Identities,
             NEW p \in Patches, BulkUpdate(w, s, ids, p)
      PROVE  Barred(i) => BarredKept(i)
  BY <1>12 DEF BulkUpdate, Begin
<1>13. ASSUME NEW w \in Workers, BulkRead(w)
      PROVE  Barred(i) => BarredKept(i)
  <2>1. CASE Return(w)
    BY <1>13, <2>1 DEF BulkRead, Goto, Return
  <2>2. ASSUME NEW j \in todo[w], Exists(j), UNCHANGED asked,
               Goto(w, "bulkWrite", j, Patched(users[j], asked[w])),
               todo' = [todo EXCEPT ![w] = @ \ {j}]
        PROVE  Barred(i) => BarredKept(i)
    <3>1. Patched(users[j], asked[w]).status =
            IF asked[w].status = Unset THEN users[j].status ELSE asked[w].status
      BY <2>2, PatchedRow
    <3> QED
      BY <1>13, <2>2, <3>1 DEF BulkRead, Goto
  <2> QED
    BY <1>13, <2>1, <2>2 DEF BulkRead
<1>14. ASSUME NEW w \in Workers, BulkWrite(w)
      PROVE  Barred(i) => BarredKept(i)
  <2> DEFINE r == WithRights(users[target[w]], copy[w])
  <2>1. users[target[w]] \in Row /\ copy[w] \in Row
    BY <1>14 DEF BulkWrite
  <2>2. r \in Row /\ r.status = copy[w].status
    BY <2>1, Rewritten
  <2> QED
    BY <1>14, <2>1, <2>2 DEF BulkWrite, Goto, Return
<1>15. ASSUME NEW w \in Workers, NEW j \in Identities, CreateKey(w, j)
      PROVE  Barred(i) => BarredKept(i)
  BY <1>15 DEF CreateKey, Begin, Goto
<1>16. ASSUME NEW w \in Workers, InsertKey(w)
      PROVE  Barred(i) => BarredKept(i)
  BY <1>16 DEF InsertKey, Goto, Return
<1>17. ASSUME NEW w \in Workers, NEW j \in Identities, Authenticate(w, j)
      PROVE  Barred(i) => BarredKept(i)
  BY <1>17 DEF Authenticate, Begin, Goto
<1>18. ASSUME NEW w \in Workers, Served(w) \/ Fail(w)
      PROVE  Barred(i) => BarredKept(i)
  BY <1>18 DEF Served, Fail, Goto, Return
<1>19. ASSUME NEW s \in sessions, EndSession(s)
      PROVE  Barred(i) => BarredKept(i)
  BY <1>19 DEF EndSession
<1>20. ASSUME NEW j \in Identities, RevokeKey(j)
      PROVE  Barred(i) => BarredKept(i)
  BY <1>20 DEF RevokeKey
<1>21. CASE UNCHANGED vars
  BY <1>21 DEF vars
<1> HIDE SomebodyExists, NoRowIsNone, EmailTypes, PatchTypes
    DEF TypeOK, HandlerInv, Exists, Empty, Known, table, local,
        Barred, BarredKept, Holds, Serves, AskedFor
<1> QED
  BY <1>1, <1>2, <1>3, <1>4, <1>5, <1>6, <1>7, <1>8, <1>9, <1>10, <1>11,
     <1>12, <1>13, <1>14, <1>15, <1>16, <1>17, <1>18, <1>19, <1>20, <1>21
     DEF Next, Step, Login, Administer, UseKeys, BoundReached

(* No statement of a handler makes a plain user an administrator, unless   *)
(* asked, or the address is the configured one.                            *)
LEMMA PlainStep ==
    TypeOK /\ HandlerInv /\ [Next]_vars => \A i \in Identities : Plain(i) => PlainKept(i)
<1> SUFFICES ASSUME TypeOK, HandlerInv, [Next]_vars, NEW i \in Identities
             PROVE  Plain(i) => PlainKept(i)
  OBVIOUS
<1> USE SomebodyExists, NoRowIsNone, EmailTypes, PatchTypes
    DEF TypeOK, HandlerInv, Exists, Empty, Known, table, local,
        Plain, PlainKept, Holds, AskedFor
<1>1. ASSUME NEW w \in Workers, NEW j \in Identities, NEW e \in EmailsOf[j],
             NEW b \in BOOLEAN, LoginKnown(w, j, e, b)
      PROVE  Plain(i) => PlainKept(i)
  BY <1>1, Renamed DEF LoginKnown, Begin, Goto
<1>2. ASSUME NEW w \in Workers, NEW j \in Identities,
             NEW e \in EmailsOf[j], LoginUnknown(w, j, e)
      PROVE  Plain(i) => PlainKept(i)
  BY <1>2, NewUser DEF LoginUnknown, Begin, Goto
<1>3. ASSUME NEW w \in Workers, LoginByEmail(w)
      PROVE  Plain(i) => PlainKept(i)
  BY <1>3 DEF LoginByEmail, Goto
<1>4. ASSUME NEW w \in Workers, LoginCreate(w)
      PROVE  Plain(i) => PlainKept(i)
  BY <1>4 DEF LoginCreate, Goto, Return
<1>5. ASSUME NEW w \in Workers, LoginUpdate(w)
      PROVE  Plain(i) => PlainKept(i)
  BY <1>5, SMTT(30) DEF LoginUpdate, Goto, Return
<1>6. ASSUME NEW w \in Workers, LoginPromote(w)
      PROVE  Plain(i) => PlainKept(i)
  <2> DEFINE r == [users[target[w]] EXCEPT !.role = "admin"]
             c == [copy[w] EXCEPT !.role = "admin"]
  <2>1. users[target[w]] \in Row /\ copy[w] \in Row
    BY <1>6 DEF LoginPromote
  <2>2. /\ r \in Row /\ r.status = users[target[w]].status
        /\ c \in Row /\ c.status = copy[w].status
    BY <2>1, Promoted
  <2>3. CASE UNCHANGED users
    BY <1>6, <2>1, <2>2, <2>3 DEF LoginPromote, Goto
  <2>4. CASE /\ IsAdminEmail(copy[w].email)
             /\ users' = [users EXCEPT ![target[w]] = r] /\ Goto(w, "session", target[w], c)
    <3> HIDE DEF r, c
    <3> QED
      BY <1>6, <2>1, <2>2, <2>4 DEF LoginPromote, Goto
  <2> QED
    BY <1>6, <2>3, <2>4 DEF LoginPromote
<1>7. ASSUME NEW w \in Workers, LoginSession(w)
      PROVE  Plain(i) => PlainKept(i)
  <2> DEFINE opened == [user |-> target[w], isAdmin |-> copy[w].role = "admin"]
  <2>1. sessions' \subseteq sessions \cup {opened}
    BY <1>7 DEF LoginSession
  <2>2. opened.user = target[w] /\ opened.isAdmin = (copy[w].role = "admin")
    OBVIOUS
  <2>3. ASSUME Plain(i), NEW s \in sessions', s.user = i
        PROVE  ~s.isAdmin
    <3>1. CASE s \in sessions
      BY <2>3, <3>1
    <3>2. CASE s = opened
      <4>1. copy[w].role # "admin"
        BY <1>7, <2>2, <2>3, <3>2 DEF LoginSession
      <4> QED
        BY <2>2, <3>2, <4>1, Zenon
    <3> QED
      BY <2>1, <3>1, <3>2
  <2> QED
    BY <1>7, <2>3 DEF LoginSession, Goto, Return
<1>8. ASSUME NEW w \in Workers, NEW s \in sessions, NEW j \in Identities,
             NEW p \in Patches, UpdateUser(w, s, j, p)
      PROVE  Plain(i) => PlainKept(i)
  <2>1. users[j] \in Row
    BY <1>8 DEF UpdateUser
  <2>2. /\ Patched(users[j], p).role = IF p.role = Unset THEN users[j].role ELSE p.role
        /\ Patched(users[j], p).email = users[j].email
    BY <2>1, PatchedRow
  <2> QED
    BY <1>8, <2>1, <2>2 DEF UpdateUser, Begin, Goto
<1>9. ASSUME NEW w \in Workers, NEW s \in sessions,
             NEW j \in Identities, DeleteUser(w, s, j)
      PROVE  Plain(i) => PlainKept(i)
  BY <1>9, Deleted DEF DeleteUser, Begin, Goto
<1>10. ASSUME NEW w \in Workers, checkLastAdmin(w)
      PROVE  Plain(i) => PlainKept(i)
  BY <1>10 DEF checkLastAdmin, Goto, Return
<1>11. ASSUME NEW w \in Workers, Update(w)
      PROVE  Plain(i) => PlainKept(i)
  BY <1>11 DEF Update, Goto, Return
<1>12. ASSUME NEW w \in Workers, NEW s \in sessions, NEW ids \in SUBSET Identities,
             NEW p \in Patches, BulkUpdate(w, s, ids, p)
      PROVE  Plain(i) => PlainKept(i)
  BY <1>12 DEF BulkUpdate, Begin
<1>13. ASSUME NEW w \in Workers, BulkRead(w)
      PROVE  Plain(i) => PlainKept(i)
  <2>1. CASE Return(w)
    BY <1>13, <2>1 DEF BulkRead, Goto, Return
  <2>2. ASSUME NEW j \in todo[w], Exists(j), UNCHANGED asked,
               Goto(w, "bulkWrite", j, Patched(users[j], asked[w])),
               todo' = [todo EXCEPT ![w] = @ \ {j}]
        PROVE  Plain(i) => PlainKept(i)
    <3>1. /\ Patched(users[j], asked[w]).role =
               IF asked[w].role = Unset THEN users[j].role ELSE asked[w].role
        /\ Patched(users[j], asked[w]).email = users[j].email
      BY <2>2, PatchedRow
    <3> QED
      BY <1>13, <2>2, <3>1 DEF BulkRead, Goto
  <2> QED
    BY <1>13, <2>1, <2>2 DEF BulkRead
<1>14. ASSUME NEW w \in Workers, BulkWrite(w)
      PROVE  Plain(i) => PlainKept(i)
  <2> DEFINE r == WithRights(users[target[w]], copy[w])
  <2>1. users[target[w]] \in Row /\ copy[w] \in Row
    BY <1>14 DEF BulkWrite
  <2>2. r \in Row /\ r.role = copy[w].role /\ r.email = users[target[w]].email
    BY <2>1, Rewritten
  <2> QED
    BY <1>14, <2>1, <2>2 DEF BulkWrite, Goto, Return
<1>15. ASSUME NEW w \in Workers, NEW j \in Identities, CreateKey(w, j)
      PROVE  Plain(i) => PlainKept(i)
  BY <1>15 DEF CreateKey, Begin, Goto
<1>16. ASSUME NEW w \in Workers, InsertKey(w)
      PROVE  Plain(i) => PlainKept(i)
  BY <1>16 DEF InsertKey, Goto, Return
<1>17. ASSUME NEW w \in Workers, NEW j \in Identities, Authenticate(w, j)
      PROVE  Plain(i) => PlainKept(i)
  BY <1>17 DEF Authenticate, Begin, Goto
<1>18. ASSUME NEW w \in Workers, Served(w) \/ Fail(w)
      PROVE  Plain(i) => PlainKept(i)
  BY <1>18 DEF Served, Fail, Goto, Return
<1>19. ASSUME NEW s \in sessions, EndSession(s)
      PROVE  Plain(i) => PlainKept(i)
  BY <1>19 DEF EndSession
<1>20. ASSUME NEW j \in Identities, RevokeKey(j)
      PROVE  Plain(i) => PlainKept(i)
  BY <1>20 DEF RevokeKey
<1>21. CASE UNCHANGED vars
  BY <1>21 DEF vars
<1> HIDE SomebodyExists, NoRowIsNone, EmailTypes, PatchTypes
    DEF TypeOK, HandlerInv, Exists, Empty, Known, table, local,
        Plain, PlainKept, Holds, AskedFor
<1> QED
  BY <1>1, <1>2, <1>3, <1>4, <1>5, <1>6, <1>7, <1>8, <1>9, <1>10, <1>11,
     <1>12, <1>13, <1>14, <1>15, <1>16, <1>17, <1>18, <1>19, <1>20, <1>21
     DEF Next, Step, Login, Administer, UseKeys, BoundReached

(* Handlers between the count of i's keys and the insertion of another. *)
Inserting(i) == {w \in Workers : pc[w] = "insert" /\ target[w] = i}

(* No other handler touches the keys or starts an insertion. *)
LEMMA KeysLeftAlone ==
    ASSUME TypeOK, NEW w \in Workers,
           \/ Login(w) \/ Administer(w) \/ Served(w) \/ Fail(w)
           \/ \E i \in Identities : Authenticate(w, i)
    PROVE  keys' = keys /\ \A i \in Identities : Inserting(i)' \subseteq Inserting(i)
<1> USE DEF TypeOK, Inserting, table, Goto, Return
<1>1. CASE Login(w)
  BY <1>1 DEF Login, LoginKnown, LoginUnknown, LoginByEmail, LoginCreate,
              LoginUpdate, LoginPromote, LoginSession
<1>2. CASE Administer(w)
  BY <1>2 DEF Administer, UpdateUser, DeleteUser, BulkUpdate, checkLastAdmin,
              Update, BulkRead, BulkWrite
<1>3. CASE Served(w) \/ Fail(w) \/ \E i \in Identities : Authenticate(w, i)
  BY <1>3 DEF Served, Fail, Authenticate
<1> QED
  BY <1>1, <1>2, <1>3

(* The bound on the keys there are and are about to be is inductive: a     *)
(* count admits an insertion only below the limit, and an insertion turns  *)
(* one that was about to be into one there is.                             *)
LEMMA KeyLimitStep ==
    TypeOK /\ KeyLimitOvershoot /\ [Next]_vars => KeyLimitOvershoot'
<1> SUFFICES ASSUME TypeOK, KeyLimitOvershoot, [Next]_vars, NEW i \in Identities
             PROVE  keys'[i] + Cardinality(Inserting(i)')
                      <= MaxKeys + Cardinality(Workers) - 1
  BY DEF KeyLimitOvershoot, Inserting
<1>1. /\ IsFiniteSet(Inserting(i)) /\ IsFiniteSet(Inserting(i)')
      /\ Cardinality(Inserting(i)) \in Nat /\ Cardinality(Inserting(i)') \in Nat
      /\ Cardinality(Inserting(i)') <= Cardinality(Workers)
      /\ Cardinality(Workers) \in Nat /\ MaxKeys \in Nat /\ keys[i] \in Nat
  <2>1. Inserting(i) \subseteq Workers /\ Inserting(i)' \subseteq Workers
    BY DEF Inserting
  <2> QED
    BY <2>1, AccountsAssumption, FS_Subset, FS_CardinalityType
       DEF AccountsAssumption, TypeOK
<1>2. keys[i] + Cardinality(Inserting(i)) <= MaxKeys + Cardinality(Workers) - 1
  BY DEF KeyLimitOvershoot, Inserting
<1>3. ASSUME keys'[i] \in Nat, keys'[i] <= keys[i], Inserting(i)' \subseteq Inserting(i)
      PROVE  keys'[i] + Cardinality(Inserting(i)') <= MaxKeys + Cardinality(Workers) - 1
  <2>1. Cardinality(Inserting(i)') <= Cardinality(Inserting(i))
    BY <1>1, <1>3, FS_Subset
  <2> QED
    BY <1>1, <1>2, <1>3, <2>1
<1>4. ASSUME NEW w \in Workers, NEW j \in Identities, CreateKey(w, j)
      PROVE  keys'[i] + Cardinality(Inserting(i)') <= MaxKeys + Cardinality(Workers) - 1
  <2>1. CASE i = j
    BY <1>1, <1>4, <2>1 DEF CreateKey, table
  <2>2. CASE i # j
    <3>1. keys'[i] = keys[i] /\ Inserting(i)' \subseteq Inserting(i)
      BY <1>4, <2>2 DEF CreateKey, Goto, Inserting, TypeOK, table
    <3> QED
      BY <1>1, <1>3, <3>1
  <2> QED
    BY <2>1, <2>2
<1>5. ASSUME NEW w \in Workers, InsertKey(w)
      PROVE  keys'[i] + Cardinality(Inserting(i)') <= MaxKeys + Cardinality(Workers) - 1
  <2>1. CASE i = target[w]
    <3>1. w \in Inserting(i) /\ Inserting(i)' = Inserting(i) \ {w}
      BY <1>5, <2>1 DEF InsertKey, Return, Goto, Inserting, TypeOK
    <3>2. Cardinality(Inserting(i)') = Cardinality(Inserting(i)) - 1
      BY <1>1, <3>1, FS_RemoveElement
    <3>3. keys'[i] = keys[i] + 1
      BY <1>5, <2>1 DEF InsertKey, TypeOK
    <3> QED
      BY <1>1, <1>2, <3>2, <3>3
  <2>2. CASE i # target[w]
    <3>1. keys'[i] = keys[i] /\ Inserting(i)' \subseteq Inserting(i)
      BY <1>5, <2>2 DEF InsertKey, Return, Goto, Inserting, TypeOK
    <3> QED
      BY <1>1, <1>3, <3>1
  <2> QED
    BY <2>1, <2>2
<1>6. ASSUME NEW j \in Identities, RevokeKey(j)
      PROVE  keys'[i] + Cardinality(Inserting(i)') <= MaxKeys + Cardinality(Workers) - 1
  <2>1. /\ keys'[i] \in Nat /\ keys'[i] <= keys[i]
        /\ Inserting(i)' = Inserting(i)
    BY <1>1, <1>6 DEF RevokeKey, Inserting, TypeOK, local
  <2> QED
    BY <1>3, <2>1
<1>7. CASE UNCHANGED <<keys, pc, target>>
  <2>1. keys'[i] = keys[i] /\ Inserting(i)' = Inserting(i)
    BY <1>7 DEF Inserting
  <2> QED
    BY <1>1, <1>3, <2>1
<1>8. CASE \E w \in Workers :
             \/ Login(w) \/ Administer(w) \/ Served(w) \/ Fail(w)
             \/ \E j \in Identities : Authenticate(w, j)
  BY <1>1, <1>3, <1>8, KeysLeftAlone
<1>9. CASE \E s \in sessions : EndSession(s)
  BY <1>7, <1>9 DEF EndSession, local
<1>10. CASE BoundReached \/ UNCHANGED vars
  BY <1>7, <1>10 DEF BoundReached, vars, table, local
<1> QED
  BY <1>4, <1>5, <1>6, <1>8, <1>9, <1>10 DEF Next, Step, UseKeys

(* The row and the count that an undisturbed handler has are those of the  *)
(* table.                                                                  *)
Fresh(w) ==
    /\ pc[w] = "update" \/ (pc[w] = "write" /\ asked[w].status = Unset)
         => (ActiveAdmin(target[w]) => copy[w].role = "admin" /\ copy[w].status = "active")
    /\ pc[w] = "checked" => \E j \in Identities \ {target[w]} : ActiveAdmin(j)

FreshInv == \A w \in Workers \ overtaken : Fresh(w)

(* A handler leaves what the others hold alone. *)
LEMMA OthersHold ==
    ASSUME TypeOK, NEW w \in Workers, NEW v \in Workers \ {w},
           Login(w) \/ Administer(w) \/ UseKeys(w) \/ Fail(w)
    PROVE  /\ pc'[v] = pc[v] /\ target'[v] = target[v]
           /\ copy'[v] = copy[v] /\ asked'[v] = asked[v]
<1> USE DEF TypeOK, Goto, Return
<1>1. CASE Login(w)
  BY <1>1 DEF Login, LoginKnown, LoginUnknown, LoginByEmail, LoginCreate,
              LoginUpdate, LoginPromote, LoginSession
<1>2. CASE Administer(w)
  BY <1>2 DEF Administer, UpdateUser, DeleteUser, BulkUpdate, checkLastAdmin,
              Update, BulkRead, BulkWrite
<1>3. CASE UseKeys(w) \/ Fail(w)
  BY <1>3 DEF UseKeys, InsertKey, Served, CreateKey, Authenticate, Fail
<1> QED
  BY <1>1, <1>2, <1>3

(* What a handler has just read or counted is what the table holds. *)
LEMMA ActorFresh ==
    ASSUME TypeOK, HandlerInv, NEW w \in Workers,
           Login(w) \/ Administer(w) \/ UseKeys(w) \/ Fail(w)
    PROVE  Fresh(w)'
<1>1. CASE pc'[w] \notin {"update", "write", "checked"}
  BY <1>1 DEF Fresh
<1>2. ASSUME NEW i \in Identities, NEW e \in EmailsOf[i], NEW renamed \in BOOLEAN,
             LoginKnown(w, i, e, renamed)
      PROVE  Fresh(w)'
  <2>1. users[i] \in Row /\ e \in Email
    BY <1>2, EmailTypes DEF LoginKnown, Exists, TypeOK
  <2>2. /\ pc'[w] \in {"update", "promote"} /\ target'[w] = i /\ users' = users
        /\ copy'[w] = [users[i] EXCEPT !.email = e]
    BY <1>2 DEF LoginKnown, Goto, TypeOK, table
  <2> QED
    BY <2>1, <2>2, Renamed DEF Fresh, ActiveAdmin
<1>3. ASSUME NEW s \in sessions, NEW i \in Identities, NEW p \in Patches,
             UpdateUser(w, s, i, p)
      PROVE  Fresh(w)'
  <2>1. users[i] \in Row /\ p \in Patch
    BY <1>3, PatchTypes DEF UpdateUser, Exists, TypeOK
  <2>2. /\ pc'[w] = IF users[i].role = "admin" /\ p.role = "user" THEN "check" ELSE "write"
        /\ target'[w] = i /\ users' = users /\ asked'[w] = p
        /\ copy'[w] = Patched(users[i], p)
    BY <1>3 DEF UpdateUser, Goto, TypeOK, table
  <2>3. p.role \in {"user", "admin", Unset}
    BY <2>1 DEF Patch, Role
  <2> QED
    BY <2>1, <2>2, <2>3, PatchedRow DEF Fresh, ActiveAdmin
<1>4. ASSUME NEW s \in sessions, NEW i \in Identities, DeleteUser(w, s, i)
      PROVE  Fresh(w)'
  <2>1. pc'[w] \in {"check", "write"} /\ asked'[w].status # Unset
    BY <1>4 DEF DeleteUser, Goto, TypeOK, NoPatch, Unset
  <2> QED
    BY <2>1 DEF Fresh
<1>5. ASSUME checkLastAdmin(w)
      PROVE  Fresh(w)'
  BY <1>5 DEF checkLastAdmin, Goto, Return, Fresh, ActiveAdmin, TypeOK, table
<1>6. CASE Login(w)
  BY <1>1, <1>2, <1>6 DEF Login, LoginUnknown, LoginByEmail, LoginCreate, LoginUpdate,
              LoginPromote, LoginSession, Goto, Return, TypeOK
<1>7. CASE Administer(w)
  BY <1>1, <1>3, <1>4, <1>5, <1>7
     DEF Administer, BulkUpdate, Update, BulkRead, BulkWrite, Goto, Return, TypeOK
<1>8. CASE UseKeys(w) \/ Fail(w)
  BY <1>1, <1>8 DEF UseKeys, InsertKey, Served, CreateKey, Authenticate, Fail,
              Goto, Return, TypeOK
<1> QED
  BY <1>6, <1>7, <1>8

(* Freshness is kept: whoever writes a row overtakes the others. *)
LEMMA FreshStep == TypeOK /\ HandlerInv /\ FreshInv /\ [Next]_vars => FreshInv'
<1> SUFFICES ASSUME TypeOK, HandlerInv, FreshInv, [Next]_vars,
                    NEW v \in Workers, v \notin overtaken'
             PROVE  Fresh(v)'
  BY DEF FreshInv
<1>1. ASSUME Observe, pc'[v] = pc[v], target'[v] = target[v],
             copy'[v] = copy[v], asked'[v] = asked[v]
      PROVE  Fresh(v)'
  <2>1. CASE pc'[v] = "idle"
    BY <2>1 DEF Fresh
  <2>2. CASE pc'[v] # "idle"
    <3>1. v \notin overtaken /\ users' = users
      BY <1>1, <2>2 DEF Observe
    <3> QED
      BY <1>1, <3>1 DEF FreshInv, Fresh, ActiveAdmin
  <2> QED
    BY <2>1, <2>2
<1>2. ASSUME NEW w \in Workers, Login(w) \/ Administer(w) \/ UseKeys(w) \/ Fail(w), Observe
      PROVE  Fresh(v)'
  BY <1>1, <1>2, ActorFresh, OthersHold
<1>3. CASE Observe /\ \E s \in sessions : EndSession(s)
  BY <1>1, <1>3 DEF EndSession, local
<1>4. CASE Observe /\ \E i \in Identities : RevokeKey(i)
  BY <1>1, <1>4 DEF RevokeKey, local
<1>5. CASE BoundReached \/ UNCHANGED vars
  BY <1>5 DEF BoundReached, vars, table, local, FreshInv, Fresh, ActiveAdmin
<1> QED
  BY <1>2, <1>3, <1>4, <1>5 DEF Next, Step

(* Only these statements write a row: INSERT, UPDATE, UpdateRole and the   *)
(* bulk UPDATE.                                                            *)
LEMMA Writers ==
    ASSUME [Next]_vars, users' # users
    PROVE  \E w \in Workers :
             \/ LoginCreate(w) \/ LoginUpdate(w) \/ LoginPromote(w)
             \/ Update(w) \/ BulkWrite(w)
<1>1. ASSUME NEW w \in Workers, Login(w)
      PROVE  LoginCreate(w) \/ LoginUpdate(w) \/ LoginPromote(w)
  BY <1>1 DEF Login, LoginKnown, LoginUnknown, LoginByEmail, LoginSession, table
<1>2. ASSUME NEW w \in Workers, Administer(w)
      PROVE  Update(w) \/ BulkWrite(w)
  BY <1>2 DEF Administer, UpdateUser, DeleteUser, BulkUpdate, checkLastAdmin,
              BulkRead, table
<1>3. ASSUME NEW w \in Workers
      PROVE  ~UseKeys(w) /\ ~Fail(w)
  BY DEF UseKeys, InsertKey, Served, CreateKey, Authenticate, Fail, table
<1>4. /\ ~ \E s \in sessions : EndSession(s)
      /\ ~ \E i \in Identities : RevokeKey(i)
      /\ ~BoundReached /\ ~UNCHANGED vars
  BY DEF EndSession, RevokeKey, BoundReached, vars, table
<1> QED
  BY <1>1, <1>2, <1>3, <1>4 DEF Next, Step

(* Each of them leaves an active administrator, unless it is unguarded. *)
LEMMA LastAdminStep ==
    TypeOK /\ HandlerInv /\ FreshInv /\ [Next]_vars
      => (SomeAdmin => SomeAdmin' \/ \E w \in Workers : Unguarded(w))
<1> SUFFICES ASSUME TypeOK, HandlerInv, FreshInv, [Next]_vars,
                    NEW i \in Identities, ActiveAdmin(i), ~\E w \in Workers : Unguarded(w)
             PROVE  SomeAdmin'
  BY DEF SomeAdmin
<1>1. CASE users' = users
  BY <1>1 DEF SomeAdmin, ActiveAdmin
<1>2. ASSUME NEW w \in Workers, NEW u \in Row,
             i # target[w] \/ (u.role = "admin" /\ u.status = "active"),
             users' = [users EXCEPT ![target[w]] = u]
      PROVE  SomeAdmin'
  <2>1. ActiveAdmin(i)'
    BY <1>2 DEF ActiveAdmin, TypeOK
  <2> QED
    BY <2>1 DEF SomeAdmin
<1>3. ASSUME NEW w \in Workers, LoginCreate(w), users' # users
      PROVE  SomeAdmin'
  <2>1. Exists(i)
    BY NoRowIsNone DEF Exists, ActiveAdmin
  <2>2. copy[w] \in Row
    BY <1>3 DEF LoginCreate, HandlerInv, TypeOK, Empty
  <2> QED
    BY <1>2, <1>3, <2>1, <2>2 DEF LoginCreate
<1>4. ASSUME NEW w \in Workers, LoginUpdate(w), users' # users
      PROVE  SomeAdmin'
  <2>1. copy[w] \in Row
    BY <1>4 DEF LoginUpdate, HandlerInv, TypeOK, Empty
  <2>2. w \notin overtaken
    BY <1>4 DEF LoginUpdate, Goto, Return, TypeOK, Unguarded
  <2>3. ActiveAdmin(target[w]) => copy[w].role = "admin" /\ copy[w].status = "active"
    BY <1>4, <2>2 DEF LoginUpdate, FreshInv, Fresh
  <2> QED
    BY <1>2, <1>4, <2>1, <2>3 DEF LoginUpdate
<1>5. ASSUME NEW w \in Workers, LoginPromote(w), users' # users
      PROVE  SomeAdmin'
  <2> DEFINE r == [users[target[w]] EXCEPT !.role = "admin"]
  <2>1. users[target[w]] \in Row
    BY <1>5 DEF LoginPromote, HandlerInv, TypeOK, Known, Exists
  <2>2. r \in Row /\ r.role = "admin" /\ r.status = users[target[w]].status
    BY <2>1, Promoted
  <2>3. users' = [users EXCEPT ![target[w]] = r]
    BY <1>5 DEF LoginPromote
  <2>4. ActiveAdmin(target[w]) => r.status = "active"
    BY <2>2 DEF ActiveAdmin
  <2> HIDE DEF r
  <2> QED
    BY <1>2, <2>2, <2>3, <2>4
<1>6. ASSUME NEW w \in Workers, Update(w), users' # users
      PROVE  SomeAdmin'
  <2>1. copy[w] \in Row
    BY <1>6 DEF Update, HandlerInv, TypeOK, Empty
  <2>2. w \notin overtaken /\ (pc[w] = "write" => asked[w].status = Unset)
    BY <1>6 DEF Update, Goto, Return, TypeOK, Unguarded
  <2>3. users' = [users EXCEPT ![target[w]] = copy[w]]
    BY <1>6 DEF Update
  <2>4. CASE pc[w] = "write"
    <3>1. ActiveAdmin(target[w]) => copy[w].role = "admin" /\ copy[w].status = "active"
      BY <2>2, <2>4 DEF FreshInv, Fresh
    <3> QED
      BY <1>2, <2>1, <2>3, <3>1
  <2>5. CASE pc[w] = "checked"
    <3>1. PICK j \in Identities \ {target[w]} : ActiveAdmin(j)
      BY <2>2, <2>5 DEF FreshInv, Fresh
    <3>2. ActiveAdmin(j)'
      BY <2>3, <3>1 DEF ActiveAdmin, TypeOK
    <3> QED
      BY <3>2 DEF SomeAdmin
  <2> QED
    BY <1>6, <2>4, <2>5 DEF Update
<1>7. ASSUME NEW w \in Workers
      PROVE  ~BulkWrite(w)
  BY DEF BulkWrite, Goto, Return, TypeOK, Unguarded
<1> QED
  BY <1>1, <1>3, <1>4, <1>5, <1>6, <1>7, Writers

-----------------------------------------------------------------------------
(* Type correctness, and what the handlers between two statements hold: a  *)
(* whole row of a user who exists, unless they create one.                 *)
THEOREM TypeCorrect == Spec => [](TypeOK /\ HandlerInv)
<1>1. Init => TypeOK /\ HandlerInv
  BY TypeInitial
<1>2. (TypeOK /\ HandlerInv) /\ [Next]_vars => (TypeOK /\ HandlerInv)'
  BY TypeStep
<1> QED
  BY <1>1, <1>2, PTL DEF Spec

(* createKey's count and insertion are two statements; whatever the number *)
(* of handlers, users and requests, the limit is exceeded by at most one   *)
(* key for each handler but one.                                           *)
THEOREM KeyLimit == Spec => []KeyLimitOvershoot
<1>1. Init => KeyLimitOvershoot
  <2> SUFFICES ASSUME Init, NEW i \in Identities
               PROVE  keys[i] + Cardinality({w \in Workers : pc[w] = "insert" /\ target[w] = i})
                        <= MaxKeys + Cardinality(Workers) - 1
    BY DEF KeyLimitOvershoot
  <2>1. {w \in Workers : pc[w] = "insert" /\ target[w] = i} = {} /\ keys[i] = 0
    BY DEF Init
  <2>2. Cardinality({}) = 0 /\ Cardinality(Workers) \in Nat
    BY AccountsAssumption, FS_EmptySet, FS_CardinalityType DEF AccountsAssumption
  <2> QED
    BY <2>1, <2>2, AccountsAssumption DEF AccountsAssumption
<1>2. TypeOK /\ KeyLimitOvershoot /\ [Next]_vars => KeyLimitOvershoot'
  BY KeyLimitStep
<1> QED
  BY <1>1, <1>2, TypeCorrect, PTL DEF Spec

(* A suspended or deleted user stays so, gets no session and has no        *)
(* request served, until an administrator asks for the opposite, whatever  *)
(* the logins, updates and promotions of other handlers do in between.     *)
THEOREM SuspensionHolds == Spec => BarredUntilReactivated
<1>1. TypeOK /\ HandlerInv /\ [Next]_vars
        => [\A i \in Identities : Barred(i) => BarredKept(i)]_vars
  BY BarredStep
<1> QED
  BY <1>1, TypeCorrect, PTL DEF Spec, BarredUntilReactivated

(* Administrator's rights come from a PATCH or from the configured address *)
(* and from nowhere else: no stale row written back restores them.         *)
THEOREM RightsHold == Spec => RightsAreGranted
<1>1. TypeOK /\ HandlerInv /\ [Next]_vars
        => [\A i \in Identities : Plain(i) => PlainKept(i)]_vars
  BY PlainStep
<1> QED
  BY <1>1, TypeCorrect, PTL DEF Spec, RightsAreGranted

(* checkLastAdmin is enough without concurrency: the last active           *)
(* administrator is lost only by a write it does not guard.                *)
THEOREM LastAdminStays == Spec => LastAdminKept
<1>1. Init => FreshInv
  BY DEF Init, FreshInv, Fresh
<1>2. TypeOK /\ HandlerInv /\ FreshInv /\ [Next]_vars => FreshInv'
  BY FreshStep
<1>3. TypeOK /\ HandlerInv /\ FreshInv /\ [Next]_vars
        => [SomeAdmin => SomeAdmin' \/ \E w \in Workers : Unguarded(w)]_vars
  BY LastAdminStep
<1> QED
  BY <1>1, <1>2, <1>3, TypeCorrect, PTL DEF Spec, LastAdminKept
====
