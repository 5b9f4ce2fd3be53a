---------------------------- MODULE Conversations ----------------------------
(***************************************************************************)
(* Conversation history behind previous_response_id: every response is     *)
(* stored as a row of its own that holds the whole history up to and       *)
(* including its answer, a follow-up reads the row of its predecessor, and *)
(* rows disappear by deletion and by expiry while requests are in flight   *)
(* and while somebody pages through the list of conversations.             *)
(*                                                                         *)
(* A request and the response it leads to share one number; a row is       *)
(* created only by its own request, so the columns of row r are the values *)
(* of request r and `table' says which of them are stored.  A message is   *)
(* the turn it belongs to, its role and its form: native to a provider (an *)
(* Anthropic answer with thinking blocks) or to none.  All the input       *)
(* messages of a turn are one message.  Which provider serves a turn       *)
(* (named, inherited or the default of its model) is left open.            *)
(***************************************************************************)
EXTENDS Integers, Sequences, FiniteSets, SequencesExt

CONSTANTS
    MaxRequests,      \* bound: how many requests arrive
    Principals,       \* records [user, tenant]: who sends requests
    AdminUsers,       \* users whose tokens carry the admin role
    NoUser, NoTenant, \* the empty strings of a principal
    Providers,
    NativeProviders,  \* the ones that return a ReplayMessage
    NoProvider,
    Answers,          \* the kinds of answer that occur
    Limit             \* rows on a page of the list of conversations

Nobody == [user |-> NoUser, tenant |-> NoTenant]   \* auth is off

(* A user is the issuer and the subject of a token.  Tokens are accepted   *)
(* from the configured issuer only, which is not empty (auth.New).         *)
ASSUME ConversationsAssumption ==
    /\ MaxRequests \in Nat
    /\ \A w \in Principals : DOMAIN w = {"user", "tenant"}
    /\ \A w \in Principals : w.user = NoUser => w = Nobody
    /\ NoUser \notin AdminUsers
    /\ NativeProviders \subseteq Providers
    /\ NoProvider \notin Providers
    /\ Answers \subseteq {"text", "thinking", "tools", "none"}
    /\ Limit \in Nat \ {0}

VARIABLES
    phase,      \* where the handler of a request stands
    who,        \* its principal, the owner of the row
    prev,       \* its previous_response_id, 0 for none
    provider,   \* the provider that serves it, also in the row's replay state
    answer,     \* what the provider answered
    messages,   \* storeMsgs, then the messages column
    said,       \* what was said in the conversation up to this turn (observer)
    index,      \* MessageIndex of the replay items from 1, 0 for none
    table,      \* the responses that have a row, by updated_at DESC
    pager       \* somebody who pages through the list, and what is due

vars == <<phase, who, prev, provider, answer, messages, said, index, table,
          pager>>

Requests == 1 .. MaxRequests   \* numbered in the order of arrival

rows == Range(table)

Tenants == {w.tenant : w \in Principals}

Message(t, r, f) == [turn |-> t, role |-> r, form |-> f]

(* The list options of the pager, the next page, and the rows the pages    *)
(* still have to show (observer).                                          *)
NoPager == [user |-> NoUser, tenant |-> NoTenant, page |-> 0, due |-> {}]

Init ==
    /\ phase = [r \in Requests |-> "new"]
    /\ who = [r \in Requests |-> Nobody]
    /\ prev = [r \in Requests |-> 0]
    /\ provider = [r \in Requests |-> NoProvider]
    /\ answer = [r \in Requests |-> "pending"]
    /\ messages = [r \in Requests |-> <<>>]
    /\ said = [r \in Requests |-> <<>>]
    /\ index = [r \in Requests |-> 0]
    /\ table = <<>>
    /\ pager = NoPager

(***************************************************************************)
(* Who may read a row, and what a follow-up takes from it                  *)
(***************************************************************************)
OwnsConversation(w, owner) ==
    /\ w.user = owner.user
    /\ owner.tenant # NoTenant => w.tenant = owner.tenant

(* Faulty variant: the admin override without the ownership check. *)
CanContinueAny(w, p) == TRUE

CanContinue(w, p) ==
    \/ w = Nobody
    \/ OwnsConversation(w, who[p])
    \/ w.user \in AdminUsers

(* The output items of an answer, and its native form if it has one: only  *)
(* an item of type message carries it.                                     *)
OutputItems(a) ==
    (IF a \in {"text", "thinking"} THEN {"message"} ELSE {})
        \cup (IF a = "tools" THEN {"function_call"} ELSE {})

HasNative(p) == answer[p] = "thinking"

NativeMessage(p) == Message(p, "assistant", provider[p])

(* Faulty variant: off by one, the message before the answer is replaced. *)
applyReplayStateOff(p, q) ==
    IF provider[p] = q /\ HasNative(p) /\ index[p] - 1 \in 1 .. Len(messages[p])
      THEN [messages[p] EXCEPT ![index[p] - 1] = NativeMessage(p)]
      ELSE messages[p]

(* Faulty variant: any provider is sent the native form. *)
applyReplayStateAny(p, q) ==
    IF HasNative(p) /\ index[p] \in 1 .. Len(messages[p])
      THEN [messages[p] EXCEPT ![index[p]] = NativeMessage(p)]
      ELSE messages[p]

applyReplayState(p, q) ==
    IF provider[p] = q /\ HasNative(p) /\ index[p] \in 1 .. Len(messages[p])
      THEN [messages[p] EXCEPT ![index[p]] = NativeMessage(p)]
      ELSE messages[p]

(* All items of a response point to one message, so that the references of *)
(* a request resolve to at most one; ref is the first of them.             *)
resolveItemReferences(ref, history, p, q) ==
    IF ref \notin OutputItems(answer[p]) \/ index[p] \notin 1 .. Len(history)
      THEN <<>>
      ELSE IF provider[p] = q /\ ref = "message" /\ HasNative(p)
             THEN <<NativeMessage(p)>>
             ELSE <<history[index[p]]>>

HistoryMsgs(p, q, ref) ==
    LET history == applyReplayState(p, q)
    IN  resolveItemReferences(ref, history, p, q) \o history

(***************************************************************************)
(* handleResponses up to the call of the provider: one read of the store   *)
(***************************************************************************)
Arrives(r) ==
    /\ phase[r] = "new"
    /\ \A s \in Requests : s < r => phase[s] # "new"

Accept(r, w, p, q, history) ==
    /\ phase' = [phase EXCEPT ![r] = "calling"]
    /\ who' = [who EXCEPT ![r] = w]
    /\ prev' = [prev EXCEPT ![r] = p]
    /\ provider' = [provider EXCEPT ![r] = q]
    /\ messages' = [messages EXCEPT
                      ![r] = Append(history, Message(r, "user", NoProvider))]
    /\ said' = [said EXCEPT ![r] = Append(IF p = 0 THEN <<>> ELSE said[p], <<r, "user">>)]
    /\ UNCHANGED <<answer, index, table, pager>>

FirstTurn(r, w, q) ==
    /\ Arrives(r)
    /\ Accept(r, w, 0, q, <<>>)

FollowUp(r, w, p, q, ref) ==
    /\ Arrives(r)
    /\ p \in rows
    /\ CanContinue(w, p)
    /\ Accept(r, w, p, q, HistoryMsgs(p, q, ref))

(* A handler returns and leaves no row: what it knew is gone. *)
Return(r) ==
    /\ phase' = [phase EXCEPT ![r] = "over"]
    /\ who' = [who EXCEPT ![r] = Nobody]
    /\ prev' = [prev EXCEPT ![r] = 0]
    /\ provider' = [provider EXCEPT ![r] = NoProvider]
    /\ answer' = [answer EXCEPT ![r] = "pending"]
    /\ messages' = [messages EXCEPT ![r] = <<>>]
    /\ said' = [said EXCEPT ![r] = <<>>]
    /\ UNCHANGED <<index, table, pager>>

(* No such row, or not the caller's: 404.  The store fails: 500.  The      *)
(* request is invalid or names no known provider: 400.                     *)
Refuse(r) ==
    /\ Arrives(r)
    /\ Return(r)

(***************************************************************************)
(* The provider                                                            *)
(***************************************************************************)
(* The converters of the providers return an error for a content block of  *)
(* a type they do not know.                                                *)
Convertible(r) ==
    \A i \in 1 .. Len(messages[r]) :
        messages[r][i].form \in {NoProvider, provider[r]}

ProviderFails(r) ==
    /\ phase[r] = "calling"
    /\ Return(r)

CanAnswer(r, a) ==
    /\ phase[r] = "calling"
    /\ Convertible(r)
    /\ a = "thinking" => provider[r] \in NativeProviders

Answered(r, a) ==
    /\ CanAnswer(r, a)
    /\ answer' = [answer EXCEPT ![r] = a]
    /\ said' = [said EXCEPT ![r] = IF a = "none" THEN @ ELSE Append(@, <<r, "assistant">>)]
    /\ phase' = [phase EXCEPT ![r] = "answered"]
    /\ UNCHANGED <<who, prev, provider, messages, index, table, pager>>

(* handleSyncResponse stores the answer before it sends it, and stores an  *)
(* empty one too.                                                          *)
AnswerSync(r, a) == Answered(r, a)

(* handleStreamingResponse stores what it has sent, unless it is empty. *)
AnswerStream(r, a) == a # "none" /\ Answered(r, a)

AnswerStreamEmpty(r) == CanAnswer(r, "none") /\ Return(r)

(***************************************************************************)
(* Storing the response                                                    *)
(***************************************************************************)
(* The answer is the last message of the row. *)
buildReplayState(r) == IF answer[r] = "none" THEN 0 ELSE Len(messages[r]) + 1

buildAssistantMessage(r) ==
    IF answer[r] = "none" THEN <<>>
                          ELSE <<Message(r, "assistant", NoProvider)>>

(* updated_at is read just before the insert: the new row is the first one *)
(* of the list.                                                            *)
Create(r) ==
    /\ phase[r] = "answered"
    /\ messages' = [messages EXCEPT ![r] = @ \o buildAssistantMessage(r)]
    /\ index' = [index EXCEPT ![r] = buildReplayState(r)]
    /\ table' = <<r>> \o table
    /\ phase' = [phase EXCEPT ![r] = "done"]
    /\ UNCHANGED <<who, prev, provider, answer, said, pager>>

(* The storage policy says no, the insert fails, or the client of a stream *)
(* has gone and its context is cancelled: the response stands without row. *)
CreateSkipped(r) ==
    /\ phase[r] = "answered"
    /\ Return(r)

(***************************************************************************)
(* Listing                                                                 *)
(***************************************************************************)
(* The WHERE clause.  An administrator may filter by tenant, others get    *)
(* what they own; the filters on model and id are left out.                *)
Matches(o, p) ==
    /\ o.user # NoUser => who[p].user = o.user
    /\ o.tenant # NoTenant => who[p].tenant = o.tenant

Listed(o) == {p \in rows : Matches(o, p)}

(* ORDER BY updated_at DESC: the listed rows that come before row p. *)
Newer(q, p) == \E i, j \in DOMAIN table : i < j /\ table[i] = q /\ table[j] = p

Ahead(o, p) == {q \in Listed(o) : Newer(q, p)}

LimitOffset(o, offset) ==
    {p \in Listed(o) : Cardinality(Ahead(o, p)) \in offset .. (offset + Limit - 1)}

(* Faulty variant: pages are counted from 0. *)
ListFromZero(o, page) == LimitOffset(o, page * Limit)

List(o, page) == LimitOffset(o, (page - 1) * Limit)

(* One page is one call; a page that is not full is the last one. *)
ReadPage(o) ==
    LET shown == List(o, o.page)
    IN  pager' = IF Cardinality(shown) < Limit THEN NoPager
                 ELSE [o EXCEPT !.page = @ + 1, !.due = @ \ shown]

StartListing(w, t) ==
    /\ pager.page = 0
    /\ w.user \in AdminUsers \/ (w.user # NoUser /\ t = NoTenant)
    /\ LET o == [NoPager EXCEPT
                   !.user = IF w.user \in AdminUsers THEN NoUser ELSE w.user,
                   !.tenant = t, !.page = 1]
       IN  ReadPage([o EXCEPT !.due = Listed(o)])
    /\ UNCHANGED <<phase, who, prev, provider, answer, messages, said, index, table>>

NextPage ==
    /\ pager.page > 0
    /\ ReadPage(pager)
    /\ UNCHANGED <<phase, who, prev, provider, answer, messages, said, index, table>>

(***************************************************************************)
(* Deletion, expiry and retrieval                                          *)
(***************************************************************************)
(* When a row disappears that was listed, or was added since, the rows     *)
(* behind it move to earlier positions: nothing is due any more.           *)
StillDue(gone) ==
    IF {p \in gone : Matches(pager, p)} \subseteq pager.due
      THEN pager.due \ gone
      ELSE {}

(* What only a reader of the row would see goes with it. *)
RemoveRows(gone, left) ==
    /\ table' = left
    /\ messages' = [r \in Requests |-> IF r \in gone THEN <<>> ELSE messages[r]]
    /\ index' = [r \in Requests |-> IF r \in gone THEN 0 ELSE index[r]]
    /\ provider' = [r \in Requests |-> IF r \in gone THEN NoProvider
                                                     ELSE provider[r]]
    /\ answer' = [r \in Requests |-> IF r \in gone THEN "pending" ELSE answer[r]]
    /\ said' = [r \in Requests |-> IF r \in gone THEN <<>> ELSE said[r]]
    /\ pager' = [pager EXCEPT !.due = StillDue(gone)]

(* Nothing creates a row again, so the lookup of a delete handler and its  *)
(* DELETE are one step.                                                    *)
DeleteRow(p) ==
    /\ \E k \in DOMAIN table : table[k] = p /\ RemoveRows({p}, RemoveAt(table, k))
    /\ UNCHANGED <<phase, who, prev>>

(* DELETE /v1/responses/{id}: whoever sends it. *)
handleDeleteResponse(p) == DeleteRow(p)

(* DELETE /api/conversations/{id}: the tenant does not matter here. *)
canAccess(w, p) ==
    \/ w.user \in AdminUsers
    \/ w.user # NoUser /\ w.user = who[p].user

HandleDeleteConversation(p) ==
    /\ {w \in Principals : canAccess(w, p)} # {}
    /\ DeleteRow(p)

(* The background goroutine deletes what is older than the TTL when it     *)
(* looks, the rows from position k on; until then they can be read.        *)
cleanup(k) ==
    /\ RemoveRows(Range(SubSeq(table, k, Len(table))), SubSeq(table, 1, k - 1))
    /\ UNCHANGED <<phase, who, prev>>

(* GET /v1/responses/{id}: the output is the last assistant message of the *)
(* row; this is the turn it belongs to, 0 for none.                        *)
buildResponseFromConversation(p) ==
    LET i == SelectLastInSeq(messages[p], LAMBDA m : m.role = "assistant")
    IN  IF i = 0 THEN 0 ELSE messages[p][i].turn

Handler(r) ==
    \/ \E w \in Principals, q \in Providers : FirstTurn(r, w, q)
    \/ /\ Arrives(r)
       /\ \E w \in Principals, p \in rows, q \in Providers,
            ref \in {"none"} \cup UNION {OutputItems(a) : a \in Answers} :
              FollowUp(r, w, p, q, ref)
    \/ Refuse(r)
    \/ ProviderFails(r)
    \/ \E a \in Answers : AnswerSync(r, a)
    \/ \E a \in Answers : AnswerStream(r, a)
    \/ AnswerStreamEmpty(r)
    \/ Create(r)
    \/ CreateSkipped(r)

Next ==
    \/ \E r \in Requests : Handler(r)
    \/ \E w \in Principals, t \in Tenants \cup {NoTenant} : StartListing(w, t)
    \/ NextPage
    \/ \E p \in rows : handleDeleteResponse(p)
    \/ \E p \in rows : HandleDeleteConversation(p)
    \/ \E k \in DOMAIN table : cleanup(k)

Spec == Init /\ [][Next]_vars

(***************************************************************************)
(* Properties                                                              *)
(***************************************************************************)
(* Every stored row ends with the whole transcript of its conversation, in *)
(* order and nothing lost; what stands before it are answers out of this   *)
(* transcript, put there by item references.  So it is whatever replay     *)
(* state was applied on the way, at whatever index, and also if rows it    *)
(* was built from are deleted or expired by now (handleResponses,          *)
(* buildReplayState, applyReplayState, resolveItemReferences).  A GET of   *)
(* the response then finds the answer of that very turn.                   *)
TranscriptKept ==
    \A r \in rows :
        LET t == said[r]
            m == [i \in DOMAIN messages[r] |->
                     <<messages[r][i].turn, messages[r][i].role>>]
            n == Len(m) - Len(t)
        IN  /\ n >= 0
            /\ t = SubSeq(m, n + 1, Len(m))
            /\ \A i \in 1 .. n : m[i] \in Range(t) /\ m[i][2] = "assistant"
            /\ answer[r] # "none" => buildResponseFromConversation(r) = r

(* The history of a stored conversation of an ordinary user consists of    *)
(* turns whose conversations that user owns, over any number of follow-ups *)
(* and in particular across tenants (the ownership check of                *)
(* handleResponses).                                                       *)
HistoryStaysWithOwner ==
    \A r \in rows : who[r] # Nobody /\ who[r].user \notin AdminUsers =>
        \A i \in 1 .. Len(messages[r]) :
            OwnsConversation(who[r], who[messages[r][i].turn])

(* The answer that a follow-up continues reaches another provider than the *)
(* one that gave it only in the neutral form, whatever other follow-ups    *)
(* and item references have made of it meanwhile.  Older answers are a     *)
(* different matter: once a follow-up at the same provider has stored one  *)
(* in its native form, it keeps that form (applyReplayState,               *)
(* resolveItemReferences; the claim of                                     *)
(* TestHandleResponses_DoesNotRehydrateReplayStateAcrossProviders).        *)
ContinuedAnswerConvertible ==
    \A r \in Requests : phase[r] = "calling" =>
        \A i \in 1 .. Len(messages[r]) :
            messages[r][i].turn = prev[r] =>
                messages[r][i].form \in {NoProvider, provider[r]}

(* Who pages through the list of conversations to its end has seen every   *)
(* row that was there from the first page to the last, although responses  *)
(* are stored in between and push rows to later pages, unless a listed or  *)
(* a new row was deleted meanwhile (HandleListConversations, List).        *)
ListingMissesNothing ==
    [][pager.page > 0 /\ pager'.page = 0 =>
         pager.due \subseteq List(pager, pager.page)]_vars
==============================================================================
