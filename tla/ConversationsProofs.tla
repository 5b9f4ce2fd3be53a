------------------------- MODULE ConversationsProofs --------------------------
(***************************************************************************)
(* Theorems about Conversations, for any number of requests, principals    *)
(* and providers and any size of a page: whose turns a history consists of,*)
(* in which form the answer that is continued reaches a provider, that a   *)
(* row keeps the whole transcript of its conversation, and that the list   *)
(* of conversations leaves nothing out.                                    *)
(***************************************************************************)
EXTENDS Conversations, FiniteSetTheorems, SequenceTheorems, TLAPS

Form == Providers \cup {NoProvider}
Msg == [turn : Requests, role : {"user", "assistant"}, form : Form]
Phase == {"new", "calling", "answered", "done", "over"}

TypeOK ==
    /\ phase \in [Requests -> Phase]
    /\ who \in [Requests -> Principals \cup {Nobody}]
    /\ prev \in [Requests -> Nat]
    /\ provider \in [Requests -> Form]
    /\ messages \in [Requests -> Seq(Msg)]
    /\ index \in [Requests -> Nat]
    /\ table \in Seq(Requests)

(* A row is that of a request whose handler is through. *)
RowsInv == \A p \in rows : phase[p] = "done"

Ordinary(w) == w # Nobody /\ w.user \notin AdminUsers

(* What is known of the messages of request r: those of its own turn are   *)
(* in the neutral form; the others are of turns that have or had a row,    *)
(* which therefore never change their owner; and all are the caller's.     *)
MessageInv ==
    \A r \in Requests : \A m \in Range(messages[r]) :
        /\ m.turn = r => m.form = NoProvider
        /\ m.turn # r => phase[m.turn] = "done"
        /\ Ordinary(who[r]) => OwnsConversation(who[r], who[m.turn])

(* A request that has not begun or left no row has no messages. *)
BlankInv == \A r \in Requests : phase[r] \in {"new", "over"} => messages[r] = <<>>

HistoryInv == TypeOK /\ RowsInv /\ MessageInv /\ BlankInv

ContinuedInv ==
    \A r \in Requests : phase[r] = "calling" =>
        \A m \in Range(messages[r]) :
            m.turn = prev[r] => m.form \in {NoProvider, provider[r]}

-----------------------------------------------------------------------------
(* Sequences: what the elements of the results are.                        *)

(* The elements of a sequence over S are in S. *)
LEMMA InRange ==
    ASSUME NEW S, NEW s \in Seq(S), NEW x \in Range(s)
    PROVE  x \in S
<1>1. PICK i \in DOMAIN s : x = s[i]
  BY DEF Range
<1> QED
  BY <1>1, LenProperties, ElementOfSeq

(* The only element of a sequence of one element. *)
LEMMA SingletonRange ==
    ASSUME NEW S, NEW x \in S
    PROVE  <<x>> \in Seq(S) /\ Range(<<x>>) = {x}
  BY DEF Range

(* Appending adds one element. *)
LEMMA AppendRange ==
    ASSUME NEW S, NEW s \in Seq(S), NEW x \in S
    PROVE  Append(s, x) \in Seq(S) /\ Range(Append(s, x)) = Range(s) \cup {x}
<1> DEFINE one == <<x>>
<1>1. one \in Seq(S) /\ Range(one) = {x}
  BY SingletonRange
<1>2. Append(s, x) = s \o one
  BY AppendIsConcat
<1>3. Append(s, x) \in Seq(S)
  BY AppendProperties
<1> HIDE DEF one
<1>4. Range(s \o one) = Range(s) \cup Range(one)
  BY <1>1, RangeConcatenation
<1> QED
  BY <1>1, <1>2, <1>3, <1>4

(* Replacing an element adds at most the new one. *)
LEMMA ExceptRange ==
    ASSUME NEW S, NEW s \in Seq(S), NEW i \in 1 .. Len(s), NEW x \in S
    PROVE  [s EXCEPT ![i] = x] \in Seq(S) /\ Range([s EXCEPT ![i] = x]) \subseteq Range(s) \cup {x}
<1>1. /\ [s EXCEPT ![i] = x] \in Seq(S)
      /\ DOMAIN [s EXCEPT ![i] = x] = DOMAIN s
  BY ExceptSeq
<1> QED
  BY <1>1 DEF Range

(* A part of a sequence has no new elements. *)
LEMMA SubSeqRange ==
    ASSUME NEW S, NEW s \in Seq(S), NEW i \in Int, NEW j \in Int,
           1 <= i, j <= Len(s)
    PROVE  SubSeq(s, i, j) \in Seq(S) /\ Range(SubSeq(s, i, j)) \subseteq Range(s)
<1>0. Len(s) \in Nat /\ DOMAIN s = 1 .. Len(s) /\ \A n \in 1 .. Len(s) : s[n] \in S
  BY LenProperties, ElementOfSeq
<1> DEFINE n == IF i <= j THEN j - i + 1 ELSE 0
           t == [k \in 1 .. n |-> s[i + k - 1]]
<1>1. SubSeq(s, i, j) = t
  OBVIOUS
<1>2. n \in Nat /\ \A k \in 1 .. n : i + k - 1 \in 1 .. Len(s)
  BY <1>0
<1>3. t \in Seq(S)
  BY <1>0, <1>2, IsASeq
<1>4. Range(t) \subseteq Range(s)
  BY <1>0, <1>2 DEF Range
<1> QED
  BY <1>1, <1>3, <1>4

(* Removing an element adds none. *)
LEMMA RemoveAtRange ==
    ASSUME NEW S, NEW s \in Seq(S), NEW k \in 1 .. Len(s)
    PROVE  RemoveAt(s, k) \in Seq(S) /\ Range(RemoveAt(s, k)) \subseteq Range(s)
<1>1. /\ SubSeq(s, 1, k - 1) \in Seq(S) /\ Range(SubSeq(s, 1, k - 1)) \subseteq Range(s)
      /\ SubSeq(s, k + 1, Len(s)) \in Seq(S)
      /\ Range(SubSeq(s, k + 1, Len(s))) \subseteq Range(s)
  BY SubSeqRange, LenProperties
<1>2. RemoveAt(s, k) = SubSeq(s, 1, k - 1) \o SubSeq(s, k + 1, Len(s))
  BY DEF RemoveAt
<1> DEFINE a == SubSeq(s, 1, k - 1)
           b == SubSeq(s, k + 1, Len(s))
<1> HIDE DEF a, b
<1>3. a \o b \in Seq(S) /\ Range(a \o b) = Range(a) \cup Range(b)
  BY <1>1, RangeConcatenation, ConcatProperties, ZenonT(40) DEF a, b
<1> QED
  BY <1>1, <1>2, <1>3 DEF a, b

-----------------------------------------------------------------------------
(* Ownership passes on from a row to the rows that it was built from. *)
LEMMA OwnsOlder ==
    ASSUME NEW w \in Principals \cup {Nobody}, NEW v \in Principals \cup {Nobody}, NEW o,
           Ordinary(w), OwnsConversation(w, v),
           Ordinary(v) => OwnsConversation(v, o)
    PROVE  OwnsConversation(w, o)
<1>1. Ordinary(v)
  <2>1. v.user \notin AdminUsers
    BY DEF Ordinary, OwnsConversation
  <2>2. v # Nobody
    BY ConversationsAssumption DEF ConversationsAssumption, Ordinary, OwnsConversation, Nobody
  <2> QED
    BY <2>1, <2>2 DEF Ordinary
<1> QED
  BY <1>1 DEF OwnsConversation

(* The native form of the answer of a row is a message of its turn. *)
LEMMA NativeType ==
    ASSUME TypeOK, NEW p \in Requests
    PROVE  /\ NativeMessage(p) \in Msg
           /\ NativeMessage(p).turn = p /\ NativeMessage(p).form = provider[p]
  BY DEF TypeOK, NativeMessage, Message, Msg

(* What a follow-up sends consists of the messages of the row and, to the  *)
(* provider of the row, its answer in the native form.                     *)
LEMMA ReplayRange ==
    ASSUME TypeOK, NEW p \in Requests, NEW q
    PROVE  /\ applyReplayState(p, q) \in Seq(Msg)
           /\ \A m \in Range(applyReplayState(p, q)) :
                m \in Range(messages[p]) \/ (m = NativeMessage(p) /\ provider[p] = q)
<1>1. messages[p] \in Seq(Msg)
  BY DEF TypeOK
<1>2. CASE provider[p] = q /\ HasNative(p) /\ index[p] \in 1 .. Len(messages[p])
  <2>1. applyReplayState(p, q) = [messages[p] EXCEPT ![index[p]] = NativeMessage(p)]
    BY <1>2 DEF applyReplayState
  <2> QED
    BY <1>1, <1>2, <2>1, NativeType, ExceptRange
<1>3. CASE ~(provider[p] = q /\ HasNative(p) /\ index[p] \in 1 .. Len(messages[p]))
  BY <1>1, <1>3 DEF applyReplayState
<1> QED
  BY <1>2, <1>3

(* The same with the messages that item references put in front. *)
LEMMA HistoryRange ==
    ASSUME TypeOK, NEW p \in Requests, NEW q, NEW ref
    PROVE  /\ HistoryMsgs(p, q, ref) \in Seq(Msg)
           /\ \A m \in Range(HistoryMsgs(p, q, ref)) :
                m \in Range(messages[p]) \/ (m = NativeMessage(p) /\ provider[p] = q)
<1> DEFINE history == applyReplayState(p, q)
           resolved == resolveItemReferences(ref, history, p, q)
<1>1. /\ history \in Seq(Msg)
      /\ \A m \in Range(history) :
           m \in Range(messages[p]) \/ (m = NativeMessage(p) /\ provider[p] = q)
  BY ReplayRange
<1> HIDE DEF history
<1>2. /\ resolved \in Seq(Msg)
      /\ \A m \in Range(resolved) :
           m \in Range(history) \/ (m = NativeMessage(p) /\ provider[p] = q)
  <2>1. CASE resolved = <<>>
    BY <2>1 DEF Range
  <2>2. CASE resolved = <<NativeMessage(p)>> /\ provider[p] = q
    <3> HIDE DEF resolved
    <3> QED
      BY <2>2, NativeType, SingletonRange
  <2>3. CASE resolved = <<history[index[p]]>> /\ index[p] \in 1 .. Len(history)
    <3>1. history[index[p]] \in Range(history) /\ history[index[p]] \in Msg
      BY <1>1, <2>3, RangeEquality, ElementOfSeq
    <3> HIDE DEF resolved
    <3> QED
      BY <2>3, <3>1, SingletonRange
  <2> QED
    BY <2>1, <2>2, <2>3 DEF resolveItemReferences
<1>3. HistoryMsgs(p, q, ref) = resolved \o history
  BY DEF HistoryMsgs, history
<1> HIDE DEF resolved
<1> QED
  BY <1>1, <1>2, <1>3, RangeConcatenation, ConcatProperties

-----------------------------------------------------------------------------
(* A message belongs to the turn of a request. *)
LEMMA MessageTurn ==
    ASSUME NEW ms \in Seq(Msg), NEW m \in Range(ms)
    PROVE  m.turn \in Requests
<1>1. m \in Msg
  BY InRange
<1> QED
  BY <1>1 DEF Msg

(* What a step that concerns one request, whose handler is not through,    *)
(* leaves to be shown: the claim about the messages of that request.       *)
LEMMA OneRequest ==
    ASSUME HistoryInv, NEW r \in Requests, phase[r] # "done",
           NEW f, NEW w, NEW ms,
           phase' = [phase EXCEPT ![r] = f],
           who' = [who EXCEPT ![r] = w],
           messages' = [messages EXCEPT ![r] = ms],
           \A m \in Range(ms) :
             /\ m.turn = r => m.form = NoProvider
             /\ m.turn # r => phase[m.turn] = "done"
             /\ m.turn \in Requests
             /\ Ordinary(w) => OwnsConversation(w, IF m.turn = r THEN w ELSE who[m.turn])
    PROVE  MessageInv'
<1> SUFFICES ASSUME NEW s \in Requests, NEW m \in Range(messages'[s])
             PROVE  /\ m.turn = s => m.form = NoProvider
                    /\ m.turn # s => phase'[m.turn] = "done"
                    /\ Ordinary(who'[s]) => OwnsConversation(who'[s], who'[m.turn])
  BY DEF MessageInv, Ordinary, OwnsConversation
<1>0. phase \in [Requests -> Phase] /\ who \in [Requests -> Principals \cup {Nobody}]
      /\ messages \in [Requests -> Seq(Msg)]
  BY DEF HistoryInv, TypeOK
<1>1. CASE s = r
  <2>1. m \in Range(ms) /\ who'[s] = w
    BY <1>0, <1>1
  <2>2. m.turn # r => phase'[m.turn] = phase[m.turn] /\ who'[m.turn] = who[m.turn]
    BY <1>0, <2>1
  <2>3. m.turn = r => who'[m.turn] = w
    BY <1>0
  <2> QED
    BY <1>1, <2>1, <2>2, <2>3
<1>2. CASE s # r
  <2>1. m \in Range(messages[s]) /\ who'[s] = who[s]
    BY <1>0, <1>2
  <2>2. m.turn \in Requests
    BY <1>0, <2>1, MessageTurn
  <2>3. /\ m.turn = s => m.form = NoProvider
        /\ m.turn # s => phase[m.turn] = "done"
        /\ Ordinary(who[s]) => OwnsConversation(who[s], who[m.turn])
    BY <2>1 DEF HistoryInv, MessageInv
  <2>4. m.turn # r
    BY <1>2, <2>3
  <2>5. phase'[m.turn] = phase[m.turn] /\ who'[m.turn] = who[m.turn]
    BY <1>0, <2>2, <2>4
  <2> QED
    BY <2>1, <2>3, <2>5
<1> QED
  BY <1>1, <1>2

(* The messages that a request starts with: its predecessor's, the native  *)
(* answer of the predecessor, and its own input.                           *)
LEMMA FollowUpMessages ==
    ASSUME HistoryInv, NEW r \in Requests, NEW w \in Principals, NEW p \in rows,
           NEW q \in Providers, NEW ref, FollowUp(r, w, p, q, ref)
    PROVE  /\ p \in Requests /\ phase[p] = "done" /\ p # r
           /\ messages'[r] \in Seq(Msg)
           /\ messages' = [messages EXCEPT ![r] = messages'[r]]
           /\ \A m \in Range(messages'[r]) :
                \/ m = Message(r, "user", NoProvider)
                \/ m \in Range(messages[p])
                \/ m = NativeMessage(p) /\ provider[p] = q
<1>0. TypeOK
  BY DEF HistoryInv
<1>1. p \in Requests
  BY <1>0, InRange DEF TypeOK, rows
<1>2. phase[p] = "done" /\ p # r
  BY DEF HistoryInv, RowsInv, FollowUp, Arrives
<1>3. Message(r, "user", NoProvider) \in Msg
  BY DEF Message, Msg, Form
<1>4. /\ HistoryMsgs(p, q, ref) \in Seq(Msg)
      /\ \A m \in Range(HistoryMsgs(p, q, ref)) :
           m \in Range(messages[p]) \/ (m = NativeMessage(p) /\ provider[p] = q)
  BY <1>0, <1>1, HistoryRange
<1> DEFINE h == HistoryMsgs(p, q, ref)
           x == Message(r, "user", NoProvider)
<1>5. messages' = [messages EXCEPT ![r] = Append(h, x)] /\ messages'[r] = Append(h, x)
  BY <1>0 DEF FollowUp, Accept, TypeOK
<1> HIDE DEF h, x
<1>6. Append(h, x) \in Seq(Msg) /\ Range(Append(h, x)) = Range(h) \cup {x}
  BY <1>3, <1>4, AppendRange DEF h, x
<1> QED
  BY <1>1, <1>2, <1>4, <1>5, <1>6 DEF h, x

(* A request that is not refused has its caller's messages only. *)
LEMMA FollowUpStep ==
    ASSUME HistoryInv, NEW r \in Requests, NEW w \in Principals, NEW p \in rows,
           NEW q \in Providers, NEW ref, FollowUp(r, w, p, q, ref)
    PROVE  HistoryInv'
<1>0. TypeOK
  BY DEF HistoryInv
<1>1. /\ p \in Requests /\ phase[p] = "done" /\ p # r
      /\ messages'[r] \in Seq(Msg)
      /\ messages' = [messages EXCEPT ![r] = messages'[r]]
      /\ \A m \in Range(messages'[r]) :
           \/ m = Message(r, "user", NoProvider)
           \/ m \in Range(messages[p])
           \/ m = NativeMessage(p) /\ provider[p] = q
  BY FollowUpMessages
<1>2. /\ phase[r] = "new" /\ CanContinue(w, p)
      /\ phase' = [phase EXCEPT ![r] = "calling"]
      /\ who' = [who EXCEPT ![r] = w]
      /\ prev' = [prev EXCEPT ![r] = p]
      /\ provider' = [provider EXCEPT ![r] = q]
      /\ index' = index /\ table' = table
  BY DEF FollowUp, Accept, Arrives
<1>3. TypeOK'
  BY <1>0, <1>1, <1>2 DEF TypeOK, Phase, Form, Requests
<1>4. RowsInv'
  BY <1>0, <1>2 DEF HistoryInv, RowsInv, TypeOK, rows
<1>5. BlankInv'
  BY <1>0, <1>1, <1>2 DEF HistoryInv, BlankInv, TypeOK
<1>6. ASSUME NEW m \in Range(messages'[r])
      PROVE  /\ m.turn = r => m.form = NoProvider
             /\ m.turn # r => phase[m.turn] = "done"
             /\ m.turn \in Requests
             /\ Ordinary(w) => OwnsConversation(w, IF m.turn = r THEN w ELSE who[m.turn])
  <2>1. CASE m = Message(r, "user", NoProvider)
    BY <2>1 DEF Message, OwnsConversation
  <2>2. Ordinary(w) => OwnsConversation(w, who[p])
    BY <1>2 DEF CanContinue, Ordinary
  <2>3. CASE m \in Range(messages[p])
    <3>1. m.turn \in Requests
      BY <1>0, <1>1, <2>3, MessageTurn DEF TypeOK
    <3>2. /\ m.turn # p => phase[m.turn] = "done"
          /\ Ordinary(who[p]) => OwnsConversation(who[p], who[m.turn])
      BY <1>1, <2>3 DEF HistoryInv, MessageInv
    <3>3. m.turn # r /\ phase[m.turn] = "done"
      BY <1>1, <1>2, <3>2
    <3>4. who[p] \in Principals \cup {Nobody}
      BY <1>0, <1>1 DEF TypeOK
    <3>5. Ordinary(w) => OwnsConversation(w, who[m.turn])
      BY <2>2, <3>2, <3>4, OwnsOlder
    <3> QED
      BY <3>1, <3>3, <3>5
  <2>4. CASE m = NativeMessage(p)
    <3>1. m.turn = p
      BY <1>0, <1>1, <2>4, NativeType
    <3> QED
      BY <1>1, <2>2, <3>1
  <2> QED
    BY <1>1, <2>1, <2>3, <2>4
<1>7. MessageInv'
  BY <1>1, <1>2, <1>6, OneRequest
<1> QED
  BY <1>3, <1>4, <1>5, <1>7 DEF HistoryInv

(* The first turn of a conversation has nothing but its own input. *)
LEMMA FirstTurnStep ==
    ASSUME HistoryInv, NEW r \in Requests, NEW w \in Principals,
           NEW q \in Providers, FirstTurn(r, w, q)
    PROVE  /\ HistoryInv'
           /\ \A m \in Range(messages'[r]) : m.form = NoProvider
<1>0. TypeOK
  BY DEF HistoryInv
<1> DEFINE x == Message(r, "user", NoProvider)
<1>1. x \in Msg /\ x.turn = r /\ x.form = NoProvider
  BY DEF Message, Msg, Form
<1>2. /\ phase[r] = "new"
      /\ phase' = [phase EXCEPT ![r] = "calling"]
      /\ who' = [who EXCEPT ![r] = w]
      /\ prev' = [prev EXCEPT ![r] = 0]
      /\ provider' = [provider EXCEPT ![r] = q]
      /\ messages' = [messages EXCEPT ![r] = Append(<<>>, x)]
      /\ index' = index /\ table' = table
  BY DEF FirstTurn, Accept, Arrives
<1> HIDE DEF x
<1>3. Append(<<>>, x) \in Seq(Msg) /\ Range(Append(<<>>, x)) = {x}
  <2> DEFINE e == <<>>
  <2>1. e \in Seq(Msg) /\ Range(e) = {}
    BY DEF Range
  <2> HIDE DEF e
  <2>2. Append(e, x) \in Seq(Msg) /\ Range(Append(e, x)) = Range(e) \cup {x}
    BY <1>1, <2>1, AppendRange
  <2> QED
    BY <2>1, <2>2 DEF e
<1>4. TypeOK'
  BY <1>0, <1>2, <1>3 DEF TypeOK, Phase, Form
<1>5. RowsInv'
  BY <1>0, <1>2 DEF HistoryInv, RowsInv, TypeOK, rows
<1>6. BlankInv'
  BY <1>0, <1>2 DEF HistoryInv, BlankInv, TypeOK
<1>7. OwnsConversation(w, w)
  BY DEF OwnsConversation
<1>8. MessageInv'
  BY <1>1, <1>2, <1>3, <1>7, OneRequest
<1>9. messages'[r] = Append(<<>>, x)
  BY <1>0, <1>2 DEF TypeOK
<1> QED
  BY <1>1, <1>3, <1>4, <1>5, <1>6, <1>8, <1>9 DEF HistoryInv

(* A handler that leaves no row takes its messages with it. *)
LEMMA ReturnStep ==
    ASSUME HistoryInv, NEW r \in Requests, phase[r] # "done", Return(r)
    PROVE  HistoryInv'
<1>0. TypeOK
  BY DEF HistoryInv
<1>1. /\ phase' = [phase EXCEPT ![r] = "over"]
      /\ who' = [who EXCEPT ![r] = Nobody]
      /\ prev' = [prev EXCEPT ![r] = 0]
      /\ provider' = [provider EXCEPT ![r] = NoProvider]
      /\ messages' = [messages EXCEPT ![r] = <<>>]
      /\ index' = index /\ table' = table
  BY DEF Return
<1>2. TypeOK'
  BY <1>0, <1>1 DEF TypeOK, Phase, Form
<1>3. RowsInv'
  BY <1>0, <1>1 DEF HistoryInv, RowsInv, TypeOK, rows
<1>4. BlankInv'
  BY <1>0, <1>1 DEF HistoryInv, BlankInv, TypeOK
<1>5. Range(<<>>) = {}
  BY DEF Range
<1>6. MessageInv'
  BY <1>1, <1>5, OneRequest
<1> QED
  BY <1>2, <1>3, <1>4, <1>6 DEF HistoryInv

(* The answer of the provider leaves the messages alone. *)
LEMMA AnsweredStep ==
    ASSUME HistoryInv, NEW r \in Requests, NEW a, Answered(r, a)
    PROVE  HistoryInv'
<1>0. TypeOK
  BY DEF HistoryInv
<1>1. /\ phase[r] = "calling"
      /\ phase' = [phase EXCEPT ![r] = "answered"]
      /\ who' = who /\ prev' = prev /\ provider' = provider
      /\ messages' = messages /\ index' = index /\ table' = table
  BY DEF Answered, CanAnswer
<1>2. TypeOK'
  BY <1>0, <1>1 DEF TypeOK, Phase
<1>3. RowsInv'
  BY <1>0, <1>1 DEF HistoryInv, RowsInv, TypeOK, rows
<1>4. BlankInv'
  BY <1>0, <1>1 DEF HistoryInv, BlankInv, TypeOK
<1>5. MessageInv'
  <2>1. \A s \in Requests : phase[s] = "done" => phase'[s] = "done"
    BY <1>0, <1>1 DEF TypeOK
  <2>2. ASSUME NEW s \in Requests, NEW m \in Range(messages[s])
        PROVE  m.turn \in Requests
    BY <1>0, MessageTurn DEF TypeOK
  <2> QED
    BY <1>1, <2>1, <2>2 DEF HistoryInv, MessageInv
<1> QED
  BY <1>2, <1>3, <1>4, <1>5 DEF HistoryInv

(* The row of a response gets its answer, in the neutral form, as the last *)
(* message.                                                                *)
LEMMA CreateStep ==
    ASSUME HistoryInv, NEW r \in Requests, Create(r)
    PROVE  HistoryInv'
<1>0. TypeOK
  BY DEF HistoryInv
<1> DEFINE ms == messages[r] \o buildAssistantMessage(r)
<1>1. /\ phase[r] = "answered"
      /\ phase' = [phase EXCEPT ![r] = "done"]
      /\ who' = who /\ prev' = prev /\ provider' = provider
      /\ messages' = [messages EXCEPT ![r] = ms]
      /\ index' = [index EXCEPT ![r] = buildReplayState(r)]
      /\ table' = <<r>> \o table
  BY DEF Create
<1>2. messages[r] \in Seq(Msg)
  BY <1>0 DEF TypeOK
<1>3. /\ ms \in Seq(Msg)
      /\ \A m \in Range(ms) : m \in Range(messages[r]) \/ (m.turn = r /\ m.form = NoProvider)
  <2> DEFINE x == Message(r, "assistant", NoProvider)
  <2>1. x \in Msg /\ x.turn = r /\ x.form = NoProvider
    BY DEF Message, Msg, Form
  <2>2. buildAssistantMessage(r) = <<>> \/ buildAssistantMessage(r) = <<x>>
    BY DEF buildAssistantMessage
  <2> HIDE DEF x
  <2>3. <<x>> \in Seq(Msg) /\ Range(<<x>>) = {x}
    BY <2>1, SingletonRange
  <2>4. <<>> \in Seq(Msg) /\ Range(<<>>) = {}
    BY DEF Range
  <2>5. buildAssistantMessage(r) \in Seq(Msg) /\ Range(buildAssistantMessage(r)) \subseteq {x}
    BY <2>2, <2>3, <2>4
  <2> QED
    BY <1>2, <2>1, <2>5, RangeConcatenation, ConcatProperties
<1> HIDE DEF ms
<1>4. table' \in Seq(Requests) /\ rows' = rows \cup {r}
  <2> DEFINE first == <<r>>
  <2>1. first \in Seq(Requests) /\ Range(first) = {r}
    BY SingletonRange
  <2>2. table \in Seq(Requests)
    BY <1>0 DEF TypeOK
  <2>3. table' = first \o table
    BY <1>1
  <2> HIDE DEF first
  <2>4. Range(first \o table) = Range(first) \cup Range(table)
    BY <2>1, <2>2, RangeConcatenation
  <2> QED
    BY <2>1, <2>2, <2>3, <2>4, ConcatProperties DEF rows
<1>5. buildReplayState(r) \in Nat
  BY <1>2, LenProperties DEF buildReplayState
<1>6. TypeOK'
  BY <1>0, <1>1, <1>3, <1>4, <1>5 DEF TypeOK, Phase
<1>7. RowsInv'
  BY <1>0, <1>1, <1>4 DEF HistoryInv, RowsInv, TypeOK
<1>8. BlankInv'
  BY <1>0, <1>1 DEF HistoryInv, BlankInv, TypeOK
<1>9. ASSUME NEW m \in Range(ms)
      PROVE  /\ m.turn = r => m.form = NoProvider
             /\ m.turn # r => phase[m.turn] = "done"
             /\ m.turn \in Requests
             /\ Ordinary(who[r]) =>
                  OwnsConversation(who[r], IF m.turn = r THEN who[r] ELSE who[m.turn])
  <2>1. m.turn \in Requests
    BY <1>3, MessageTurn
  <2>2. CASE m \in Range(messages[r])
    BY <2>1, <2>2 DEF HistoryInv, MessageInv
  <2>3. CASE m.turn = r /\ m.form = NoProvider
    BY <2>3 DEF OwnsConversation
  <2> QED
    BY <1>3, <2>2, <2>3
<1>10. who' = [who EXCEPT ![r] = who[r]]
  BY <1>0, <1>1 DEF TypeOK
<1>11. MessageInv'
  BY <1>1, <1>9, <1>10, OneRequest
<1> QED
  BY <1>6, <1>7, <1>8, <1>11 DEF HistoryInv

(* A row that disappears takes its messages and its replay state with it;  *)
(* the others keep theirs.                                                 *)
LEMMA RemoveStep ==
    ASSUME HistoryInv, NEW gone, NEW left,
           gone \subseteq rows, left \in Seq(Requests), Range(left) \subseteq rows,
           RemoveRows(gone, left), UNCHANGED <<phase, who, prev>>
    PROVE  /\ HistoryInv'
           /\ \A r \in Requests : phase[r] = "calling" =>
                provider'[r] = provider[r] /\ messages'[r] = messages[r]
<1>0. TypeOK
  BY DEF HistoryInv
<1>1. /\ table' = left
      /\ messages' = [r \in Requests |-> IF r \in gone THEN <<>> ELSE messages[r]]
      /\ index' = [r \in Requests |-> IF r \in gone THEN 0 ELSE index[r]]
      /\ provider' = [r \in Requests |-> IF r \in gone THEN NoProvider ELSE provider[r]]
  BY DEF RemoveRows
<1>2. TypeOK'
  <2>1. messages' \in [Requests -> Seq(Msg)]
    BY <1>0, <1>1 DEF TypeOK
  <2>2. index' \in [Requests -> Nat] /\ provider' \in [Requests -> Form]
    BY <1>0, <1>1 DEF TypeOK, Form
  <2> QED
    BY <1>0, <1>1, <2>1, <2>2 DEF TypeOK
<1>3. RowsInv'
  BY <1>1 DEF HistoryInv, RowsInv, rows
<1>4. BlankInv'
  BY <1>1 DEF HistoryInv, BlankInv
<1>5. \A r \in Requests : Range(messages'[r]) \subseteq Range(messages[r])
  <2>1. Range(<<>>) = {}
    BY DEF Range
  <2> QED
    BY <1>1, <2>1
<1>6. MessageInv'
  BY <1>5 DEF HistoryInv, MessageInv, Ordinary, OwnsConversation
<1>7. \A r \in Requests : phase[r] = "calling" => r \notin gone
  BY DEF HistoryInv, RowsInv
<1> QED
  BY <1>1, <1>2, <1>3, <1>4, <1>6, <1>7 DEF HistoryInv

(* A row is deleted. *)
LEMMA DeleteRowStep ==
    ASSUME HistoryInv, NEW p, DeleteRow(p)
    PROVE  /\ HistoryInv' /\ UNCHANGED <<phase, prev>>
           /\ \A r \in Requests : phase[r] = "calling" =>
                provider'[r] = provider[r] /\ messages'[r] = messages[r]
<1>1. PICK k \in DOMAIN table : table[k] = p /\ RemoveRows({p}, RemoveAt(table, k))
  BY DEF DeleteRow
<1>2. table \in Seq(Requests) /\ k \in 1 .. Len(table)
  BY LenProperties DEF HistoryInv, TypeOK
<1>3. RemoveAt(table, k) \in Seq(Requests) /\ Range(RemoveAt(table, k)) \subseteq Range(table)
  BY <1>2, RemoveAtRange
<1>4. {p} \subseteq rows
  BY <1>1 DEF rows, Range
<1>5. UNCHANGED <<phase, who, prev>>
  BY DEF DeleteRow
<1> QED
  BY <1>1, <1>3, <1>4, <1>5, RemoveStep DEF rows

(* Rows expire. *)
LEMMA CleanupStep ==
    ASSUME HistoryInv, NEW k \in DOMAIN table, cleanup(k)
    PROVE  /\ HistoryInv' /\ UNCHANGED <<phase, prev>>
           /\ \A r \in Requests : phase[r] = "calling" =>
                provider'[r] = provider[r] /\ messages'[r] = messages[r]
<1>1. table \in Seq(Requests) /\ k \in 1 .. Len(table) /\ Len(table) \in Nat
  BY LenProperties DEF HistoryInv, TypeOK
<1> DEFINE old == SubSeq(table, k, Len(table))
           left == SubSeq(table, 1, k - 1)
<1>2. RemoveRows(Range(old), left) /\ UNCHANGED <<phase, who, prev>>
  BY DEF cleanup
<1>3. Range(old) \subseteq Range(table)
  BY <1>1, SubSeqRange
<1>4. left \in Seq(Requests) /\ Range(left) \subseteq Range(table)
  BY <1>1, SubSeqRange
<1> HIDE DEF old, left
<1> QED
  BY <1>2, <1>3, <1>4, RemoveStep DEF rows

(* Listing reads only. *)
LEMMA ReadStep ==
    ASSUME HistoryInv, UNCHANGED <<phase, who, prev, provider, messages, index, table>>
    PROVE  HistoryInv'
  BY DEF HistoryInv, TypeOK, RowsInv, MessageInv, BlankInv, Ordinary, OwnsConversation, rows

-----------------------------------------------------------------------------
(* Initially nothing is stored. *)
LEMMA HistoryInitial == Init => HistoryInv
<1> SUFFICES ASSUME Init PROVE HistoryInv
  OBVIOUS
<1>1. TypeOK
  BY DEF Init, TypeOK, Phase, Form
<1>2. RowsInv /\ MessageInv
  BY DEF Init, RowsInv, MessageInv, rows, Range
<1>3. BlankInv
  BY DEF Init, BlankInv
<1> QED
  BY <1>1, <1>2, <1>3 DEF HistoryInv

(* Every step keeps what is known of the messages of every request. *)
LEMMA HistoryStep == HistoryInv /\ [Next]_vars => HistoryInv'
<1> SUFFICES ASSUME HistoryInv, [Next]_vars PROVE HistoryInv'
  OBVIOUS
<1>1. ASSUME NEW r \in Requests, Handler(r)
      PROVE  HistoryInv'
  <2>1. CASE \E w \in Principals, q \in Providers : FirstTurn(r, w, q)
    BY <2>1, FirstTurnStep
  <2>2. CASE \E w \in Principals, p \in rows, q \in Providers,
               ref \in {"none"} \cup UNION {OutputItems(a) : a \in Answers} :
                 FollowUp(r, w, p, q, ref)
    BY <2>2, FollowUpStep
  <2>3. CASE Refuse(r) \/ ProviderFails(r) \/ AnswerStreamEmpty(r) \/ CreateSkipped(r)
    <3>1. phase[r] # "done" /\ Return(r)
      BY <2>3 DEF Refuse, Arrives, ProviderFails, AnswerStreamEmpty, CanAnswer, CreateSkipped
    <3> QED
      BY <3>1, ReturnStep
  <2>4. CASE \E a \in Answers : AnswerSync(r, a) \/ AnswerStream(r, a)
    BY <2>4, AnsweredStep DEF AnswerSync, AnswerStream
  <2>5. CASE Create(r)
    BY <2>5, CreateStep
  <2> QED
    BY <1>1, <2>1, <2>2, <2>3, <2>4, <2>5 DEF Handler
<1>2. CASE \E w \in Principals, t \in Tenants \cup {NoTenant} : StartListing(w, t)
  BY <1>2, ReadStep DEF StartListing
<1>3. CASE NextPage
  BY <1>3, ReadStep DEF NextPage
<1>4. CASE \E p \in rows : handleDeleteResponse(p)
  BY <1>4, DeleteRowStep DEF handleDeleteResponse
<1>5. CASE \E p \in rows : HandleDeleteConversation(p)
  BY <1>5, DeleteRowStep DEF HandleDeleteConversation
<1>6. CASE \E k \in DOMAIN table : cleanup(k)
  BY <1>6, CleanupStep
<1>7. CASE UNCHANGED vars
  BY <1>7, ReadStep DEF vars
<1> QED
  BY <1>1, <1>2, <1>3, <1>4, <1>5, <1>6, <1>7 DEF Next

(* Type correctness of the requests and of the table, and what is known of *)
(* the messages of a request while it is served and after it is stored     *)
(* (handleResponses, Create, the deletions and the expiry).                *)
THEOREM HistoryInvariant == Spec => []HistoryInv
  BY HistoryInitial, HistoryStep, PTL DEF Spec

(* The messages of a row are turns of conversations that the owner of the  *)
(* row owns, for any number of tenants, users, follow-ups and deletions    *)
(* (the ownership check of handleResponses).                               *)
THEOREM HistoryOwned == Spec => []HistoryStaysWithOwner
<1>1. HistoryInv => HistoryStaysWithOwner
  <2> SUFFICES ASSUME HistoryInv, NEW r \in rows, who[r] # Nobody,
                      who[r].user \notin AdminUsers, NEW i \in 1 .. Len(messages[r])
               PROVE  OwnsConversation(who[r], who[messages[r][i].turn])
    BY DEF HistoryStaysWithOwner
  <2>1. r \in Requests
    BY InRange DEF HistoryInv, TypeOK, rows
  <2>2. messages[r][i] \in Range(messages[r])
    BY <2>1, RangeEquality DEF HistoryInv, TypeOK
  <2> QED
    BY <2>1, <2>2 DEF HistoryInv, MessageInv, Ordinary
<1> QED
  BY <1>1, HistoryInvariant, PTL

-----------------------------------------------------------------------------
(* The answer that is continued: a step changes the messages, the          *)
(* predecessor or the provider of a waiting request only when the request  *)
(* begins to wait.                                                         *)
LEMMA ContinuedStep == HistoryInv /\ ContinuedInv /\ [Next]_vars => ContinuedInv'
<1> SUFFICES ASSUME HistoryInv, ContinuedInv, [Next]_vars, NEW s \in Requests,
                    phase'[s] = "calling", NEW m \in Range(messages'[s]),
                    m.turn = prev'[s]
             PROVE  m.form \in {NoProvider, provider'[s]}
  BY DEF ContinuedInv
<1>0. TypeOK
  BY DEF HistoryInv
<1>1. ASSUME phase[s] = "calling", messages'[s] = messages[s], prev'[s] = prev[s],
             provider'[s] = provider[s]
      PROVE  m.form \in {NoProvider, provider'[s]}
  BY <1>1 DEF ContinuedInv
<1>2. ASSUME NEW r \in Requests, Handler(r)
      PROVE  m.form \in {NoProvider, provider'[s]}
  <2>1. CASE \E w \in Principals, q \in Providers : FirstTurn(r, w, q)
    <3>1. PICK w \in Principals, q \in Providers : FirstTurn(r, w, q)
      BY <2>1
    <3>2. CASE s = r
      BY <3>1, <3>2, FirstTurnStep
    <3>3. CASE s # r
      BY <1>0, <1>1, <3>1, <3>3 DEF FirstTurn, Accept, TypeOK
    <3> QED
      BY <3>2, <3>3
  <2>2. CASE \E w \in Principals, p \in rows, q \in Providers,
               ref \in {"none"} \cup UNION {OutputItems(a) : a \in Answers} :
                 FollowUp(r, w, p, q, ref)
    <3>1. PICK w \in Principals, p \in rows, q \in Providers,
               ref \in {"none"} \cup UNION {OutputItems(a) : a \in Answers} :
                 FollowUp(r, w, p, q, ref)
      BY <2>2
    <3>2. CASE s = r
      <4>1. /\ p \in Requests
            /\ \/ m = Message(r, "user", NoProvider)
               \/ m \in Range(messages[p])
               \/ m = NativeMessage(p) /\ provider[p] = q
        BY <3>1, <3>2, FollowUpMessages
      <4>2. prev'[s] = p /\ provider'[s] = q
        BY <1>0, <3>1, <3>2 DEF FollowUp, Accept, TypeOK
      <4>3. CASE m = Message(r, "user", NoProvider)
        BY <4>3 DEF Message
      <4>4. CASE m \in Range(messages[p])
        BY <4>1, <4>2, <4>4 DEF HistoryInv, MessageInv
      <4>5. CASE m = NativeMessage(p) /\ provider[p] = q
        BY <1>0, <4>1, <4>2, <4>5, NativeType
      <4> QED
        BY <4>1, <4>3, <4>4, <4>5
    <3>3. CASE s # r
      BY <1>0, <1>1, <3>1, <3>3 DEF FollowUp, Accept, TypeOK
    <3> QED
      BY <3>2, <3>3
  <2>3. CASE Return(r)
    BY <1>0, <1>1, <2>3 DEF Return, TypeOK
  <2>4. CASE \E a \in Answers : Answered(r, a)
    BY <1>0, <1>1, <2>4 DEF Answered, TypeOK
  <2>5. CASE Create(r)
    BY <1>0, <1>1, <2>5 DEF Create, TypeOK
  <2> QED
    BY <1>2, <2>1, <2>2, <2>3, <2>4, <2>5
    DEF Handler, Refuse, ProviderFails, AnswerStreamEmpty, CreateSkipped,
        AnswerSync, AnswerStream
<1>3. CASE (\E w \in Principals, t \in Tenants \cup {NoTenant} : StartListing(w, t)) \/ NextPage
  BY <1>1, <1>3 DEF StartListing, NextPage
<1>4. CASE (\E p \in rows : handleDeleteResponse(p))
             \/ (\E p \in rows : HandleDeleteConversation(p))
  BY <1>1, <1>4, DeleteRowStep DEF handleDeleteResponse, HandleDeleteConversation
<1>5. CASE \E k \in DOMAIN table : cleanup(k)
  BY <1>1, <1>5, CleanupStep
<1>6. CASE UNCHANGED vars
  BY <1>1, <1>6 DEF vars
<1> QED
  BY <1>2, <1>3, <1>4, <1>5, <1>6 DEF Next

(* The answer that a follow-up continues reaches another provider only in  *)
(* the neutral form (applyReplayState, resolveItemReferences), for any     *)
(* number of turns, providers and item references.                         *)
THEOREM ContinuedConvertible == Spec => []ContinuedAnswerConvertible
<1>1. Init => ContinuedInv
  BY DEF Init, ContinuedInv
<1>2. HistoryInv /\ ContinuedInv => ContinuedAnswerConvertible
  <2> SUFFICES ASSUME HistoryInv, ContinuedInv, NEW r \in Requests,
                      phase[r] = "calling", NEW i \in 1 .. Len(messages[r]),
                      messages[r][i].turn = prev[r]
               PROVE  messages[r][i].form \in {NoProvider, provider[r]}
    BY DEF ContinuedAnswerConvertible
  <2>1. messages[r][i] \in Range(messages[r])
    BY RangeEquality DEF HistoryInv, TypeOK
  <2> QED
    BY <2>1 DEF ContinuedInv
<1> QED
  BY <1>1, <1>2, HistoryInvariant, ContinuedStep, PTL DEF Spec

-----------------------------------------------------------------------------
(* The transcript of a conversation. *)

(* A line of a transcript, and the line that a message stands for. *)
Line == Requests \X {"user", "assistant"}
LineOf(m) == <<m.turn, m.role>>

(* The messages ms end with the transcript t, and what stands before it    *)
(* are answers out of it.                                                  *)
Tells(ms, t) ==
    /\ Len(t) <= Len(ms)
    /\ \A j \in 1 .. Len(t) : LineOf(ms[(Len(ms) - Len(t)) + j]) = t[j]
    /\ \A i \in 1 .. (Len(ms) - Len(t)) :
         LineOf(ms[i]) \in Range(t) /\ ms[i].role = "assistant"

(* The messages of the row that request r will have. *)
Final(r) == messages[r] \o buildAssistantMessage(r)

(* What the store relies on: the row of r tells what was said, its answer  *)
(* is its last message, and the replay state points to it.                 *)
Stored(r) ==
    /\ Tells(messages[r], said[r])
    /\ answer[r] # "none" =>
         /\ index[r] = Len(messages[r]) /\ messages[r] # <<>>
         /\ LineOf(messages[r][Len(messages[r])]) = <<r, "assistant">>
         /\ <<r, "assistant">> \in Range(said[r])

(* A request that waits for its answer, has it, or is stored. *)
TellInv(r) ==
    /\ phase[r] = "calling" => Tells(messages[r], said[r])
    /\ phase[r] = "answered" =>
         /\ Tells(Final(r), said[r])
         /\ answer[r] # "none" => <<r, "assistant">> \in Range(said[r])
    /\ r \in rows => Stored(r)

NoRepeats(s) == \A i, j \in 1 .. Len(s) : s[i] = s[j] => i = j

TranscriptInv ==
    /\ answer \in [Requests -> Answers \cup {"pending"}]
    /\ said \in [Requests -> Seq(Line)]
    /\ NoRepeats(table)
    /\ \A r \in Requests : TellInv(r)

-----------------------------------------------------------------------------
(* The message of a line that is said next. *)
LEMMA TellsAppend ==
    ASSUME NEW ms \in Seq(Msg), NEW t \in Seq(Line), NEW x \in Msg, Tells(ms, t)
    PROVE  /\ Tells(Append(ms, x), Append(t, LineOf(x)))
           /\ LineOf(x) \in Range(Append(t, LineOf(x)))
<1>1. LineOf(x) \in Line
  BY DEF LineOf, Line, Msg
<1> DEFINE ms1 == Append(ms, x)
           t1 == Append(t, LineOf(x))
<1>2. /\ Len(ms) \in Nat /\ Len(t) \in Nat
      /\ Len(ms1) = Len(ms) + 1 /\ Len(t1) = Len(t) + 1
      /\ \A i \in 1 .. Len(ms) : ms1[i] = ms[i]
      /\ ms1[Len(ms) + 1] = x
      /\ \A i \in 1 .. Len(t) : t1[i] = t[i]
      /\ t1[Len(t) + 1] = LineOf(x)
  BY <1>1, LenProperties, AppendProperties
<1>3. Range(t1) = Range(t) \cup {LineOf(x)}
  BY <1>1, AppendRange
<1> HIDE DEF ms1, t1
<1>4. Len(t1) <= Len(ms1) /\ Len(ms1) - Len(t1) = Len(ms) - Len(t)
  BY <1>2 DEF Tells
<1>5. ASSUME NEW j \in 1 .. Len(t1) PROVE LineOf(ms1[(Len(ms1) - Len(t1)) + j]) = t1[j]
  <2>1. CASE j \in 1 .. Len(t)
    <3>1. (Len(ms) - Len(t)) + j \in 1 .. Len(ms)
      BY <1>2, <2>1 DEF Tells
    <3> QED
      BY <1>2, <1>4, <2>1, <3>1 DEF Tells
  <2>2. CASE j = Len(t) + 1
    <3>1. (Len(ms) - Len(t)) + j = Len(ms) + 1
      BY <1>2, <2>2
    <3> QED
      BY <1>2, <1>4, <2>2, <3>1
  <2> QED
    BY <1>2, <2>1, <2>2
<1>6. ASSUME NEW i \in 1 .. (Len(ms1) - Len(t1))
      PROVE  LineOf(ms1[i]) \in Range(t1) /\ ms1[i].role = "assistant"
  <2>1. i \in 1 .. (Len(ms) - Len(t)) /\ i \in 1 .. Len(ms)
    BY <1>2, <1>4
  <2> QED
    BY <1>2, <1>3, <2>1 DEF Tells
<1> QED
  BY <1>3, <1>4, <1>5, <1>6 DEF Tells, ms1, t1

(* An answer of the transcript that an item reference puts in front. *)
LEMMA TellsFront ==
    ASSUME NEW ms \in Seq(Msg), NEW t \in Seq(Line), NEW x \in Msg, Tells(ms, t),
           LineOf(x) \in Range(t), x.role = "assistant"
    PROVE  Tells(<<x>> \o ms, t)
<1>1. <<x>> \in Seq(Msg) /\ Len(<<x>>) = 1 /\ <<x>>[1] = x
  OBVIOUS
<1> DEFINE ms1 == <<x>> \o ms
<1>2. /\ Len(ms) \in Nat /\ Len(t) \in Nat /\ Len(ms1) = Len(ms) + 1
      /\ ms1[1] = x
      /\ \A i \in 1 .. Len(ms) : ms1[i + 1] = ms[i]
  <2>1. /\ Len(ms1) = 1 + Len(ms)
        /\ \A i \in 1 .. 1 + Len(ms) : ms1[i] = IF i <= 1 THEN <<x>>[i] ELSE ms[i - 1]
    BY <1>1, ConcatProperties
  <2>2. Len(ms) \in Nat /\ Len(t) \in Nat
    BY LenProperties
  <2> HIDE DEF ms1
  <2>3. ms1[1] = x
    BY <1>1, <2>1, <2>2
  <2>4. ASSUME NEW i \in 1 .. Len(ms) PROVE ms1[i + 1] = ms[i]
    BY <2>1, <2>2
  <2> QED
    BY <2>1, <2>2, <2>3, <2>4
<1> HIDE DEF ms1
<1>3. Len(t) <= Len(ms1)
  BY <1>2 DEF Tells
<1>4. ASSUME NEW j \in 1 .. Len(t) PROVE LineOf(ms1[(Len(ms1) - Len(t)) + j]) = t[j]
  <2>1. (Len(ms) - Len(t)) + j \in 1 .. Len(ms)
    BY <1>2 DEF Tells
  <2>2. (Len(ms1) - Len(t)) + j = ((Len(ms) - Len(t)) + j) + 1
    BY <1>2
  <2> QED
    BY <1>2, <2>1, <2>2 DEF Tells
<1>5. ASSUME NEW i \in 1 .. (Len(ms1) - Len(t))
      PROVE  LineOf(ms1[i]) \in Range(t) /\ ms1[i].role = "assistant"
  <2>1. CASE i = 1
    BY <1>2, <2>1
  <2>2. CASE i # 1
    <3>1. i - 1 \in 1 .. (Len(ms) - Len(t)) /\ i - 1 \in 1 .. Len(ms) /\ (i - 1) + 1 = i
      BY <1>2, <2>2 DEF Tells
    <3> QED
      BY <1>2, <3>1, ZenonT(40) DEF Tells
  <2> QED
    BY <2>1, <2>2
<1> QED
  BY <1>3, <1>4, <1>5 DEF Tells, ms1

(* A message that is replaced by another form of itself. *)
LEMMA TellsReplace ==
    ASSUME NEW ms \in Seq(Msg), NEW t, Len(t) \in Nat, NEW k \in 1 .. Len(ms), NEW x \in Msg,
           Tells(ms, t), LineOf(x) = LineOf(ms[k]), x.role = ms[k].role
    PROVE  Tells([ms EXCEPT ![k] = x], t)
<1> DEFINE ms1 == [ms EXCEPT ![k] = x]
<1>1. /\ Len(ms) \in Nat /\ Len(ms1) = Len(ms)
      /\ \A i \in 1 .. Len(ms) : LineOf(ms1[i]) = LineOf(ms[i]) /\ ms1[i].role = ms[i].role
  BY LenProperties, ExceptSeq
<1> HIDE DEF ms1
<1>2. /\ \A j \in 1 .. Len(t) : (Len(ms) - Len(t)) + j \in 1 .. Len(ms)
      /\ \A i \in 1 .. (Len(ms) - Len(t)) : i \in 1 .. Len(ms)
  BY <1>1 DEF Tells
<1> QED
  BY <1>1, <1>2 DEF Tells, ms1

(* What a follow-up of row p takes from it tells what was said up to p. *)
LEMMA HistoryTells ==
    ASSUME TypeOK, TranscriptInv, NEW p \in Requests, p \in rows, NEW q, NEW ref
    PROVE  Tells(HistoryMsgs(p, q, ref), said[p])
<1> DEFINE history == applyReplayState(p, q)
           resolved == resolveItemReferences(ref, history, p, q)
           x == NativeMessage(p)
<1>0. messages[p] \in Seq(Msg) /\ said[p] \in Seq(Line) /\ Len(said[p]) \in Nat
      /\ Len(messages[p]) \in Nat
  BY LenProperties DEF TypeOK, TranscriptInv
<1>1. Stored(p)
  BY DEF TranscriptInv, TellInv
<1>2. x \in Msg /\ LineOf(x) = <<p, "assistant">> /\ x.role = "assistant"
  BY NativeType DEF LineOf, NativeMessage, Message
<1>3. history \in Seq(Msg)
  BY ReplayRange
<1> HIDE DEF x
<1>4. /\ Tells(history, said[p])
      /\ answer[p] # "none" =>
           /\ index[p] = Len(history) /\ index[p] \in 1 .. Len(history)
           /\ LineOf(history[index[p]]) = <<p, "assistant">>
  <2>1. CASE provider[p] = q /\ HasNative(p) /\ index[p] \in 1 .. Len(messages[p])
    <3>1. history = [messages[p] EXCEPT ![index[p]] = x]
      BY <2>1 DEF applyReplayState, x
    <3>2. answer[p] # "none"
      BY <2>1 DEF HasNative
    <3>3. /\ index[p] = Len(messages[p])
          /\ LineOf(messages[p][index[p]]) = <<p, "assistant">>
      BY <1>1, <3>2 DEF Stored
    <3>4. messages[p][index[p]].role = "assistant"
      BY <3>3 DEF LineOf
    <3> HIDE DEF history
    <3>5. Len(history) = Len(messages[p]) /\ history[index[p]] = x
      BY <1>0, <1>2, <2>1, <3>1, ExceptSeq
    <3>6. Tells(history, said[p])
      BY <1>0, <1>1, <1>2, <2>1, <3>1, <3>3, <3>4, TellsReplace DEF Stored
    <3> QED
      BY <1>2, <2>1, <3>3, <3>5, <3>6
  <2>2. CASE ~(provider[p] = q /\ HasNative(p) /\ index[p] \in 1 .. Len(messages[p]))
    <3>1. history = messages[p]
      BY <2>2 DEF applyReplayState
    <3> HIDE DEF history
    <3>2. messages[p] # <<>> => Len(messages[p]) \in 1 .. Len(messages[p])
      BY <1>0, EmptySeq
    <3> QED
      BY <1>0, <1>1, <3>1, <3>2 DEF Stored
  <2> QED
    BY <2>1, <2>2
<1> HIDE DEF history
<1>5. CASE resolved = <<>>
  <2>1. <<>> \o history = history
    BY <1>3, ConcatEmptySeq
  <2> QED
    BY <1>4, <1>5, <2>1 DEF HistoryMsgs, history
<1>6. ASSUME resolved # <<>>
      PROVE  \E y \in Msg : /\ resolved = <<y>> /\ LineOf(y) = <<p, "assistant">>
                            /\ answer[p] # "none"
  <2>1. ref \in OutputItems(answer[p]) /\ index[p] \in 1 .. Len(history)
    BY <1>6 DEF resolveItemReferences
  <2>2. answer[p] # "none"
    BY <2>1 DEF OutputItems
  <2>3. resolved = <<x>> \/ resolved = <<history[index[p]]>>
    BY <2>1 DEF resolveItemReferences, x
  <2>4. history[index[p]] \in Msg /\ LineOf(history[index[p]]) = <<p, "assistant">>
    BY <1>3, <1>4, <2>1, <2>2, ElementOfSeq
  <2> HIDE DEF resolved
  <2> QED
    BY <1>2, <2>2, <2>3, <2>4
<1>7. CASE resolved # <<>>
  <2>1. PICK y \in Msg : resolved = <<y>> /\ LineOf(y) = <<p, "assistant">> /\ answer[p] # "none"
    BY <1>6, <1>7
  <2>2. y.role = "assistant" /\ LineOf(y) \in Range(said[p])
    BY <1>1, <2>1 DEF LineOf, Stored
  <2>3. Tells(<<y>> \o history, said[p])
    BY <1>0, <1>3, <1>4, <2>2, TellsFront
  <2> QED
    BY <2>1, <2>3 DEF HistoryMsgs, history
<1> QED
  BY <1>5, <1>7

(* A step that leaves request s alone. *)
LEMMA TellKept ==
    ASSUME NEW s \in Requests, TellInv(s), phase'[s] = phase[s], messages'[s] = messages[s],
           said'[s] = said[s], answer'[s] = answer[s], index'[s] = index[s],
           s \in rows' => s \in rows
    PROVE  TellInv(s)'
  BY DEF TellInv, Stored, Tells, Final, buildAssistantMessage

(* A request begins. *)
LEMMA AcceptTells ==
    ASSUME TypeOK, RowsInv, TranscriptInv, NEW r \in Requests, phase[r] = "new",
           NEW w, NEW p, NEW q, NEW h \in Seq(Msg), Accept(r, w, p, q, h),
           NEW t \in Seq(Line), t = IF p = 0 THEN <<>> ELSE said[p], Tells(h, t)
    PROVE  TranscriptInv'
<1> DEFINE x == Message(r, "user", NoProvider)
<1>1. x \in Msg /\ LineOf(x) = <<r, "user">> /\ LineOf(x) \in Line
  BY DEF Message, Msg, Form, LineOf, Line
<1>2. /\ phase' = [phase EXCEPT ![r] = "calling"]
      /\ messages' = [messages EXCEPT ![r] = Append(h, x)]
      /\ said' = [said EXCEPT ![r] = Append(t, LineOf(x))]
      /\ UNCHANGED <<answer, index, table>>
  BY <1>1 DEF Accept
<1> HIDE DEF x
<1>3. Tells(Append(h, x), Append(t, LineOf(x))) /\ Append(t, LineOf(x)) \in Seq(Line)
  BY <1>1, TellsAppend, AppendRange
<1>4. rows' = rows /\ r \notin rows
  BY <1>2 DEF rows, RowsInv
<1>5. ASSUME NEW s \in Requests PROVE TellInv(s)'
  <2>1. CASE s = r
    <3>1. phase'[s] = "calling" /\ messages'[s] = Append(h, x) /\ said'[s] = Append(t, LineOf(x))
      BY <1>2, <2>1 DEF TypeOK, TranscriptInv
    <3> QED
      BY <1>3, <1>4, <2>1, <3>1 DEF TellInv
  <2>2. CASE s # r
    BY <1>2, <1>4, <2>2, TellKept DEF TypeOK, TranscriptInv
  <2> QED
    BY <2>1, <2>2
<1>6. answer' \in [Requests -> Answers \cup {"pending"}] /\ said' \in [Requests -> Seq(Line)]
      /\ NoRepeats(table')
  BY <1>2, <1>3 DEF TranscriptInv
<1> QED
  BY <1>5, <1>6 DEF TranscriptInv

(* A handler returns without a row. *)
LEMMA ReturnTells ==
    ASSUME TypeOK, RowsInv, TranscriptInv, NEW r \in Requests, phase[r] # "done", Return(r)
    PROVE  TranscriptInv'
<1>1. /\ phase' = [phase EXCEPT ![r] = "over"]
      /\ messages' = [messages EXCEPT ![r] = <<>>]
      /\ said' = [said EXCEPT ![r] = <<>>]
      /\ answer' = [answer EXCEPT ![r] = "pending"]
      /\ UNCHANGED <<index, table>>
  BY DEF Return
<1>2. rows' = rows /\ r \notin rows
  BY <1>1 DEF rows, RowsInv
<1>3. ASSUME NEW s \in Requests PROVE TellInv(s)'
  <2>1. CASE s = r
    BY <1>1, <1>2, <2>1 DEF TypeOK, TellInv
  <2>2. CASE s # r
    BY <1>1, <1>2, <2>2, TellKept DEF TypeOK, TranscriptInv
  <2> QED
    BY <2>1, <2>2
<1>4. answer' \in [Requests -> Answers \cup {"pending"}] /\ said' \in [Requests -> Seq(Line)]
      /\ NoRepeats(table')
  BY <1>1 DEF TranscriptInv
<1> QED
  BY <1>3, <1>4 DEF TranscriptInv

(* The provider answers: the row to be stored will tell it. *)
LEMMA AnsweredTells ==
    ASSUME TypeOK, RowsInv, TranscriptInv, NEW r \in Requests, NEW a \in Answers, Answered(r, a)
    PROVE  TranscriptInv'
<1> DEFINE x == Message(r, "assistant", NoProvider)
<1>1. x \in Msg /\ LineOf(x) = <<r, "assistant">> /\ LineOf(x) \in Line
  BY DEF Message, Msg, Form, LineOf, Line
<1>2. /\ phase[r] = "calling"
      /\ phase' = [phase EXCEPT ![r] = "answered"]
      /\ said' = [said EXCEPT ![r] = IF a = "none" THEN said[r] ELSE Append(said[r], LineOf(x))]
      /\ answer' = [answer EXCEPT ![r] = a]
      /\ UNCHANGED <<messages, index, table>>
  BY <1>1 DEF Answered, CanAnswer
<1>3. rows' = rows /\ r \notin rows
  BY <1>2 DEF rows, RowsInv
<1>4. answer'[r] = a
      /\ Final(r)' = messages[r] \o (IF a = "none" THEN <<>> ELSE <<x>>)
  BY <1>2 DEF TranscriptInv, Final, buildAssistantMessage
<1> HIDE DEF x
<1>5. /\ messages[r] \in Seq(Msg) /\ said[r] \in Seq(Line) /\ Tells(messages[r], said[r])
  BY <1>2 DEF TypeOK, TranscriptInv, TellInv
<1>6. /\ Append(said[r], LineOf(x)) \in Seq(Line)
      /\ Tells(Append(messages[r], x), Append(said[r], LineOf(x)))
      /\ LineOf(x) \in Range(Append(said[r], LineOf(x)))
      /\ messages[r] \o <<>> = messages[r]
      /\ messages[r] \o <<x>> = Append(messages[r], x)
  BY <1>1, <1>5, TellsAppend, AppendRange, AppendIsConcat, ConcatEmptySeq
<1>7. said'[r] = IF a = "none" THEN said[r] ELSE Append(said[r], LineOf(x))
  BY <1>2 DEF TranscriptInv
<1>8. Tells(Final(r)', said'[r]) /\ (a # "none" => <<r, "assistant">> \in Range(said'[r]))
  BY <1>1, <1>4, <1>5, <1>6, <1>7
<1>9. ASSUME NEW s \in Requests PROVE TellInv(s)'
  <2>1. CASE s = r
    <3>1. phase'[r] = "answered"
      BY <1>2 DEF TypeOK
    <3>2. Tells(Final(r), said[r])'
      BY <1>8 DEF Tells
    <3> QED
      BY <1>3, <1>4, <1>8, <2>1, <3>1, <3>2 DEF TellInv
  <2>2. CASE s # r
    BY <1>2, <1>3, <2>2, TellKept DEF TypeOK, TranscriptInv
  <2> QED
    BY <2>1, <2>2
<1>10. answer' \in [Requests -> Answers \cup {"pending"}] /\ said' \in [Requests -> Seq(Line)]
       /\ NoRepeats(table')
  BY <1>2, <1>5, <1>6 DEF TranscriptInv
<1> QED
  BY <1>9, <1>10 DEF TranscriptInv

(* A new row in front of a table that it is not in. *)
LEMMA NewRow ==
    ASSUME NEW t \in Seq(Requests), NoRepeats(t), NEW r \in Requests, r \notin Range(t)
    PROVE  /\ NoRepeats(<<r>> \o t)
           /\ Range(<<r>> \o t) = Range(t) \cup {r}
<1>1. <<r>> \in Seq(Requests) /\ Len(<<r>>) = 1 /\ <<r>>[1] = r /\ Range(<<r>>) = {r}
  BY SingletonRange
<1> DEFINE u == <<r>> \o t
<1>2. /\ Len(u) = 1 + Len(t) /\ Len(t) \in Nat
      /\ \A i \in 1 .. 1 + Len(t) : u[i] = IF i <= 1 THEN <<r>>[i] ELSE t[i - 1]
  BY <1>1, ConcatProperties, LenProperties
<1>3. Range(u) = Range(<<r>>) \cup Range(t)
  <2> DEFINE v == <<r>>
  <2>1. v \in Seq(Requests)
    BY <1>1
  <2> HIDE DEF v
  <2>2. Range(v \o t) = Range(v) \cup Range(t)
    BY <2>1, RangeConcatenation
  <2> QED
    BY <2>2 DEF v
<1> HIDE DEF u
<1>4. \A i \in 1 .. Len(t) : t[i] # r
  BY RangeEquality
<1>5. ASSUME NEW i \in 1 .. Len(u), NEW j \in 1 .. Len(u), u[i] = u[j] PROVE i = j
  <2>1. CASE i = 1 /\ j = 1
    BY <2>1
  <2>2. CASE i = 1 /\ j # 1
    <3>1. u[i] = r /\ u[j] = t[j - 1] /\ j - 1 \in 1 .. Len(t)
      BY <1>1, <1>2, <2>2
    <3> QED
      BY <1>4, <1>5, <3>1
  <2>3. CASE i # 1 /\ j = 1
    <3>1. u[j] = r /\ u[i] = t[i - 1] /\ i - 1 \in 1 .. Len(t)
      BY <1>1, <1>2, <2>3
    <3> QED
      BY <1>4, <1>5, <3>1
  <2>4. CASE i # 1 /\ j # 1
    <3>1. u[i] = t[i - 1] /\ u[j] = t[j - 1] /\ i - 1 \in 1 .. Len(t) /\ j - 1 \in 1 .. Len(t)
      BY <1>2, <2>4
    <3>2. i - 1 = j - 1
      BY <1>5, <3>1 DEF NoRepeats
    <3> QED
      BY <1>2, <3>2
  <2> QED
    BY <2>1, <2>2, <2>3, <2>4
<1> QED
  BY <1>1, <1>3, <1>5 DEF NoRepeats, u

(* The row is stored. *)
LEMMA CreateTells ==
    ASSUME TypeOK, RowsInv, TranscriptInv, NEW r \in Requests, Create(r)
    PROVE  TranscriptInv'
<1> DEFINE x == Message(r, "assistant", NoProvider)
<1>1. /\ phase[r] = "answered"
      /\ phase' = [phase EXCEPT ![r] = "done"]
      /\ messages' = [messages EXCEPT ![r] = Final(r)]
      /\ index' = [index EXCEPT ![r] = buildReplayState(r)]
      /\ table' = <<r>> \o table
      /\ UNCHANGED <<said, answer>>
  BY DEF Create, Final
<1>2. r \notin rows /\ table \in Seq(Requests)
  BY <1>1 DEF RowsInv, TypeOK
<1>3. NoRepeats(table') /\ rows' = rows \cup {r}
  BY <1>1, <1>2, NewRow DEF rows, TranscriptInv
<1>4. x \in Msg /\ LineOf(x) = <<r, "assistant">>
  BY DEF Message, Msg, Form, LineOf
<1>5. messages[r] \in Seq(Msg) /\ Len(messages[r]) \in Nat
  BY LenProperties DEF TypeOK
<1>6. ASSUME answer[r] # "none"
      PROVE  /\ Len(Final(r)) = buildReplayState(r) /\ Final(r) # <<>>
             /\ LineOf(Final(r)[Len(Final(r))]) = <<r, "assistant">>
  <2>1. Final(r) = messages[r] \o <<x>> /\ buildReplayState(r) = Len(messages[r]) + 1
    BY <1>6 DEF Final, buildAssistantMessage, buildReplayState
  <2> HIDE DEF x
  <2>2. Final(r) = Append(messages[r], x)
    BY <1>4, <1>5, <2>1, AppendIsConcat
  <2>3. /\ Len(Final(r)) = Len(messages[r]) + 1 /\ Final(r)[Len(messages[r]) + 1] = x
        /\ Final(r) # <<>>
    BY <1>4, <1>5, <2>2, AppendProperties
  <2> QED
    BY <1>4, <2>1, <2>3
<1>7. ASSUME NEW s \in Requests PROVE TellInv(s)'
  <2>1. CASE s = r
    <3>1. messages'[r] = Final(r) /\ index'[r] = buildReplayState(r) /\ phase'[r] = "done"
      BY <1>1 DEF TypeOK
    <3>2. /\ Tells(Final(r), said[r])
          /\ answer[r] # "none" => <<r, "assistant">> \in Range(said[r])
      BY <1>1 DEF TranscriptInv, TellInv
    <3>3. Tells(messages[r], said[r])'
      BY <1>1, <3>1, <3>2 DEF Tells
    <3>4. Stored(r)'
      BY <1>1, <1>6, <3>1, <3>2, <3>3 DEF Stored
    <3> QED
      BY <2>1, <3>1, <3>4 DEF TellInv
  <2>2. CASE s # r
    BY <1>1, <1>3, <2>2, TellKept DEF TypeOK, TranscriptInv
  <2> QED
    BY <2>1, <2>2
<1> QED
  BY <1>1, <1>3, <1>7 DEF TranscriptInv

(* Row q comes before row p in the table t. *)
Precedes(t, q, p) == \E i, j \in 1 .. Len(t) : i < j /\ t[i] = q /\ t[j] = p

(* A row of a table without repetitions is taken away, and the others keep *)
(* their order.                                                            *)
LEMMA RowRemoved ==
    ASSUME NEW t \in Seq(Requests), NoRepeats(t), NEW k \in 1 .. Len(t)
    PROVE  LET u == RemoveAt(t, k)
           IN  /\ NoRepeats(u) /\ Range(u) \cap {t[k]} = {} /\ Range(t) = Range(u) \cup {t[k]}
               /\ \A q, p \in Range(u) : Precedes(u, q, p) <=> Precedes(t, q, p)
<1> DEFINE u == RemoveAt(t, k)
           a == SubSeq(t, 1, k - 1)
           b == SubSeq(t, k + 1, Len(t))
           n == Len(t)
<1>0. n \in Nat /\ k \in Nat /\ 1 <= k /\ k <= n /\ \A i \in 1 .. n : t[i] \in Requests
  BY LenProperties, ElementOfSeq
<1>1. /\ a \in Seq(Requests) /\ Len(a) = k - 1
      /\ \A i \in 1 .. k - 1 : a[i] = t[i]
  <2>1. \A i \in 1 .. k - 1 : t[i] \in Requests
    BY <1>0
  <2>2. /\ a \in Seq(Requests)
        /\ Len(a) = IF 1 <= k - 1 THEN (k - 1) - 1 + 1 ELSE 0
        /\ \A i \in 1 .. (k - 1) - 1 + 1 : a[i] = t[1 + i - 1]
    BY <1>0, <2>1, SubSeqProperties
  <2> HIDE DEF a
  <2> QED
    BY <1>0, <2>2
<1>2. /\ b \in Seq(Requests) /\ Len(b) = n - k
      /\ \A i \in 1 .. n - k : b[i] = t[k + i]
  <2>1. \A i \in k + 1 .. n : t[i] \in Requests
    BY <1>0
  <2>2. /\ b \in Seq(Requests)
        /\ Len(b) = IF k + 1 <= n THEN n - (k + 1) + 1 ELSE 0
        /\ \A i \in 1 .. n - (k + 1) + 1 : b[i] = t[k + 1 + i - 1]
    BY <1>0, <2>1, SubSeqProperties
  <2> HIDE DEF b, n
  <2> QED
    BY <1>0, <2>2
<1>3. u = a \o b
  BY DEF RemoveAt
<1> HIDE DEF u, a, b, n
<1>4. /\ u \in Seq(Requests) /\ Len(u) = n - 1
      /\ \A i \in 1 .. n - 1 : u[i] = IF i < k THEN t[i] ELSE t[i + 1]
  <2>1. /\ u \in Seq(Requests)
        /\ Len(u) = Len(a) + Len(b)
        /\ \A i \in 1 .. Len(a) + Len(b) : u[i] = IF i <= Len(a) THEN a[i] ELSE b[i - Len(a)]
    BY <1>1, <1>2, <1>3, ConcatProperties
  <2>2. Len(u) = n - 1
    BY <1>0, <1>1, <1>2, <2>1
  <2>3. ASSUME NEW i \in 1 .. n - 1 PROVE u[i] = IF i < k THEN t[i] ELSE t[i + 1]
    <3>1. CASE i < k
      BY <1>0, <1>1, <1>2, <2>1, <3>1
    <3>2. CASE ~(i < k)
      <4>1. i - (k - 1) \in 1 .. n - k /\ k + (i - (k - 1)) = i + 1
        BY <1>0, <3>2
      <4> QED
        BY <1>0, <1>1, <1>2, <2>1, <3>2, <4>1
    <3> QED
      BY <3>1, <3>2
  <2> QED
    BY <2>1, <2>2, <2>3
\* Position i of the rest is position Old(i) of the table, and back.
<1> DEFINE Old(i) == IF i < k THEN i ELSE i + 1
           New(i) == IF i < k THEN i ELSE i - 1
<1>5. \A i \in 1 .. Len(u) : Old(i) \in 1 .. n /\ Old(i) # k /\ u[i] = t[Old(i)]
  BY <1>0, <1>4
<1>6. \A i \in 1 .. n : i # k => New(i) \in 1 .. Len(u) /\ u[New(i)] = t[i]
  BY <1>0, <1>4
<1>7. \A i, j \in 1 .. Len(u) : (Old(i) = Old(j) => i = j) /\ (i < j => Old(i) < Old(j))
  BY <1>0, <1>4
<1>8. \A i, j \in 1 .. n : i # k /\ j # k /\ i < j => New(i) < New(j)
  BY <1>0
<1> HIDE DEF Old, New
<1>9. \A i, j \in 1 .. n : t[i] = t[j] => i = j
  BY DEF NoRepeats, n
<1>10. /\ \A x : x \in Range(u) <=> \E i \in 1 .. Len(u) : u[i] = x
       /\ \A x : x \in Range(t) <=> \E i \in 1 .. n : t[i] = x
  BY <1>4, RangeEquality DEF n
<1>11. NoRepeats(u)
  BY <1>5, <1>7, <1>9 DEF NoRepeats
<1>12. Range(u) \cap {t[k]} = {}
  BY <1>0, <1>5, <1>9, <1>10
<1>13. Range(t) = Range(u) \cup {t[k]}
  <2>1. ASSUME NEW x \in Range(t) PROVE x \in Range(u) \cup {t[k]}
    <3>1. PICK i \in 1 .. n : t[i] = x
      BY <1>10
    <3>2. CASE i = k
      BY <3>1, <3>2
    <3>3. CASE i # k
      BY <1>6, <1>10, <3>1, <3>3
    <3> QED
      BY <3>2, <3>3
  <2>2. ASSUME NEW x \in Range(u) PROVE x \in Range(t)
    BY <1>5, <1>10
  <2>3. t[k] \in Range(t)
    BY <1>0, <1>10
  <2> QED
    BY <2>1, <2>2, <2>3
<1>14. ASSUME NEW q \in Range(u), NEW p \in Range(u) PROVE Precedes(u, q, p) <=> Precedes(t, q, p)
  <2>1. Precedes(u, q, p) => Precedes(t, q, p)
    BY <1>5, <1>7 DEF Precedes, n
  <2>2. ASSUME Precedes(t, q, p) PROVE Precedes(u, q, p)
    <3>1. PICK i, j \in 1 .. n : i < j /\ t[i] = q /\ t[j] = p
      BY <2>2 DEF Precedes, n
    <3>2. i # k /\ j # k
      BY <1>12, <3>1
    <3> QED
      BY <1>6, <1>8, <3>1, <3>2 DEF Precedes
  <2> QED
    BY <2>1, <2>2
<1> QED
  BY <1>11, <1>12, <1>13, <1>14 DEF u

(* The rows from position k on disappear, and the others keep their order. *)
LEMMA RowsExpired ==
    ASSUME NEW t \in Seq(Requests), NoRepeats(t), NEW k \in 1 .. Len(t)
    PROVE  LET u == SubSeq(t, 1, k - 1)
               old == Range(SubSeq(t, k, Len(t)))
           IN  /\ NoRepeats(u) /\ Range(u) \cap old = {} /\ Range(t) = Range(u) \cup old
               /\ \A q, p \in Range(u) : Precedes(u, q, p) <=> Precedes(t, q, p)
               /\ \A q \in old, p \in Range(u) : ~Precedes(t, q, p)
<1> DEFINE u == SubSeq(t, 1, k - 1)
           v == SubSeq(t, k, Len(t))
           n == Len(t)
<1>0. n \in Nat /\ k \in Nat /\ 1 <= k /\ k <= n /\ \A i \in 1 .. n : t[i] \in Requests
  BY LenProperties, ElementOfSeq
<1>1. /\ u \in Seq(Requests) /\ Len(u) = k - 1
      /\ \A i \in 1 .. k - 1 : u[i] = t[i]
  <2>1. \A i \in 1 .. k - 1 : t[i] \in Requests
    BY <1>0
  <2>2. /\ u \in Seq(Requests)
        /\ Len(u) = IF 1 <= k - 1 THEN (k - 1) - 1 + 1 ELSE 0
        /\ \A i \in 1 .. (k - 1) - 1 + 1 : u[i] = t[1 + i - 1]
    BY <1>0, <2>1, SubSeqProperties
  <2> HIDE DEF u
  <2> QED
    BY <1>0, <2>2
<1>2. /\ v \in Seq(Requests) /\ Len(v) = n - k + 1
      /\ \A i \in 1 .. n - k + 1 : v[i] = t[k + i - 1]
  <2>1. \A i \in k .. n : t[i] \in Requests
    BY <1>0
  <2>2. /\ v \in Seq(Requests)
        /\ Len(v) = IF k <= n THEN n - k + 1 ELSE 0
        /\ \A i \in 1 .. n - k + 1 : v[i] = t[k + i - 1]
    BY <1>0, <2>1, SubSeqProperties
  <2> HIDE DEF v, n
  <2> QED
    BY <1>0, <2>2
<1> HIDE DEF u, v, n
<1>3. \A i, j \in 1 .. n : t[i] = t[j] => i = j
  BY DEF NoRepeats, n
<1>4. \A x : x \in Range(u) <=> \E i \in 1 .. k - 1 : t[i] = x
  BY <1>1, RangeEquality
<1>5. \A x : x \in Range(v) <=> \E i \in k .. n : t[i] = x
  <2>1. ASSUME NEW x, x \in Range(v) PROVE \E i \in k .. n : t[i] = x
    <3>1. PICK i \in 1 .. n - k + 1 : v[i] = x
      BY <1>2, <2>1, RangeEquality
    <3>2. k + i - 1 \in k .. n
      BY <1>0
    <3> QED
      BY <1>2, <3>1, <3>2
  <2>2. ASSUME NEW x, NEW i \in k .. n, t[i] = x PROVE x \in Range(v)
    <3>1. i - k + 1 \in 1 .. n - k + 1 /\ k + (i - k + 1) - 1 = i
      BY <1>0
    <3>2. v[i - k + 1] = x
      BY <1>2, <2>2, <3>1
    <3> QED
      BY <1>2, <3>1, <3>2, RangeEquality
  <2> QED
    BY <2>1, <2>2
<1>6. \A x : x \in Range(t) <=> \E i \in 1 .. n : t[i] = x
  BY RangeEquality DEF n
<1>7. NoRepeats(u)
  BY <1>0, <1>1, <1>3 DEF NoRepeats
<1>8. Range(u) \cap Range(v) = {}
  BY <1>0, <1>3, <1>4, <1>5
<1>9. Range(t) = Range(u) \cup Range(v)
  BY <1>0, <1>4, <1>5, <1>6
<1>10. ASSUME NEW q \in Range(u), NEW p \in Range(u) PROVE Precedes(u, q, p) <=> Precedes(t, q, p)
  <2>1. \A i \in 1 .. k - 1 : i \in 1 .. n
    BY <1>0
  <2>2. Precedes(u, q, p) => Precedes(t, q, p)
    BY <1>1, <2>1 DEF Precedes, n
  <2>3. ASSUME Precedes(t, q, p) PROVE Precedes(u, q, p)
    <3>1. PICK i, j \in 1 .. n : i < j /\ t[i] = q /\ t[j] = p
      BY <2>3 DEF Precedes, n
    <3>2. i \in 1 .. k - 1 /\ j \in 1 .. k - 1
      BY <1>3, <1>4, <2>1, <3>1
    <3> QED
      BY <1>1, <3>1, <3>2 DEF Precedes
  <2> QED
    BY <2>2, <2>3
<1>11. \A q \in Range(v), p \in Range(u) : ~Precedes(t, q, p)
  BY <1>0, <1>3, <1>4, <1>5 DEF Precedes, n
<1> QED
  BY <1>7, <1>8, <1>9, <1>10, <1>11 DEF u, v

(* Rows disappear, and the others stay as they are. *)
LEMMA RemoveTells ==
    ASSUME TypeOK, RowsInv, TranscriptInv, NEW gone, NEW left,
           gone \subseteq rows, NoRepeats(left), Range(left) \subseteq rows, Range(left) \cap gone = {},
           RemoveRows(gone, left), UNCHANGED <<phase, who, prev>>
    PROVE  TranscriptInv'
<1>1. /\ table' = left /\ rows' = Range(left)
      /\ messages' = [r \in Requests |-> IF r \in gone THEN <<>> ELSE messages[r]]
      /\ index' = [r \in Requests |-> IF r \in gone THEN 0 ELSE index[r]]
      /\ answer' = [r \in Requests |-> IF r \in gone THEN "pending" ELSE answer[r]]
      /\ said' = [r \in Requests |-> IF r \in gone THEN <<>> ELSE said[r]]
      /\ UNCHANGED phase
  BY DEF RemoveRows, rows
<1>2. ASSUME NEW s \in Requests PROVE TellInv(s)'
  <2>1. CASE s \in gone
    BY <1>1, <2>1 DEF RowsInv, TellInv
  <2>2. CASE s \notin gone
    BY <1>1, <2>2, TellKept DEF TranscriptInv
  <2> QED
    BY <2>1, <2>2
<1>3. /\ answer' \in [Requests -> Answers \cup {"pending"}]
      /\ said' \in [Requests -> Seq(Line)]
  BY <1>1 DEF TranscriptInv
<1> QED
  BY <1>1, <1>2, <1>3 DEF TranscriptInv

(* Listing reads only. *)
LEMMA ReadTells ==
    ASSUME TranscriptInv, UNCHANGED <<phase, answer, messages, said, index, table>>
    PROVE  TranscriptInv'
<1>1. rows' = rows
  BY DEF rows
<1>2. \A s \in Requests : TellInv(s)'
  BY <1>1, TellKept DEF TranscriptInv
<1> QED
  BY <1>2 DEF TranscriptInv

(* A row is deleted, or the last ones expire. *)
LEMMA DeleteTells ==
    ASSUME TypeOK, RowsInv, TranscriptInv,
           (\E p : DeleteRow(p)) \/ (\E k \in DOMAIN table : cleanup(k))
    PROVE  TranscriptInv'
<1>0. table \in Seq(Requests) /\ NoRepeats(table) /\ DOMAIN table = 1 .. Len(table)
  BY LenProperties DEF TypeOK, TranscriptInv
<1>1. ASSUME NEW p, DeleteRow(p) PROVE TranscriptInv'
  <2>1. PICK k \in 1 .. Len(table) : table[k] = p /\ RemoveRows({p}, RemoveAt(table, k))
    BY <1>0, <1>1 DEF DeleteRow
  <2>2. /\ NoRepeats(RemoveAt(table, k)) /\ Range(RemoveAt(table, k)) \cap {p} = {}
        /\ Range(RemoveAt(table, k)) \subseteq rows /\ {p} \subseteq rows
    BY <1>0, <2>1, RowRemoved DEF rows
  <2>3. UNCHANGED <<phase, who, prev>>
    BY <1>1 DEF DeleteRow
  <2> QED
    BY <2>1, <2>2, <2>3, RemoveTells
<1>2. ASSUME NEW k \in DOMAIN table, cleanup(k) PROVE TranscriptInv'
  <2> DEFINE old == Range(SubSeq(table, k, Len(table)))
             left == SubSeq(table, 1, k - 1)
  <2>1. RemoveRows(old, left) /\ UNCHANGED <<phase, who, prev>>
    BY <1>2 DEF cleanup
  <2>2. NoRepeats(left) /\ Range(left) \cap old = {} /\ Range(left) \subseteq rows /\ old \subseteq rows
    BY <1>0, RowsExpired DEF rows
  <2> HIDE DEF old, left
  <2> QED
    BY <2>1, <2>2, RemoveTells
<1> QED
  BY <1>1, <1>2

(* Every step keeps the transcripts. *)
LEMMA TranscriptStep == HistoryInv /\ TranscriptInv /\ [Next]_vars => TranscriptInv'
<1> SUFFICES ASSUME HistoryInv, TranscriptInv, [Next]_vars PROVE TranscriptInv'
  OBVIOUS
<1>0. TypeOK /\ RowsInv
  BY DEF HistoryInv
<1>1. ASSUME NEW r \in Requests, Handler(r)
      PROVE  TranscriptInv'
  <2>1. ASSUME NEW w \in Principals, NEW q \in Providers, FirstTurn(r, w, q)
        PROVE  TranscriptInv'
    <3>1. phase[r] = "new" /\ Accept(r, w, 0, q, <<>>)
      BY <2>1 DEF FirstTurn, Arrives
    <3>2. <<>> \in Seq(Msg) /\ <<>> \in Seq(Line) /\ Tells(<<>>, <<>>)
      BY DEF Tells
    <3> QED
      BY <1>0, <3>1, <3>2, AcceptTells
  <2>2. ASSUME NEW w \in Principals, NEW p \in rows, NEW q \in Providers, NEW ref,
               FollowUp(r, w, p, q, ref)
        PROVE  TranscriptInv'
    <3>1. phase[r] = "new" /\ Accept(r, w, p, q, HistoryMsgs(p, q, ref))
      BY <2>2 DEF FollowUp, Arrives
    <3>2. p \in Requests /\ p # 0
      <4>1. p \in Requests
        BY <1>0, InRange DEF TypeOK, rows
      <4> QED
        BY <4>1 DEF Requests
    <3>3. /\ HistoryMsgs(p, q, ref) \in Seq(Msg) /\ Tells(HistoryMsgs(p, q, ref), said[p])
          /\ said[p] \in Seq(Line)
      BY <1>0, <3>2, HistoryRange, HistoryTells DEF TranscriptInv
    <3> QED
      BY <1>0, <3>1, <3>2, <3>3, AcceptTells
  <2>3. CASE Refuse(r) \/ ProviderFails(r) \/ AnswerStreamEmpty(r) \/ CreateSkipped(r)
    <3>1. phase[r] # "done" /\ Return(r)
      BY <2>3 DEF Refuse, Arrives, ProviderFails, AnswerStreamEmpty, CanAnswer, CreateSkipped
    <3> QED
      BY <1>0, <3>1, ReturnTells
  <2>4. CASE \E a \in Answers : AnswerSync(r, a) \/ AnswerStream(r, a)
    BY <1>0, <2>4, AnsweredTells DEF AnswerSync, AnswerStream
  <2>5. CASE Create(r)
    BY <1>0, <2>5, CreateTells
  <2> QED
    BY <1>1, <2>1, <2>2, <2>3, <2>4, <2>5 DEF Handler
<1>2. CASE (\E w \in Principals, t \in Tenants \cup {NoTenant} : StartListing(w, t)) \/ NextPage
  BY <1>2, ReadTells DEF StartListing, NextPage
<1>3. CASE (\E p \in rows : handleDeleteResponse(p))
             \/ (\E p \in rows : HandleDeleteConversation(p))
             \/ (\E k \in DOMAIN table : cleanup(k))
  BY <1>0, <1>3, DeleteTells DEF handleDeleteResponse, HandleDeleteConversation
<1>4. CASE UNCHANGED vars
  BY <1>4, ReadTells DEF vars
<1> QED
  BY <1>1, <1>2, <1>3, <1>4 DEF Next

(* The messages of every request and row tell what was said (Accept,       *)
(* Create and the replay state), after any number of steps.                *)
LEMMA TranscriptInvariant == Spec => []TranscriptInv
<1>1. Init => TranscriptInv
  <2> SUFFICES ASSUME Init PROVE TranscriptInv
    OBVIOUS
  <2>1. rows = {}
    BY DEF Init, rows, Range
  <2>2. \A r \in Requests : TellInv(r)
    BY <2>1 DEF Init, TellInv
  <2> QED
    BY <2>2 DEF Init, TranscriptInv, NoRepeats
<1> QED
  BY <1>1, HistoryInvariant, TranscriptStep, PTL DEF Spec

(* Every stored row tells the whole transcript of its conversation, and a  *)
(* GET of the response finds the answer of that turn (handleResponses,     *)
(* buildReplayState, applyReplayState, resolveItemReferences,              *)
(* buildResponseFromConversation): over any number of turns, forks,        *)
(* providers, item references and deletions.                               *)
THEOREM TranscriptsKept == Spec => []TranscriptKept
<1>1. HistoryInv /\ TranscriptInv => TranscriptKept
  <2> SUFFICES ASSUME TypeOK, TranscriptInv, NEW r \in rows
               PROVE  LET t == said[r]
                          m == [i \in DOMAIN messages[r] |->
                                   <<messages[r][i].turn, messages[r][i].role>>]
                          n == Len(m) - Len(t)
                      IN  /\ n >= 0
                          /\ t = SubSeq(m, n + 1, Len(m))
                          /\ \A i \in 1 .. n : m[i] \in Range(t) /\ m[i][2] = "assistant"
                          /\ answer[r] # "none" => buildResponseFromConversation(r) = r
    BY DEF TranscriptKept, HistoryInv
  <2>0. r \in Requests
    BY InRange DEF TypeOK, rows
  <2> DEFINE t == said[r]
             ms == messages[r]
             m == [i \in DOMAIN ms |-> <<ms[i].turn, ms[i].role>>]
             n == Len(m) - Len(t)
  <2>1. Stored(r) /\ ms \in Seq(Msg) /\ t \in Seq(Line)
    BY <2>0 DEF TranscriptInv, TellInv, TypeOK
  <2>2. Len(ms) \in Nat /\ Len(t) \in Nat /\ DOMAIN ms = 1 .. Len(ms) /\ Tells(ms, t)
        /\ DOMAIN t = 1 .. Len(t)
    BY <2>1, LenProperties DEF Stored
  <2> HIDE DEF ms, t
  <2>3. m \in Seq(Line) /\ Len(m) = Len(ms) /\ \A i \in 1 .. Len(ms) : m[i] = LineOf(ms[i])
    <3>1. ASSUME NEW i \in 1 .. Len(ms) PROVE <<ms[i].turn, ms[i].role>> \in Line
      <4>1. ms[i] \in Msg
        BY <2>1, ElementOfSeq
      <4> QED
        BY <4>1 DEF Msg, Line
    <3>2. m = [i \in 1 .. Len(ms) |-> <<ms[i].turn, ms[i].role>>]
      BY <2>2
    <3>3. m \in Seq(Line)
      BY <2>2, <3>1, <3>2, IsASeq
    <3>4. Len(m) = Len(ms)
      BY <2>2, <3>2, <3>3, LenProperties
    <3> QED
      BY <2>2, <3>3, <3>4 DEF LineOf
  <2> HIDE DEF m
  <2>4. n >= 0 /\ n \in Int /\ n + Len(t) = Len(m) /\ Len(m) \in Nat
    BY <2>2, <2>3 DEF Tells
  <2>5. t = SubSeq(m, n + 1, Len(m))
    <3> HIDE DEF n
    <3>1. \A i \in n + 1 .. Len(m) : m[i] \in Line
      BY <2>3, <2>4, ElementOfSeq
    <3>2. /\ SubSeq(m, n + 1, Len(m)) \in Seq(Line)
          /\ Len(SubSeq(m, n + 1, Len(m))) = IF n + 1 <= Len(m) THEN Len(m) - (n + 1) + 1 ELSE 0
          /\ \A i \in 1 .. Len(m) - (n + 1) + 1 : SubSeq(m, n + 1, Len(m))[i] = m[n + 1 + i - 1]
      BY <2>4, <3>1, SubSeqProperties
    <3>3. Len(SubSeq(m, n + 1, Len(m))) = Len(t)
      BY <2>2, <2>4, <3>2
    <3>4. ASSUME NEW i \in 1 .. Len(t) PROVE SubSeq(m, n + 1, Len(m))[i] = t[i]
      <4>1. n + 1 + i - 1 = (Len(ms) - Len(t)) + i /\ (Len(ms) - Len(t)) + i \in 1 .. Len(ms)
            /\ i \in 1 .. Len(m) - (n + 1) + 1
        BY <2>2, <2>3, <2>4
      <4>2. SubSeq(m, n + 1, Len(m))[i] = m[(Len(ms) - Len(t)) + i]
        BY <3>2, <4>1
      <4> QED
        BY <2>2, <2>3, <4>1, <4>2 DEF Tells
    <3> QED
      BY <2>1, <3>2, <3>3, <3>4, SeqEqual
  <2>6. ASSUME NEW i \in 1 .. n PROVE m[i] \in Range(t) /\ m[i][2] = "assistant"
    <3>1. i \in 1 .. (Len(ms) - Len(t)) /\ i \in 1 .. Len(ms)
      BY <2>2, <2>3, <2>4
    <3>2. LineOf(ms[i]) \in Range(t) /\ ms[i].role = "assistant" /\ m[i] = LineOf(ms[i])
      BY <2>2, <2>3, <3>1 DEF Tells
    <3> QED
      BY <3>2 DEF LineOf
  <2>7. ASSUME answer[r] # "none" PROVE buildResponseFromConversation(r) = r
    <3> DEFINE I == {i \in 1 .. Len(ms) : ms[i].role = "assistant"}
    <3>1. Len(ms) \in 1 .. Len(ms) /\ ms[Len(ms)].turn = r /\ ms[Len(ms)].role = "assistant"
      BY <2>1, <2>2, <2>7, EmptySeq DEF Stored, LineOf, ms
    <3>2. Len(ms) \in I /\ \A y \in I : y \in Nat /\ Len(ms) >= y
      BY <2>2, <3>1
    <3>3. Max(I) \in I /\ Max(I) >= Len(ms)
      BY <2>2, <3>2 DEF Max
    <3>4. Max(I) = Len(ms)
      BY <2>2, <3>2, <3>3
    <3>5. SelectLastInSeq(ms, LAMBDA x : x.role = "assistant") = Max(I)
      BY <3>2 DEF SelectLastInSeq
    <3>6. Len(ms) # 0
      BY <2>2, <3>1
    <3> QED
      BY <3>1, <3>4, <3>5, <3>6 DEF buildResponseFromConversation, ms
  <2> QED
    BY <2>4, <2>5, <2>6, <2>7 DEF m, ms, t
<1> QED
  BY <1>1, HistoryInvariant, TranscriptInvariant, PTL

-----------------------------------------------------------------------------
(* The list of conversations. *)

Pagers == [user : {w.user : w \in Principals} \cup {NoUser}, tenant : Tenants \cup {NoTenant},
           page : Nat, due : SUBSET Requests]

Place(o, p) == Cardinality(Ahead(o, p))

(* The list for a table and its owners: which rows it has, and which of    *)
(* them come before row p.                                                 *)
Chosen(t, w, o) ==
    {p \in Range(t) : /\ o.user # NoUser => w[p].user = o.user
                      /\ o.tenant # NoTenant => w[p].tenant = o.tenant}

Before(t, w, o, p) == {q \in Chosen(t, w, o) : Precedes(t, q, p)}

(* The rows that are due are listed, and have no place on one of the pages *)
(* that were read.                                                         *)
DueIn(t, w, o) ==
    /\ o.due \subseteq Chosen(t, w, o)
    /\ \A p \in o.due : Cardinality(Before(t, w, o, p)) >= (o.page - 1) * Limit

ListInv ==
    /\ pager \in Pagers
    /\ pager.page > 0 => DueIn(table, who, pager)

(* updated_at orders the rows. *)
LEMMA NewerOrder ==
    ASSUME TypeOK, NoRepeats(table)
    PROVE  /\ \A p : ~Newer(p, p)
           /\ \A p, q, r : Newer(p, q) /\ Newer(q, r) => Newer(p, r)
           /\ \A p, q \in rows : p = q \/ Newer(p, q) \/ Newer(q, p)
           /\ \A p, q : Newer(p, q) <=> Precedes(table, p, q)
<1>1. table \in Seq(Requests) /\ Len(table) \in Nat /\ DOMAIN table = 1 .. Len(table)
  BY LenProperties DEF TypeOK
<1>2. \A p \in rows : \E i \in 1 .. Len(table) : table[i] = p
  BY <1>1 DEF rows, Range
<1>3. \A p : ~Newer(p, p)
  BY <1>1 DEF Newer, NoRepeats
<1>4. ASSUME NEW p, NEW q, NEW r, Newer(p, q), Newer(q, r) PROVE Newer(p, r)
  <2>1. PICK i, j \in 1 .. Len(table) : i < j /\ table[i] = p /\ table[j] = q
    BY <1>1, <1>4 DEF Newer
  <2>2. PICK k, l \in 1 .. Len(table) : k < l /\ table[k] = q /\ table[l] = r
    BY <1>1, <1>4 DEF Newer
  <2>3. j = k
    BY <2>1, <2>2 DEF NoRepeats
  <2> QED
    BY <1>1, <2>1, <2>2, <2>3 DEF Newer
<1>5. ASSUME NEW p \in rows, NEW q \in rows PROVE p = q \/ Newer(p, q) \/ Newer(q, p)
  <2>1. PICK i \in 1 .. Len(table) : table[i] = p
    BY <1>2
  <2>2. PICK j \in 1 .. Len(table) : table[j] = q
    BY <1>2
  <2>3. i = j \/ i < j \/ j < i
    BY <1>1
  <2> QED
    BY <1>1, <2>1, <2>2, <2>3 DEF Newer
<1> QED
  BY <1>1, <1>3, <1>4, <1>5 DEF Newer, Precedes

(* The listed rows are finitely many. *)
LEMMA ListedFinite ==
    ASSUME TypeOK, NEW o
    PROVE  /\ IsFiniteSet(Requests) /\ rows \subseteq Requests /\ Listed(o) \subseteq rows
           /\ IsFiniteSet(Listed(o))
           /\ \A p : IsFiniteSet(Ahead(o, p)) /\ Place(o, p) \in Nat
<1>1. IsFiniteSet(Requests)
  <2>1. 1 \in Int /\ MaxRequests \in Int
    BY ConversationsAssumption DEF ConversationsAssumption
  <2> QED
    BY <2>1, FS_Interval DEF Requests
<1>2. rows \subseteq Requests
  BY InRange DEF TypeOK, rows
<1>3. Listed(o) \subseteq rows /\ IsFiniteSet(Listed(o))
  BY <1>1, <1>2, FS_Subset DEF Listed
<1>4. \A p : Ahead(o, p) \subseteq Listed(o)
  BY DEF Ahead
<1>5. \A p : IsFiniteSet(Ahead(o, p))
  BY <1>3, <1>4, FS_Subset
<1> QED
  BY <1>1, <1>2, <1>3, <1>5, FS_CardinalityType DEF Place

(* A row that comes later has a later place. *)
LEMMA LaterPlace ==
    ASSUME TypeOK, NoRepeats(table), NEW o, NEW q \in Listed(o), NEW p, Newer(q, p)
    PROVE  Place(o, q) < Place(o, p)
<1>1. Ahead(o, q) \cup {q} \subseteq Ahead(o, p) /\ q \notin Ahead(o, q)
  BY NewerOrder DEF Ahead
<1>2. IsFiniteSet(Ahead(o, q)) /\ IsFiniteSet(Ahead(o, p)) /\ Place(o, q) \in Nat /\ Place(o, p) \in Nat
  BY ListedFinite
<1>3. Cardinality(Ahead(o, q) \cup {q}) = Place(o, q) + 1
  BY <1>1, <1>2, FS_AddElement DEF Place
<1>4. Cardinality(Ahead(o, q) \cup {q}) <= Place(o, p)
  BY <1>1, <1>2, FS_Subset DEF Place
<1> QED
  BY <1>2, <1>3, <1>4

(* Every place before that of a row is taken: the rows ahead of it are as  *)
(* many as these places, and no two have the same.                         *)
LEMMA PlacesTaken ==
    ASSUME TypeOK, NoRepeats(table), NEW o, NEW p \in rows, NEW n \in 0 .. (Place(o, p) - 1)
    PROVE  \E q \in Ahead(o, p) : Place(o, q) = n
<1> DEFINE A == Ahead(o, p)
           T == 0 .. (Place(o, p) - 1)
           f == [q \in A |-> Place(o, q)]
<1>0. Place(o, p) \in Nat /\ IsFiniteSet(A) /\ A \subseteq Listed(o) /\ Listed(o) \subseteq rows
  BY ListedFinite DEF Ahead
<1>1. f \in [A -> T]
  <2>1. ASSUME NEW q \in A PROVE Place(o, q) \in T
    <3>1. Place(o, q) \in Nat /\ Place(o, q) < Place(o, p)
      BY <1>0, ListedFinite, LaterPlace DEF Ahead
    <3> QED
      BY <1>0, <3>1
  <2> QED
    BY <2>1
<1>2. ASSUME NEW x \in A, NEW y \in A, f[x] = f[y] PROVE x = y
  <2>1. Place(o, x) = Place(o, y) /\ Place(o, x) \in Nat
    BY <1>2, ListedFinite
  <2>2. ~Newer(x, y) /\ ~Newer(y, x)
    BY <1>0, <2>1, LaterPlace
  <2> QED
    BY <1>0, <2>2, NewerOrder
<1>3. f \in Injection(A, T)
  <2> HIDE DEF f, A, T
  <2> QED
    BY <1>1, <1>2 DEF Injection, IsInjective
<1>4. IsFiniteSet(T) /\ Cardinality(T) = Place(o, p) /\ Cardinality(A) = Place(o, p)
  BY <1>0, FS_Interval DEF Place
<1>5. f \in Surjection(A, T)
  BY <1>3, <1>4, FS_Injection
<1>6. \E q \in A : f[q] = n
  <2> HIDE DEF f, A
  <2> QED
    BY <1>5 DEF Surjection
<1> QED
  BY <1>6

(* Other rows are due. *)
LEMMA PagerRecord ==
    ASSUME NEW o \in Pagers, NEW D \in SUBSET Requests, NEW x, x = [o EXCEPT !.due = D]
    PROVE  /\ x \in Pagers /\ x.page = o.page /\ x.due = D
           /\ x.user = o.user /\ x.tenant = o.tenant
<1> DEFINE U == {w.user : w \in Principals} \cup {NoUser}
           V == Tenants \cup {NoTenant}
           R == SUBSET Requests
<1>1. Pagers = [user : U, tenant : V, page : Nat, due : R] /\ D \in R
  BY DEF Pagers
<1> HIDE DEF U, V, R
<1> QED
  BY <1>1

(* The list of the present state. *)
LEMMA PresentList ==
    ASSUME TypeOK, NEW o
    PROVE  /\ Chosen(table, who, o) = Listed(o)
           /\ \A p : Before(table, who, o, p) = Ahead(o, p)
<1>1. DOMAIN table = 1 .. Len(table)
  BY LenProperties DEF TypeOK
<1>2. Chosen(table, who, o) = Listed(o)
  BY DEF Chosen, Listed, Matches, rows
<1> QED
  BY <1>1, <1>2 DEF Before, Ahead, Newer, Precedes

(* The page that a reader gets has as many rows as its places, if a listed *)
(* row comes after it.                                                     *)
LEMMA FullPage ==
    ASSUME TypeOK, NoRepeats(table), NEW o, o.page \in Nat \ {0}, NEW p \in Listed(o),
           Place(o, p) >= (o.page - 1) * Limit + Limit
    PROVE  Cardinality(List(o, o.page)) >= Limit
<1> DEFINE b == (o.page - 1) * Limit
           S == List(o, o.page)
           T == b .. (b + Limit - 1)
           f == [q \in S |-> Place(o, q)]
<1>0. b \in Nat /\ Limit \in Nat \ {0}
  <2>1. o.page - 1 \in Nat /\ Limit \in Nat \ {0}
    BY ConversationsAssumption DEF ConversationsAssumption
  <2> QED
    BY <2>1
<1>1. S = {q \in Listed(o) : Place(o, q) \in T}
  BY DEF List, LimitOffset, Place
<1>2. IsFiniteSet(S) /\ p \in rows /\ Place(o, p) \in Nat /\ Place(o, p) >= b + Limit
  <2>1. S \subseteq Listed(o)
    BY <1>1
  <2> QED
    BY <2>1, ListedFinite, FS_Subset
<1> HIDE DEF b, S
<1>3. ASSUME NEW n \in T PROVE \E q \in S : f[q] = n
  <2>1. n \in 0 .. (Place(o, p) - 1)
    BY <1>0, <1>2
  <2>2. PICK q \in Ahead(o, p) : Place(o, q) = n
    BY <1>2, <2>1, PlacesTaken
  <2>3. q \in S
    BY <1>1, <2>2 DEF Ahead
  <2> QED
    BY <2>2, <2>3
<1>4. f \in [S -> T]
  BY <1>1
<1>5. f \in Surjection(S, T)
  <2> HIDE DEF f, T
  <2> QED
    BY <1>3, <1>4 DEF Surjection
<1>6. Cardinality(T) <= Cardinality(S)
  BY <1>2, <1>5, FS_Surjection
<1>7. Cardinality(T) = Limit
  BY <1>0, FS_Interval
<1>8. Cardinality(S) \in Nat
  BY <1>2, FS_CardinalityType
<1> QED
  BY <1>0, <1>6, <1>7, <1>8 DEF S

(* One page: the last one leaves nothing out, and after another one the    *)
(* rows that were not shown come later.                                    *)
LEMMA PageRead ==
    ASSUME TypeOK, NoRepeats(table), NEW o \in Pagers, o.page > 0, DueIn(table, who, o), ReadPage(o),
           UNCHANGED <<table, who>>
    PROVE  /\ ListInv'
           /\ pager'.page = 0 => o.due \subseteq List(o, o.page)
<1> DEFINE b == (o.page - 1) * Limit
           S == List(o, o.page)
           T == b .. (b + Limit - 1)
<1>0. b \in Nat /\ Limit \in Nat \ {0} /\ o.page \in Nat \ {0} /\ ((o.page + 1) - 1) * Limit = b + Limit
  <2>1. o.page - 1 \in Nat /\ Limit \in Nat \ {0} /\ o.page \in Nat \ {0}
    BY ConversationsAssumption DEF ConversationsAssumption, Pagers
  <2> QED
    BY <2>1
<1>1. S = {q \in Listed(o) : Place(o, q) \in T} /\ S \subseteq Requests
  <2>1. S = {q \in Listed(o) : Place(o, q) \in T}
    BY DEF List, LimitOffset, Place
  <2> QED
    BY <2>1, ListedFinite
<1>2. /\ o.due \subseteq Listed(o)
      /\ \A p \in o.due : Place(o, p) >= b
      /\ \A p : Place(o, p) \in Nat
  BY PresentList, ListedFinite DEF DueIn, Place
<1>3. \A p \in o.due \ S : Place(o, p) >= b + Limit
  <2> HIDE DEF b, S
  <2> QED
    BY <1>0, <1>1, <1>2
<1>4. pager' = IF Cardinality(S) < Limit THEN NoPager
                 ELSE [o EXCEPT !.page = @ + 1, !.due = @ \ S]
  BY DEF ReadPage
<1> HIDE DEF b, S
<1>5. CASE Cardinality(S) < Limit
  <2>1. IsFiniteSet(S) /\ Cardinality(S) \in Nat
    BY <1>1, ListedFinite, FS_Subset, FS_CardinalityType
  <2>2. ASSUME NEW p \in o.due \ S PROVE FALSE
    <3>1. Place(o, p) >= (o.page - 1) * Limit + Limit /\ p \in Listed(o)
      BY <1>2, <1>3 DEF b
    <3>2. Cardinality(List(o, o.page)) >= Limit
      BY <1>0, <3>1, FullPage
    <3> QED
      BY <1>0, <1>5, <2>1, <3>2 DEF S
  <2>3. NoPager \in Pagers /\ NoPager.page = 0
    BY DEF NoPager, Pagers
  <2>4. ListInv'
    BY <1>4, <1>5, <2>3 DEF ListInv, Pagers, Tenants
  <2> QED
    BY <2>2, <2>4 DEF S
<1>6. CASE ~(Cardinality(S) < Limit)
  <2> DEFINE n == [o EXCEPT !.page = @ + 1, !.due = @ \ S]
  <2>1. /\ n \in Pagers /\ n.page = o.page + 1 /\ n.due = o.due \ S
        /\ n.user = o.user /\ n.tenant = o.tenant
    <3> DEFINE U == {w.user : w \in Principals} \cup {NoUser}
               V == Tenants \cup {NoTenant}
               R == SUBSET Requests
    <3>1. Pagers = [user : U, tenant : V, page : Nat, due : R] /\ o.due \ S \in R
      BY DEF Pagers
    <3>2. o.page \in Nat /\ o.page + 1 \in Nat
      BY <1>0
    <3> HIDE DEF U, V, R
    <3> QED
      BY <3>1, <3>2
  <2> HIDE DEF n
  <2>2. Chosen(table, who, n) = Listed(o) /\ \A p : Cardinality(Before(table, who, n, p)) = Place(o, p)
    <3>1. Chosen(table, who, n) = Chosen(table, who, o)
      BY <2>1 DEF Chosen
    <3>2. \A p : Before(table, who, n, p) = Before(table, who, o, p)
      BY <3>1 DEF Before
    <3> QED
      BY <3>1, <3>2, PresentList DEF Place
  <2>3. DueIn(table, who, n)
    BY <1>0, <1>2, <1>3, <2>1, <2>2 DEF DueIn
  <2>4. pager' = n /\ table' = table /\ who' = who
    BY <1>4, <1>6 DEF n
  <2>5. ListInv'
    BY <2>1, <2>3, <2>4 DEF ListInv, Pagers, Tenants
  <2> QED
    BY <1>0, <2>1, <2>4, <2>5
<1> QED
  BY <1>5, <1>6

(* The table changes, and the rows D stay due: what was before a row that  *)
(* the pages had not shown is now before each of them.                     *)
LEMMA DueKept ==
    ASSUME NEW t, NEW u \in Seq(Requests), NEW w, NEW v, NEW o \in Pagers, NEW x \in Pagers,
           o.page > 0, DueIn(t, w, o),
           x.user = o.user, x.tenant = o.tenant, x.page = o.page,
           x.due \subseteq Chosen(u, v, o),
           \A p \in x.due : \E q \in o.due : Before(t, w, o, q) \subseteq Before(u, v, o, p)
    PROVE  DueIn(u, v, x)
<1>1. Chosen(u, v, x) = Chosen(u, v, o) /\ \A p : Before(u, v, x, p) = Before(u, v, o, p)
  <2>1. Chosen(u, v, x) = Chosen(u, v, o)
    BY DEF Chosen
  <2> QED
    BY <2>1 DEF Before
<1>2. ASSUME NEW p \in x.due PROVE Cardinality(Before(u, v, x, p)) >= (x.page - 1) * Limit
  <2>1. PICK q \in o.due : Before(t, w, o, q) \subseteq Before(u, v, o, p)
    OBVIOUS
  <2>2. IsFiniteSet(Before(u, v, o, p))
    <3>1. IsFiniteSet(Requests)
      <4>1. 1 \in Int /\ MaxRequests \in Int
        BY ConversationsAssumption DEF ConversationsAssumption
      <4> QED
        BY <4>1, FS_Interval DEF Requests
    <3>2. Before(u, v, o, p) \subseteq Requests
      BY InRange DEF Before, Chosen
    <3> QED
      BY <3>1, <3>2, FS_Subset
  <2>3. /\ Cardinality(Before(t, w, o, q)) <= Cardinality(Before(u, v, o, p))
        /\ Cardinality(Before(t, w, o, q)) \in Nat /\ Cardinality(Before(u, v, o, p)) \in Nat
    BY <2>1, <2>2, FS_Subset, FS_CardinalityType
  <2>4. Cardinality(Before(t, w, o, q)) >= (o.page - 1) * Limit /\ (o.page - 1) * Limit \in Nat
    <3>1. o.page - 1 \in Nat /\ Limit \in Nat
      BY ConversationsAssumption DEF ConversationsAssumption, Pagers
    <3>2. (o.page - 1) * Limit \in Nat
      BY <3>1
    <3> QED
      BY <3>2 DEF DueIn
  <2> DEFINE b == (o.page - 1) * Limit
  <2> HIDE DEF b
  <2>5. Cardinality(Before(u, v, o, p)) >= b
    BY <2>3, <2>4 DEF b
  <2> QED
    BY <1>1, <2>5 DEF b
<1> QED
  BY <1>1, <1>2 DEF DueIn

(* A new row comes first, and the others keep their order. *)
LEMMA NewRowOrder ==
    ASSUME NEW t \in Seq(Requests), NEW r \in Requests, NEW q, NEW p, Precedes(t, q, p)
    PROVE  Precedes(<<r>> \o t, q, p)
<1>1. <<r>> \in Seq(Requests) /\ Len(<<r>>) = 1
  OBVIOUS
<1> DEFINE u == <<r>> \o t
<1>2. /\ Len(u) = 1 + Len(t) /\ Len(t) \in Nat
      /\ \A i \in 1 .. 1 + Len(t) : u[i] = IF i <= 1 THEN <<r>>[i] ELSE t[i - 1]
  BY <1>1, ConcatProperties, LenProperties
<1> HIDE DEF u
<1>3. PICK i, j \in 1 .. Len(t) : i < j /\ t[i] = q /\ t[j] = p
  BY DEF Precedes
<1>4. /\ i + 1 \in 1 .. Len(u) /\ j + 1 \in 1 .. Len(u) /\ i + 1 < j + 1
      /\ u[i + 1] = q /\ u[j + 1] = p
  BY <1>2, <1>3
<1> QED
  BY <1>4 DEF Precedes, u

(* A response is stored. *)
LEMMA CreateLists ==
    ASSUME TypeOK, RowsInv, NoRepeats(table), ListInv, NEW r \in Requests, Create(r)
    PROVE  ListInv'
<1>1. table' = <<r>> \o table /\ who' = who /\ pager' = pager /\ table \in Seq(Requests)
  BY DEF Create, TypeOK
<1>2. r \notin Range(table)
  BY DEF Create, RowsInv, rows
<1>3. Range(<<r>> \o table) = Range(table) \cup {r} /\ <<r>> \o table \in Seq(Requests)
  <2>1. <<r>> \in Seq(Requests)
    OBVIOUS
  <2> QED
    BY <1>1, <1>2, <2>1, NewRow, ConcatProperties
<1> DEFINE u == <<r>> \o table
<1> HIDE DEF u
<1>4. ASSUME pager.page > 0 PROVE DueIn(u, who, pager)
  <2>1. Chosen(table, who, pager) \subseteq Chosen(u, who, pager)
    BY <1>3 DEF Chosen, u
  <2>2. \A p : Before(table, who, pager, p) \subseteq Before(u, who, pager, p)
    BY <1>1, <2>1, NewRowOrder DEF Before, u
  <2>3. pager \in Pagers /\ DueIn(table, who, pager)
    BY <1>4 DEF ListInv
  <2>4. pager.due \subseteq Chosen(u, who, pager)
    BY <2>1, <2>3 DEF DueIn
  <2> QED
    BY <1>3, <1>4, <2>2, <2>3, <2>4, DueKept DEF u
<1> QED
  BY <1>1, <1>4 DEF ListInv, u, Pagers, Tenants

(* A request that has no row changes its owner. *)
LEMMA OwnersList ==
    ASSUME TypeOK, ListInv, NEW r, r \notin rows, NEW w, who' = [who EXCEPT ![r] = w],
           UNCHANGED <<table, pager>>
    PROVE  ListInv'
<1>1. \A p \in Range(table) : who'[p] = who[p]
  BY InRange DEF TypeOK, rows
<1>2. Chosen(table, who', pager) = Chosen(table, who, pager)
  BY <1>1 DEF Chosen
<1>3. \A p : Before(table, who', pager, p) = Before(table, who, pager, p)
  BY <1>2 DEF Before
<1>4. DueIn(table, who, pager) => DueIn(table, who', pager)
  BY <1>2, <1>3 DEF DueIn
<1> QED
  BY <1>4 DEF ListInv, Pagers, Tenants

(* Rows disappear: the others keep their order, and among those that are   *)
(* still due what was before a missing row is before the ones behind it.   *)
LEMMA RemoveLists ==
    ASSUME TypeOK, NoRepeats(table), ListInv, NEW gone, NEW left \in Seq(Requests),
           RemoveRows(gone, left), who' = who,
           Range(left) \cap gone = {}, rows = Range(left) \cup gone,
           \A q, p \in Range(left) : Precedes(left, q, p) <=> Precedes(table, q, p),
           (\E g : gone = {g}) \/ (\A q \in gone, p \in Range(left) : ~Precedes(table, q, p))
    PROVE  ListInv'
<1> DEFINE D == StillDue(gone)
           x == [pager EXCEPT !.due = D]
<1>0. pager \in Pagers /\ pager.due \in SUBSET Requests
  BY DEF ListInv, Pagers
<1>1. table' = left /\ who' = who /\ pager' = x
  BY DEF RemoveRows
<1>2. D \subseteq pager.due \ gone
  BY DEF StillDue
<1>3. /\ x \in Pagers /\ x.page = pager.page /\ x.due = D
      /\ x.user = pager.user /\ x.tenant = pager.tenant
  <2>1. D \in SUBSET Requests
    BY <1>0, <1>2
  <2> HIDE DEF D
  <2> QED
    BY <1>0, <2>1, PagerRecord, SMTT(30)
<1> HIDE DEF x
<1>4. ASSUME pager.page > 0 PROVE DueIn(left, who, x)
  <2>0. DueIn(table, who, pager)
    BY <1>4 DEF ListInv
  <2>1. Chosen(table, who, pager) \ gone = Chosen(left, who, pager)
    BY DEF Chosen, rows
  <2>2. D \subseteq Chosen(left, who, pager)
    BY <1>2, <2>0, <2>1 DEF DueIn
  <2>3. ASSUME NEW p \in D
        PROVE  \E q \in pager.due :
                 Before(table, who, pager, q) \subseteq Before(left, who, pager, p)
    <3>0. p \in pager.due /\ p \in Range(left)
      BY <1>2, <2>2, <2>3 DEF Chosen
    <3>1. CASE Before(table, who, pager, p) \cap gone = {}
      <4>1. \A q \in Before(table, who, pager, p) : q \in Chosen(left, who, pager) /\ q \in Range(left)
        BY <2>1, <3>1 DEF Before, Chosen
      <4>2. Before(table, who, pager, p) \subseteq Before(left, who, pager, p)
        BY <3>0, <4>1 DEF Before
      <4> QED
        BY <3>0, <4>2
    <3>2. CASE Before(table, who, pager, p) \cap gone # {}
      <4>1. PICK g \in gone : g \in Chosen(table, who, pager) /\ Precedes(table, g, p)
        BY <3>2 DEF Before
      <4>2. gone = {g}
        BY <3>0, <4>1
      <4>3. Matches(pager, g)
        BY <4>1, PresentList DEF Listed
      <4>4. g \in pager.due
        BY <2>3, <4>1, <4>3 DEF StillDue
      <4>5. ASSUME NEW q \in Before(table, who, pager, g) PROVE q \in Before(left, who, pager, p)
        <5>1. q \in Chosen(table, who, pager) /\ Precedes(table, q, g)
          BY <4>5 DEF Before
        <5>2. q # g /\ Precedes(table, q, p)
          BY <4>1, <5>1, NewerOrder
        <5>3. q \in Chosen(left, who, pager) /\ q \in Range(left)
          BY <2>1, <4>2, <5>1, <5>2 DEF Chosen
        <5> QED
          BY <3>0, <5>2, <5>3 DEF Before
      <4> QED
        BY <4>4, <4>5
    <3> QED
      BY <3>1, <3>2
  <2> HIDE DEF D
  <2> QED
    BY <1>0, <1>3, <1>4, <2>0, <2>2, <2>3, DueKept
<1> QED
  BY <1>1, <1>3, <1>4 DEF ListInv, Pagers, Tenants

(* A row is deleted, or the last ones expire. *)
LEMMA DeleteLists ==
    ASSUME TypeOK, NoRepeats(table), ListInv,
           (\E p : DeleteRow(p)) \/ (\E k \in DOMAIN table : cleanup(k))
    PROVE  ListInv' /\ pager'.page = pager.page
<1>0. table \in Seq(Requests) /\ DOMAIN table = 1 .. Len(table) /\ pager \in Pagers
  BY LenProperties DEF TypeOK, ListInv
<1>1. ASSUME NEW p, DeleteRow(p) PROVE ListInv' /\ pager'.page = pager.page
  <2>1. PICK k \in 1 .. Len(table) : table[k] = p /\ RemoveRows({p}, RemoveAt(table, k))
    BY <1>0, <1>1 DEF DeleteRow
  <2>2. who' = who /\ pager' = [pager EXCEPT !.due = StillDue({p})]
    BY <1>1, <2>1 DEF DeleteRow, RemoveRows
  <2> DEFINE left == RemoveAt(table, k)
  <2>3. /\ left \in Seq(Requests) /\ Range(left) \cap {p} = {} /\ rows = Range(left) \cup {p}
        /\ \A q, s \in Range(left) : Precedes(left, q, s) <=> Precedes(table, q, s)
    BY <1>0, <2>1, RowRemoved, RemoveAtRange DEF rows
  <2>4. RemoveRows({p}, left)
    BY <2>1
  <2> HIDE DEF left
  <2>5. ListInv'
    BY <2>2, <2>3, <2>4, RemoveLists
  <2> QED
    BY <1>0, <2>2, <2>5 DEF Pagers
<1>2. ASSUME NEW k \in DOMAIN table, cleanup(k) PROVE ListInv' /\ pager'.page = pager.page
  <2> DEFINE old == Range(SubSeq(table, k, Len(table)))
             left == SubSeq(table, 1, k - 1)
  <2>1. RemoveRows(old, left) /\ who' = who
    BY <1>2 DEF cleanup
  <2>2. pager' = [pager EXCEPT !.due = StillDue(old)]
    BY <2>1 DEF RemoveRows
  <2>3. /\ Range(left) \cap old = {} /\ rows = Range(left) \cup old
        /\ \A q, s \in Range(left) : Precedes(left, q, s) <=> Precedes(table, q, s)
        /\ \A q \in old, s \in Range(left) : ~Precedes(table, q, s)
    BY <1>0, RowsExpired DEF rows
  <2>4. left \in Seq(Requests)
    <3>1. Len(table) \in Nat /\ k \in 1 .. Len(table)
      BY <1>0, LenProperties
    <3>2. 1 \in Int /\ k - 1 \in Int /\ 1 <= 1 /\ k - 1 <= Len(table)
      BY <3>1
    <3> QED
      BY <1>0, <3>2, SubSeqRange
  <2> HIDE DEF old, left
  <2>5. ListInv'
    BY <2>1, <2>3, <2>4, RemoveLists
  <2> QED
    BY <1>0, <2>2, <2>5 DEF Pagers
<1> QED
  BY <1>1, <1>2

(* The first page: everything that is listed is due. *)
LEMMA StartLists ==
    ASSUME TypeOK, NoRepeats(table), ListInv, NEW w \in Principals, NEW t \in Tenants \cup {NoTenant},
           StartListing(w, t)
    PROVE  ListInv' /\ pager.page = 0
<1> DEFINE usr == IF w.user \in AdminUsers THEN NoUser ELSE w.user
           o == [NoPager EXCEPT !.user = usr, !.tenant = t, !.page = 1]
           x == [o EXCEPT !.due = Listed(o)]
<1>1. pager.page = 0 /\ ReadPage(x) /\ UNCHANGED <<table, who>>
  BY DEF StartListing
<1>2. usr \in {v.user : v \in Principals} \cup {NoUser}
  OBVIOUS
<1>3. o = [user |-> usr, tenant |-> t, page |-> 1, due |-> {}]
  <2> HIDE DEF usr
  <2> DEFINE y == [NoPager EXCEPT !.user = usr]
             z == [y EXCEPT !.tenant = t]
  <2>1. o = [z EXCEPT !.page = 1]
    OBVIOUS
  <2>2. y = [user |-> usr, tenant |-> NoTenant, page |-> 0, due |-> {}]
    BY DEF NoPager
  <2> HIDE DEF y, o
  <2>3. z = [user |-> usr, tenant |-> t, page |-> 0, due |-> {}]
    BY <2>2
  <2> HIDE DEF z
  <2> QED
    BY <2>1, <2>3
<1>4. o \in Pagers /\ o.page = 1
  <2> HIDE DEF usr, o
  <2> QED
    BY <1>2, <1>3 DEF Pagers
<1> HIDE DEF o, usr
<1>5. Listed(o) \in SUBSET Requests
  BY ListedFinite
<1>6. /\ x \in Pagers /\ x.page = o.page /\ x.due = Listed(o)
      /\ x.user = o.user /\ x.tenant = o.tenant
  BY <1>4, <1>5, PagerRecord
<1> HIDE DEF x
<1>7. DueIn(table, who, x)
  <2>1. Chosen(table, who, x) = Listed(o)
    BY <1>6 DEF Chosen, Listed, Matches, rows
  <2>2. (x.page - 1) * Limit = 0
    BY <1>4, <1>6, ConversationsAssumption DEF ConversationsAssumption
  <2>3. \A p : Cardinality(Before(table, who, x, p)) \in Nat
    BY PresentList, ListedFinite DEF Place
  <2>4. \A p : Cardinality(Before(table, who, x, p)) >= (x.page - 1) * Limit
    BY <2>2, <2>3
  <2> QED
    BY <1>6, <2>1, <2>4 DEF DueIn
<1>8. x.page > 0
  BY <1>4, <1>6
<1> QED
  BY <1>1, <1>6, <1>7, <1>8, PageRead

(* Every step keeps the place of what is due, and only the last page ends  *)
(* the listing.                                                            *)
LEMMA ListStep ==
    HistoryInv /\ TranscriptInv /\ ListInv /\ [Next]_vars =>
        /\ ListInv'
        /\ pager.page > 0 /\ pager'.page = 0 => pager.due \subseteq List(pager, pager.page)
<1> DEFINE Done == pager.page > 0 /\ pager'.page = 0 => pager.due \subseteq List(pager, pager.page)
<1> SUFFICES ASSUME HistoryInv, TranscriptInv, ListInv, [Next]_vars PROVE ListInv' /\ Done
  OBVIOUS
<1> HIDE DEF Done
<1>0. TypeOK /\ RowsInv /\ NoRepeats(table) /\ pager \in Pagers /\ pager.page \in Nat
  BY DEF HistoryInv, TranscriptInv, ListInv, Pagers
<1>a. ASSUME pager'.page = pager.page PROVE Done
  BY <1>0, <1>a DEF Done
<1>1. ASSUME NEW r \in Requests, Handler(r)
      PROVE  ListInv' /\ Done
  <2>1. ASSUME NEW w, NEW p, NEW q, NEW h, phase[r] = "new", Accept(r, w, p, q, h)
        PROVE  ListInv' /\ Done
    <3>1. r \notin rows /\ who' = [who EXCEPT ![r] = w] /\ UNCHANGED <<table, pager>>
      BY <1>0, <2>1 DEF Accept, RowsInv
    <3> QED
      BY <1>0, <1>a, <3>1, OwnersList
  <2>2. CASE \E w \in Principals, q \in Providers : FirstTurn(r, w, q)
    BY <2>1, <2>2 DEF FirstTurn, Arrives
  <2>3. CASE \E w \in Principals, p \in rows, q \in Providers,
               ref \in {"none"} \cup UNION {OutputItems(a) : a \in Answers} : FollowUp(r, w, p, q, ref)
    <3>1. PICK w \in Principals, p \in rows, q \in Providers,
               ref \in {"none"} \cup UNION {OutputItems(a) : a \in Answers} : FollowUp(r, w, p, q, ref)
      BY <2>3
    <3> QED
      BY <2>1, <3>1 DEF FollowUp, Arrives
  <2>4. CASE Refuse(r) \/ ProviderFails(r) \/ AnswerStreamEmpty(r) \/ CreateSkipped(r)
    <3>1. phase[r] # "done" /\ Return(r)
      BY <2>4 DEF Refuse, Arrives, ProviderFails, AnswerStreamEmpty, CanAnswer, CreateSkipped
    <3>2. r \notin rows /\ who' = [who EXCEPT ![r] = Nobody] /\ UNCHANGED <<table, pager>>
      BY <1>0, <3>1 DEF Return, RowsInv
    <3> QED
      BY <1>0, <1>a, <3>2, OwnersList
  <2>5. CASE \E a \in Answers : AnswerSync(r, a) \/ AnswerStream(r, a)
    <3>1. UNCHANGED <<who, table, pager>>
      BY <2>5 DEF AnswerSync, AnswerStream, Answered
    <3> QED
      BY <1>a, <3>1 DEF ListInv, Pagers, Tenants
  <2>6. CASE Create(r)
    <3>1. pager' = pager
      BY <2>6 DEF Create
    <3> QED
      BY <1>0, <1>a, <2>6, <3>1, CreateLists
  <2> QED
    BY <1>1, <2>2, <2>3, <2>4, <2>5, <2>6 DEF Handler
<1>2. CASE \E w \in Principals, t \in Tenants \cup {NoTenant} : StartListing(w, t)
  <2>1. ListInv' /\ pager.page = 0
    BY <1>0, <1>2, StartLists
  <2> QED
    BY <2>1 DEF Done
<1>3. CASE NextPage
  <2>1. pager.page > 0 /\ DueIn(table, who, pager) /\ ReadPage(pager) /\ UNCHANGED <<table, who>>
    BY <1>3 DEF NextPage, ListInv
  <2> QED
    BY <1>0, <2>1, PageRead DEF Done
<1>4. CASE (\E p \in rows : handleDeleteResponse(p))
             \/ (\E p \in rows : HandleDeleteConversation(p))
             \/ (\E k \in DOMAIN table : cleanup(k))
  BY <1>0, <1>a, <1>4, DeleteLists DEF handleDeleteResponse, HandleDeleteConversation
<1>5. CASE UNCHANGED vars
  BY <1>a, <1>5 DEF vars, ListInv, Pagers, Tenants
<1> QED
  BY <1>1, <1>2, <1>3, <1>4, <1>5 DEF Next, Done

(* Who pages to the end of the list has seen every row that was there from *)
(* the first page to the last (HandleListConversations, SQLStore.List),    *)
(* for pages of any size, any number of responses stored in between, and   *)
(* deletions and expiry of rows that are still to come.                    *)
THEOREM ListingComplete == Spec => ListingMissesNothing
<1>1. Init => ListInv
  BY DEF Init, ListInv, NoPager, Pagers
<1>2. HistoryInv /\ TranscriptInv /\ ListInv /\ [Next]_vars =>
        [pager.page > 0 /\ pager'.page = 0 =>
           pager.due \subseteq List(pager, pager.page)]_vars
  BY ListStep
<1> QED
  BY <1>1, <1>2, HistoryInvariant, TranscriptInvariant, ListStep, PTL DEF Spec, ListingMissesNothing
==============================================================================
