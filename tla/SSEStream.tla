----------------------------- MODULE SSEStream -----------------------------
(***************************************************************************)
(* What handleStreamingResponse tells its client: the events it sends for  *)
(* a stream of provider deltas, and what a client that follows them knows. *)
(*                                                                         *)
(* Text and arguments are sequences of numbered fragments, <<>> the empty  *)
(* string.  This module has the handler's actions; ProviderStreams         *)
(* composes them with the providers that send the deltas.  How channels    *)
(* and goroutines deliver them is the subject of StreamPipeline; here they *)
(* come one after the other.                                               *)
(***************************************************************************)
EXTENDS Integers, Sequences, FiniteSets

(* Tool names: f and h are declared by the request, u is not; "" is a name *)
(* that did not arrive yet.  tool_choice names f where it names a tool;    *)
(* its mode "any" is treated as "required".                                *)
Names == {"", "f", "h", "u"}
Declared == {"f", "h"}
Modes == {"auto", "none", "required", "function", "allowed_tools"}

(* ProviderStreamDelta: text, ToolCallDelta, Done and ReplayMessage. *)
ToolDelta(index, name, args) == [index |-> index, name |-> name, args |-> args]
NoTool == ToolDelta(-1, "", <<>>)
NoReplay == <<>>

TextDelta(text) == [text |-> text, tool |-> NoTool, done |-> FALSE, replay |-> NoReplay]
CallDelta(tool) == [text |-> <<>>, tool |-> tool, done |-> FALSE, replay |-> NoReplay]
DoneDelta(replay) == [text |-> <<>>, tool |-> NoTool, done |-> TRUE, replay |-> replay]

VARIABLES
    mode,   \* toolChoice.Mode of the request
    h,      \* the handler's local state, see Handler0
    pc      \* where the handler stands

handlerVars == <<mode, h, pc>>

MsgItem == <<"message", 0>>
CallItem(i) == <<"function_call", i>>

(* An event about an item: its type, the item, its output_index, and the   *)
(* content it carries.                                                     *)
Ev(type, item, index, content) ==
    [type |-> type, item |-> item, index |-> index, content |-> content]

(* Events of the whole response. *)
RespEv(type, output) ==
    [type |-> type, item |-> <<"response", 0>>, index |-> 0, content |-> output]

(***************************************************************************)
(* The client: follows the events and keeps the items it was told of.  It  *)
(* is confused by an event that does not fit what it knows.                *)
(***************************************************************************)
View0 == [items |-> <<>>, final |-> "none", closed |-> FALSE, confused |-> FALSE]

Confused(v) == [v EXCEPT !.confused = TRUE]

Entry(item, content, status) == [item |-> item, content |-> content, status |-> status]

(* The client's entry for the item of an event, which is in progress. *)
EntryOf(v, e) == v.items[e.index + 1]

KnownItem(v, e) ==
    /\ e.index + 1 \in DOMAIN v.items
    /\ EntryOf(v, e).item = e.item
    /\ EntryOf(v, e).status = "in_progress"

Update(v, e, content, status) ==
    [v EXCEPT !.items[e.index + 1] = Entry(e.item, content, status)]

Follow(v, e) ==
    IF v.closed \/ (v.final # "none" /\ e.type # "[DONE]") THEN Confused(v)
    ELSE CASE e.type = "in_progress" ->
              IF v.items = <<>> THEN v ELSE Confused(v)
           [] e.type = "item.added" ->
              IF e.index = Len(v.items)
              THEN [v EXCEPT !.items = Append(@, Entry(e.item, <<>>, "in_progress"))]
              ELSE Confused(v)
           [] e.type = "part.added" ->
              IF KnownItem(v, e) THEN v ELSE Confused(v)
           [] e.type \in {"text.delta", "args.delta"} ->
              IF KnownItem(v, e)
              THEN Update(v, e, EntryOf(v, e).content \o e.content, "in_progress")
              ELSE Confused(v)
           [] e.type \in {"text.done", "part.done", "args.done"} ->
              IF KnownItem(v, e) /\ EntryOf(v, e).content = e.content
              THEN v
              ELSE Confused(v)
           [] e.type = "item.done" ->
              IF KnownItem(v, e) /\ EntryOf(v, e).content = e.content
              THEN Update(v, e, e.content, "completed")
              ELSE Confused(v)
           [] e.type = "completed" ->
              IF /\ \A i \in DOMAIN v.items : v.items[i].status = "completed"
                 /\ e.content = [i \in DOMAIN v.items |->
                                   [item |-> v.items[i].item, content |-> v.items[i].content]]
              THEN [v EXCEPT !.final = "completed"]
              ELSE Confused(v)
           [] e.type = "failed" -> [v EXCEPT !.final = "failed"]
           [] e.type = "[DONE]" ->
              IF v.final # "none" THEN [v EXCEPT !.closed = TRUE] ELSE Confused(v)

(***************************************************************************)
(* The handler's state                                                     *)
(***************************************************************************)
(* nextOutputIdx, assistantMsg, toolCallsInProgress, the calls that the    *)
(* last loop has still to report, streamRespErr, replayMessage, and what   *)
(* the client knows from the events sent so far (observer).                *)
Handler0 ==
    [next  |-> 0,
     msg   |-> [started |-> FALSE, index |-> 0, text |-> <<>>],
     calls |-> [i \in {} |-> 0],
     left  |-> {},
     err   |-> FALSE,
     replay |-> NoReplay,
     view  |-> View0]

SendSSE(g, e) == [g EXCEPT !.view = Follow(@, e)]

HandlerInit ==
    /\ mode \in Modes
    /\ h = SendSSE(Handler0, RespEv("in_progress", <<>>))
    /\ pc = "loop"

(***************************************************************************)
(* Text                                                                    *)
(***************************************************************************)
EnsureMessageStarted(g) ==
    IF g.msg.started THEN g
    ELSE SendSSE(SendSSE([g EXCEPT !.msg = [started |-> TRUE, index |-> g.next, text |-> @.text],
                                   !.next = @ + 1],
                         Ev("item.added", MsgItem, g.next, <<>>)),
                 Ev("part.added", MsgItem, g.next, <<>>))

OnText(g, d) ==
    IF d.text = <<>> THEN g
    ELSE LET s == EnsureMessageStarted(g)
         IN SendSSE([s EXCEPT !.msg.text = @ \o d.text],
                    Ev("text.delta", MsgItem, s.msg.index, d.text))

(***************************************************************************)
(* Tool calls                                                              *)
(***************************************************************************)
(* Faulty variant: tool_choice does not restrict the declared tools. *)
NameRefusedUndeclaredOnly(name) ==
    \/ mode = "none"
    \/ name # "" /\ name \notin Declared

(* validateToolCallName *)
NameRefused(name) ==
    \/ mode = "none"
    \/ name # "" /\ name \notin Declared
    \/ name # "" /\ mode \in {"function", "allowed_tools"} /\ name # "f"

(* A call seen for the first time is announced unless its name is refused. *)
StartCall(g, t) ==
    IF t.index \in DOMAIN g.calls THEN g
    ELSE LET b == [index |-> g.next, name |-> t.name, args |-> <<>>]
             s == [g EXCEPT !.next = @ + 1,
                            !.calls = [i \in DOMAIN @ \cup {t.index} |->
                                         IF i = t.index THEN b ELSE @[i]]]
         IN IF NameRefused(t.name) THEN [s EXCEPT !.err = TRUE]
            ELSE SendSSE(s, Ev("item.added", CallItem(t.index), b.index, <<>>))

(* A name that arrives later is checked then. *)
NameCall(g, t) ==
    IF g.err \/ t.name = "" \/ g.calls[t.index].name # "" THEN g
    ELSE [g EXCEPT !.calls[t.index].name = t.name, !.err = NameRefused(t.name)]

Arguments(g, t) ==
    IF g.err \/ t.args = <<>> THEN g
    ELSE SendSSE([g EXCEPT !.calls[t.index].args = @ \o t.args],
                 Ev("args.delta", CallItem(t.index), g.calls[t.index].index, t.args))

OnTool(g, d) ==
    IF d.tool = NoTool THEN g
    ELSE Arguments(NameCall(StartCall(g, d.tool), d.tool), d.tool)

OnReplay(g, d) ==
    IF g.err \/ d.replay = NoReplay THEN g ELSE [g EXCEPT !.replay = d.replay]

(***************************************************************************)
(* The loop                                                                *)
(***************************************************************************)
Receive(d) ==
    /\ pc = "loop"
    /\ h' = OnReplay(OnTool(OnText(h, d), d), d)
    /\ pc' = IF h'.err \/ d.done THEN "end" ELSE "loop"
    /\ UNCHANGED mode

(* The channels are closed without a Done delta. *)
StreamEnds ==
    /\ pc = "loop"
    /\ pc' = "end"
    /\ UNCHANGED <<mode, h>>

StreamFails ==
    /\ pc = "loop"
    /\ h' = [h EXCEPT !.err = TRUE]
    /\ pc' = "end"
    /\ UNCHANGED mode

(* r.Context() is done: nothing more is sent. *)
Disconnect ==
    /\ pc = "loop"
    /\ pc' = "gone"
    /\ UNCHANGED <<mode, h>>

(***************************************************************************)
(* After the loop                                                          *)
(***************************************************************************)
(* validateToolCalls *)
CallsRefused(g) ==
    \/ \E i \in DOMAIN g.calls : NameRefused(g.calls[i].name)
    \/ DOMAIN g.calls = {} /\ mode \in {"required", "function"}

SendDone(g) == SendSSE(g, RespEv("[DONE]", <<>>))

Fail ==
    /\ pc = "end"
    /\ h.err \/ CallsRefused(h)
    /\ h' = SendDone(SendSSE(h, RespEv("failed", <<>>)))
    /\ pc' = "closed"
    /\ UNCHANGED mode

MessageDone(g) ==
    LET Send(s, type) == SendSSE(s, Ev(type, MsgItem, s.msg.index, s.msg.text))
    IN IF g.msg.started THEN Send(Send(Send(g, "text.done"), "part.done"), "item.done")
                        ELSE g

Complete ==
    /\ pc = "end"
    /\ ~(h.err \/ CallsRefused(h))
    /\ h' = [MessageDone(h) EXCEPT !.left = DOMAIN h.calls]
    /\ pc' = "finish"
    /\ UNCHANGED mode

(* The next one of sortedToolCallBuilders. *)
CallDone(i) ==
    /\ pc = "finish"
    /\ i \in h.left
    /\ \A j \in h.left : h.calls[i].index <= h.calls[j].index
    /\ h' = LET Send(s, type) == SendSSE(s, Ev(type, CallItem(i), s.calls[i].index, s.calls[i].args))
            IN [Send(Send(h, "args.done"), "item.done") EXCEPT !.left = @ \ {i}]
    /\ UNCHANGED <<mode, pc>>

(* The items of the completed response with their output indexes. *)
OutputItems(g) ==
    (IF g.msg.started
     THEN {[index |-> g.msg.index, item |-> MsgItem, content |-> g.msg.text]}
     ELSE {})
    \cup {[index |-> g.calls[i].index, item |-> CallItem(i), content |-> g.calls[i].args] :
            i \in DOMAIN g.calls}

(* Faulty variant: the message first, then the calls. *)
MessageFirst(x, y) ==
    IF x.item = MsgItem THEN y.item # MsgItem ELSE y.item # MsgItem /\ x.index < y.index

Precedes(x, y) == x.index < y.index

(* buildOrderedStreamOutput: an item comes after those that precede it. *)
Output(g) ==
    LET S == OutputItems(g)
        At(k) == CHOOSE x \in S : Cardinality({y \in S : Precedes(y, x)}) = k - 1
    IN [k \in 1 .. Cardinality(S) |-> [item |-> At(k).item, content |-> At(k).content]]

Completed ==
    /\ pc = "finish"
    /\ h.left = {}
    /\ h' = SendDone(SendSSE(h, RespEv("completed", Output(h))))
    /\ pc' = "closed"
    /\ UNCHANGED mode

(***************************************************************************)
(* Properties                                                              *)
(***************************************************************************)
(* A client that builds the response from the events is never surprised,   *)
(* whatever the provider interleaves: output indexes are announced in      *)
(* order, deltas belong to announced items, every done event repeats what  *)
(* the deltas said, and the completed response is what the client built.   *)
ClientFollows == ~h.view.confused

(* A completed response respects tool_choice, also when a tool's name      *)
(* arrives after the call was announced.                                   *)
ToolChoiceRespected ==
    pc = "closed" /\ h.view.final = "completed" =>
        /\ mode = "none" => DOMAIN h.calls = {}
        /\ mode \in {"required", "function"} => DOMAIN h.calls # {}
        /\ \A i \in DOMAIN h.calls :
             /\ h.calls[i].name \in Declared \cup {""}
             /\ mode \in {"function", "allowed_tools"} => h.calls[i].name \in {"f", ""}
=============================================================================
