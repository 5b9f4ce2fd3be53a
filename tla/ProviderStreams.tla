--------------------------- MODULE ProviderStreams --------------------------
(***************************************************************************)
(* From the events of an upstream to the response of the client: the       *)
(* decoding loops of the three providers' GenerateStream composed with the *)
(* handler of SSEStream, next to what Generate returns for the same        *)
(* answer.                                                                 *)
(*                                                                         *)
(* answer is what the upstream has said so far, independent of how it was  *)
(* cut into events.  Fragments of text and of arguments have numbers from  *)
(* 1; fragment 0 is the literal "{}" of a call without arguments.  No name *)
(* here is one of StreamPipeline, so that one module can extend both.      *)
(***************************************************************************)
EXTENDS SSEStream, SequencesExt, TLC

CONSTANTS
    MaxAnthropic,   \* bound: events of an Anthropic stream
    MaxGoogle,      \* bound: chunks of a Google stream
    MaxOpenAI       \* bound: chunks of an OpenAI stream

ASSUME EventAssumption == {MaxAnthropic, MaxGoogle, MaxOpenAI} \subseteq Nat

VARIABLES
    provider,   \* which of the three serves the request
    answer,     \* the upstream's answer: a sequence of blocks
    events,     \* events received from the upstream
    frags,      \* number of the last fragment
    queue,      \* deltas the provider's goroutine has still to send
    acc,        \* Anthropic: replayBlocks and streamToolCalls
    cut,        \* OpenAI: indexes of calls of which an entry was not forwarded
    finished    \* the upstream ended its stream without an error

upVars == <<provider, answer, events, frags, queue, acc, cut, finished>>
streamVars == <<handlerVars, upVars>>

EmptyObject == <<0>>
CallNames == Names \ {""}

Block(type, index, name, content) ==
    [type |-> type, index |-> index, name |-> name, content |-> content, signed |-> FALSE]

StreamInit ==
    /\ HandlerInit
    /\ provider \in {"anthropic", "google", "openai"}
    /\ answer = <<>> /\ events = 0 /\ frags = 0
    /\ queue = <<>> /\ acc = <<>> /\ cut = {} /\ finished = FALSE

(* Channels are unbuffered: the goroutine reads on when its delta is taken. *)
Reads(p, bound) ==
    /\ provider = p /\ pc = "loop"
    /\ queue = <<>> /\ ~finished
    /\ events < bound
    /\ events' = events + 1
    /\ UNCHANGED <<provider, finished, handlerVars>>

(***************************************************************************)
(* Anthropic: content blocks, one after the other, and deltas of them      *)
(***************************************************************************)
content_block_start(type, name) ==
    LET i == Len(answer)
        data == IF type = "redacted_thinking" THEN <<frags + 1>> ELSE <<>>
        b == Block(type, i, name, data)
    IN /\ Reads("anthropic", MaxAnthropic)
       /\ answer' = Append(answer, b)
       /\ frags' = frags + Len(data)
       /\ acc' = acc @@ (i :> b)
       /\ queue' = IF type = "tool_use" THEN <<CallDelta(ToolDelta(i, name, <<>>))>> ELSE <<>>
       /\ UNCHANGED cut

AppendFragment(b) == [b EXCEPT !.content = Append(@, frags + 1)]

(* text_delta, thinking_delta and input_json_delta, for the open block *)
content_block_delta ==
    LET i == Len(answer) - 1
        type == answer[Len(answer)].type
    IN /\ Reads("anthropic", MaxAnthropic)
       /\ answer # <<>>
       /\ type \in {"text", "thinking", "tool_use"}
       /\ answer' = [answer EXCEPT ![Len(answer)] = AppendFragment(@)]
       /\ acc' = [acc EXCEPT ![i] = AppendFragment(@)]
       /\ frags' = frags + 1
       /\ queue' = IF type = "text" THEN <<TextDelta(<<frags + 1>>)>>
                   ELSE IF type = "tool_use"
                   THEN <<CallDelta(ToolDelta(i, "", <<frags + 1>>))>>
                   ELSE <<>>
       /\ UNCHANGED cut

signature_delta ==
    /\ Reads("anthropic", MaxAnthropic)
    /\ answer # <<>>
    /\ answer[Len(answer)].type = "thinking" /\ ~answer[Len(answer)].signed
    /\ answer' = [answer EXCEPT ![Len(answer)].signed = TRUE]
    /\ acc' = [acc EXCEPT ![Len(answer) - 1].signed = TRUE]
    /\ UNCHANGED <<frags, queue, cut>>

IsCall(b) == b.type = "tool_use"

(* The replay message: content blocks in the order of their indexes, and   *)
(* tool calls.                                                             *)
ReplayMessage(content, calls) ==
    IF content = <<>> /\ calls = <<>> THEN NoReplay
    ELSE <<[content |-> content, calls |-> calls]>>

(* Faulty variant: the loop ends one index early. *)
buildStreamReplayMessageShort(blocks) ==
    LET all == [i \in 1 .. Cardinality(DOMAIN blocks) - 1 |-> blocks[i - 1]]
    IN ReplayMessage(SelectSeq(all, LAMBDA b : ~IsCall(b)), SelectSeq(all, IsCall))

buildStreamReplayMessage(blocks) ==
    LET all == [i \in 1 .. Cardinality(DOMAIN blocks) |-> blocks[i - 1]]
    IN ReplayMessage(SelectSeq(all, LAMBDA b : ~IsCall(b)), SelectSeq(all, IsCall))

(***************************************************************************)
(* Google: chunks of parts, whose function calls are whole                 *)
(***************************************************************************)
Parts == [call : CallNames, args : BOOLEAN] \cup {[call |-> "", args |-> FALSE]}

(* The index of a call is its part's position in its chunk. *)
GoogleBlock(parts, j) ==
    IF parts[j].call = "" THEN Block("text", j - 1, "", <<frags + j>>)
    ELSE Block("tool_use", j - 1, parts[j].call,
               IF parts[j].args THEN <<frags + j>> ELSE <<>>)

(* extractToolCalls and extractToolCallDelta replace missing arguments. *)
GoogleArgs(b) == IF b.content = <<>> THEN EmptyObject ELSE b.content

extractToolCallDelta(b) == ToolDelta(b.index, b.name, GoogleArgs(b))

GoogleChunk(parts) ==
    LET blocks == [j \in DOMAIN parts |-> GoogleBlock(parts, j)]
    IN /\ Reads("google", MaxGoogle)
       /\ answer' = answer \o blocks
       /\ frags' = frags + Len(parts)
       /\ queue' = [j \in DOMAIN parts |->
                      IF IsCall(blocks[j]) THEN CallDelta(extractToolCallDelta(blocks[j]))
                      ELSE TextDelta(blocks[j].content)]
       /\ UNCHANGED <<acc, cut>>

(***************************************************************************)
(* OpenAI: chunks with text and entries about calls, by index              *)
(***************************************************************************)
OpenAIIndexes == {0, 1}
Entries == [index : OpenAIIndexes, name : Names, args : BOOLEAN]

(* A chunk has no entry, one, or the whole calls 0 and 1. *)
ToolCalls ==
    {<<>>} \cup {<<e>> : e \in Entries}
    \cup {<<[index |-> 0, name |-> a, args |-> TRUE], [index |-> 1, name |-> b, args |-> TRUE]>> :
            a, b \in CallNames}

CallAt(i) == CHOOSE j \in DOMAIN answer : IsCall(answer[j]) /\ answer[j].index = i
Mentioned(i) == \E j \in DOMAIN answer : IsCall(answer[j]) /\ answer[j].index = i

(* The upstream names each call once. *)
Consistent(e) == Mentioned(e.index) => e.name = "" \/ answer[CallAt(e.index)].name = ""

EntryArgs(tcs, j) == IF tcs[j].args THEN <<frags + 1 + j>> ELSE <<>>

(* The answer with entry j of a chunk. *)
WithEntry(ans, tcs, j) ==
    LET e == tcs[j]
    IN IF Mentioned(e.index)
       THEN [ans EXCEPT ![CallAt(e.index)] =
               [@ EXCEPT !.name = IF @ = "" THEN e.name ELSE @,
                         !.content = @ \o EntryArgs(tcs, j)]]
       ELSE Append(ans, Block("tool_use", e.index, e.name, EntryArgs(tcs, j)))

(* Only the first entry of a chunk is forwarded.  Chunks with neither text *)
(* nor entries send nothing.                                               *)
OpenAIChunk(text, tcs) ==
    LET t == IF text THEN <<frags + 1>> ELSE <<>>
        withText == IF text THEN Append(answer, Block("text", -1, "", t)) ELSE answer
    IN /\ Reads("openai", MaxOpenAI)
       /\ text \/ tcs # <<>>
       /\ \A j \in DOMAIN tcs : Consistent(tcs[j])
       /\ answer' = FoldLeft(LAMBDA a, j : WithEntry(a, tcs, j), withText, [j \in DOMAIN tcs |-> j])
       /\ frags' = frags + 1 + Len(tcs)
       /\ queue' = (IF text THEN <<TextDelta(t)>> ELSE <<>>)
                   \o (IF tcs = <<>> THEN <<>>
                       ELSE <<CallDelta(ToolDelta(tcs[1].index, tcs[1].name, EntryArgs(tcs, 1)))>>)
       /\ cut' = cut \cup {tcs[j].index : j \in DOMAIN tcs \ {1}}
       /\ UNCHANGED acc

(***************************************************************************)
(* The end of a stream, and the channel to the handler                     *)
(***************************************************************************)
(* The stream ended without an error: the final delta. *)
Finish ==
    /\ pc = "loop" /\ queue = <<>> /\ ~finished
    /\ finished' = TRUE
    /\ queue' = <<DoneDelta(IF provider = "anthropic" THEN buildStreamReplayMessage(acc) ELSE NoReplay)>>
    /\ UNCHANGED <<provider, answer, events, frags, acc, cut, handlerVars>>

Deliver ==
    /\ queue # <<>>
    /\ Receive(Head(queue))
    /\ queue' = Tail(queue)
    /\ UNCHANGED <<provider, answer, events, frags, acc, cut, finished>>

HandlerStep ==
    /\ \/ StreamEnds \/ StreamFails \/ Disconnect \/ Fail
       \/ Complete \/ Completed \/ \E i \in h.left : CallDone(i)
    /\ UNCHANGED upVars

StreamTerminated == pc \in {"closed", "gone"} /\ UNCHANGED streamVars

StreamNext ==
    \/ \E type \in {"text", "thinking", "redacted_thinking"} : content_block_start(type, "")
    \/ \E name \in CallNames : content_block_start("tool_use", name)
    \/ content_block_delta \/ signature_delta
    \/ \E n \in 1 .. 2 : \E parts \in [1 .. n -> Parts] : GoogleChunk(parts)
    \/ \E text \in BOOLEAN, tcs \in ToolCalls : OpenAIChunk(text, tcs)
    \/ Finish \/ Deliver \/ HandlerStep \/ StreamTerminated

StreamSpec == StreamInit /\ [][StreamNext]_streamVars

(***************************************************************************)
(* Generate: the same answer without streaming                             *)
(***************************************************************************)
CallBlocks == SelectSeq(answer, IsCall)
TextBlocks == SelectSeq(answer, LAMBDA b : b.type = "text")

GenerateText == FoldLeft(LAMBDA t, b : t \o b.content, <<>>, TextBlocks)

(* json.Marshal of the input, or the string that OpenAI sent. *)
GenerateArgs(b) == IF provider = "openai" THEN b.content ELSE GoogleArgs(b)

GenerateReplay ==
    IF provider # "anthropic" THEN NoReplay
    ELSE ReplayMessage(SelectSeq(answer, LAMBDA b : ~IsCall(b)),
                       [j \in DOMAIN CallBlocks |->
                          [CallBlocks[j] EXCEPT !.content = GenerateArgs(CallBlocks[j])]])

(***************************************************************************)
(* The next turn: the stored answer as it is sent to a provider p          *)
(***************************************************************************)
(* json.Unmarshal takes the whole arguments of one call, nothing else. *)
IsObject(args) ==
    args = EmptyObject \/ \E b \in Range(CallBlocks) : b.content # <<>> /\ b.content = args

(* collectToolCalls *)
StoredCalls == {[name |-> h.calls[i].name, args |-> h.calls[i].args] : i \in DOMAIN h.calls}

(* Faulty variant: the replay message has no calls. *)
HistoryCallsContentOnly(p) ==
    IF p = provider /\ h.replay # NoReplay /\ h.msg.started THEN {} ELSE StoredCalls

(* The replay message takes the place of the answer at the provider that   *)
(* gave it, if the response has a message item that carries it.            *)
HistoryCalls(p) ==
    IF p = provider /\ h.replay # NoReplay /\ h.msg.started
    THEN {[name |-> c.name, args |-> c.content] : c \in Range(h.replay[1].calls)}
    ELSE StoredCalls

(* Anthropic and Google leave out calls whose arguments are not JSON. *)
SentCalls(p) ==
    {c \in HistoryCalls(p) : p = "openai" \/ IsObject(c.args)}

(***************************************************************************)
(* Properties                                                              *)
(***************************************************************************)
CallsAt(i) == SelectSeq(answer, LAMBDA b : IsCall(b) /\ b.index = i)

(* Not so when Google has calls of two chunks at one part position, when   *)
(* an entry of OpenAI's was not the first of its chunk, or when Anthropic  *)
(* sends no fragment of the arguments of a call.                           *)
Clear(i) ==
    /\ Len(CallsAt(i)) = 1
    /\ i \notin cut
    /\ provider = "anthropic" => CallsAt(i)[1].content # <<>>

StreamedToItsEnd ==
    pc = "closed" /\ finished /\ queue = <<>> /\ h.view.final = "completed"

(* A response that was streamed to its end has the text, the calls and the *)
(* replay message that Generate returns for the same answer, whatever the  *)
(* events it came in, except for calls that are not Clear.                 *)
StreamedAsGenerated ==
    StreamedToItsEnd =>
        /\ h.msg.text = GenerateText
        /\ \A i \in DOMAIN h.calls : CallsAt(i) # <<>>
        /\ \A b \in Range(CallBlocks) :
             Clear(b.index) =>
                /\ b.index \in DOMAIN h.calls
                /\ h.calls[b.index].name = b.name
                /\ h.calls[b.index].args = GenerateArgs(b)
        /\ (\A b \in Range(CallBlocks) : Clear(b.index)) => h.replay = GenerateReplay

(* The calls that a client answers in its next turn are in the history     *)
(* that turn sends along, whichever provider serves it: no tool result     *)
(* goes without its call.                                                  *)
CallsSentBack ==
    StreamedToItsEnd =>
        \A p \in {"anthropic", "google", "openai"}, i \in DOMAIN h.calls :
            Clear(i) /\ GenerateArgs(CallsAt(i)[1]) # <<>> =>
                [name |-> h.calls[i].name, args |-> h.calls[i].args] \in SentCalls(p)
=============================================================================
