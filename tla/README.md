# llm-api-converter in TLA+

llm-api-converter is the rewriter behind a GOST proxy. GOST calls it over HTTP for
every request, every plain response and every event of a streamed response that
passes through the proxy, and the converter translates between four protocols:
Anthropic Messages, OpenAI Chat Completions, OpenAI Responses, and Gemini. This
directory holds the specification of it: what of its behaviour is state, order
and interleaving rather than the translation of fields.

## 1. The system

| Component | State | Operations | Depends on |
|---|---|---|---|
| HTTP server `rewriter/server.go` | none between calls | `ServeHTTP`: parse, call `Convert` or `HandleSSEEvent`, answer | everything below |
| Dispatch `convert/convert.go` | none of its own | `Convert` (request, response), `HandleSSEEvent` (Start, Event, End, Error), `handleResponsesSSEEvent` | session store, stream handlers |
| Session store `convert/session.go` | map and order slice of sessions, thought signatures | `Get`, `Set`, `Delete`, `GetThoughtSig`, `SetThoughtSig` | |
| Stream handlers `stream.go`, `stream_responses.go`, `stream_anthropic.go`, `stream_gemini.go`, passthrough in `session.go` | per stream: open block, counters, accumulated text | `HandleStreamStart`, `HandleChunk`, `HandleStreamEnd`, `EmitError` | reasoning cache |
| Reasoning cache `convert/reasoning_cache.go` | three tiers, each a map of pointers and an order slice | `Put`, `PutText`, `PutContext`, `Get*`, `GetBest`, `Delete`, `Close` | file store |
| File store `convert/reasoning_cache.go` | dirty flag, closed flag, the file and its temporary | `Set`, `Delete`, auto-save goroutine, `Close`, `save`, `loadFromFile` | |
| Document conversions `anthropic_to_openai.go`, `openai_to_anthropic.go`, `*_to_gemini.go`, `responses.go` | none | one function per pair and direction | reasoning cache, thought signatures |
| Detection and model map `detect.go`, `protocol.go`, `registry.go` | read-only after start | `detectSource`, `detectByURI`, `resolveModel` | |
| Command line `cmd/root.go`, `main.go` | flags | start the server | |

How they interact. Each HTTP call is a goroutine. The calls of one client
connection (one *session id*) follow one another, because GOST waits for each
answer; the calls of different connections run at the same time and meet in the
session store and in the reasoning cache. A stream handler lives in a session
between the calls of its stream. At the end of a stream the OpenAI to Anthropic
handler stores the model's reasoning in the cache, and the conversion of the
next request of that conversation, possibly on another connection, puts it back
into the assistant message it belongs to.

What is hard here:

* *Concurrency.* One call takes the store's mutex two or three times, and another
  connection's `Set` may evict its session in between. `getFromStore` hands an
  entry's pointer out of the mutex and reads it afterwards.
* *Order.* Text, reasoning and tool calls come in any order, within a chunk and
  across chunks, and have to become properly nested blocks.
* *Session lifetime.* A session is to be created by a request and removed by
  whatever ends the exchange; exchanges end in five ways, and a connection is reused.
* *Limits.* Both stores evict at a fixed size, and deletion works differently
  in the two.
* *Failure.* A save may fail, the process may be killed within one, and Close
  may overlap one; an upstream blocks a prompt or ends a stream early.
* *Round trips.* What one converter makes of an answer comes back to another one
  with the next request, edited by the client: drawn ids, function names in place of
  ids, reasoning that has been dropped, signatures only the converter has.

What makes each component correct:

* Session store: map and slice agree, both are bounded, eviction is first-in
  first-out, thought signatures outlive sessions.
* Reasoning cache: an answer is a reasoning stored for that very message,
  whole, and not expired; the size is bounded; only expired entries expire.
* File store: the file can always be parsed, never gets older, and has the
  entries in the end.
* Stream handlers: the events form a legal stream, and the client assembles
  exactly what the model sent.
* Conversions: the upstream gets the whole conversation back, in its order, well
  formed, with results that refer to their calls, its own reasoning and its own signatures.
* Dispatch: one handler from the first to the last event of a stream, the
  answer in the client's protocol, each request converted, no session left over.

`PROJECT.json` lists the hazards line by line with the properties that watch
them.

## 2. The modules

| Module | Models | Built on |
|---|---|---|
| `FifoMap` | abstract: a bounded first-in first-out map, as one queue of bindings | |
| `SessionStore` | `convert/session.go`, the store | implements `FifoMap` |
| `SessionStoreProofs` | theorems about it | |
| `ReasoningStore` | one tier: `memoryStore` and `getFromStore` | `FifoMap` |
| `ReasoningStoreProofs` | theorems about it | |
| `FileStore` | `fileStore`: auto-save, Close, save, reload | |
| `FileStoreProofs` | theorems about it | |
| `AnthropicSSE`, `ResponsesSSE`, `ChatSSE` | abstract: the event stream a client of each protocol accepts, and what it assembles | |
| `StreamConverter` | `convert/stream.go` | implements `AnthropicSSE` |
| `StreamConverterProofs` | theorems about it | |
| `ResponsesStream` | `convert/stream_responses.go`, `convert/stream_anthropic.go` | implements `ResponsesSSE` |
| `ResponsesStreamProofs` | theorems about it | |
| `GeminiStream` | `convert/stream_gemini.go` | implements `AnthropicSSE`, `ChatSSE` |
| `GeminiStreamProofs` | theorems about it | |
| `Dispatch` | `Convert` and `HandleSSEEvent` over the store | instantiates `SessionStore` |
| `DispatchProofs` | theorems about it | the theorems about the store |
| `ToolHistory` | pure: merging of split messages, pairing of calls and results | |
| `ReasoningReplay` | an Anthropic client, an OpenAI upstream and the tiers of the cache between them | `ToolHistory` |
| `ReasoningReplayProofs` | theorems about it | |
| `Translation` | pure: the messages of requests and plain responses, between the four formats | |
| `Conversation` | a client, an upstream, and the signatures kept between them, on seven pairs of formats | `Translation` |
| `MC*` | symmetry and definitions for TLC | |

`FifoMap` and the three `*SSE` modules are the abstract specifications. The first
is what "FIFO eviction" means to a caller of either store; the others are the
protocols the comments at `stream.go:9` and `README.md:383` sketch, with the client as
their state: `Legal` says which event it may get next, `Apply` what it makes of it.

### SessionStore
`sessions` and `order` are the two fields of the struct, `thoughtSigs` the nested
map. Every method holds the mutex from its first to its last line, so each is one
action, the eviction inside `Set` included. `Get` and `GetThoughtSig` change nothing.
The refinement mapping reads the slice as the queue and looks the values up in
the map.

### ReasoningStore
Entries are *objects* with addresses (`heap`), because `Set` of a present key
writes through the pointer that a lookup may still hold. An overwrite is two
actions (`BeginOverwrite`, `EndOverwrite`) with the fields torn in between; a
lookup is `Get` (under the mutex), `CheckAge`, then `ReadReasoning` or `DeleteExpired`,
one action for each place where the code has released the mutex. A reader that
meets an overwrite may see the old time or the new one, and a torn string: this
is how the model renders the data race. `Free` is the garbage collector's
promise. `Reload` is a restart of a file-backed cache, with the slots in the
arbitrary order in which Go ranges over a map.

### FileStore
The contents do not matter, so the memory is the *number* of mutations it has
seen, and a snapshot or a file holds the number it was taken at. The file system
is two names and a few inodes, since two saves share the temporary name: opening
truncates the inode the name points to, writing goes to the inode that was
opened, renaming moves the name. Every one of those steps may fail, and the process
may be killed between any two.

### StreamConverter
A handler of the code is a function from the converter's state to its next state
with the emitted events appended; an action calls one handler; `Deliver` hands
the client the next event. Field names are the code's. Text, reasoning and
arguments are numbered fragments, so that `0` in `accumulatedText` is the empty string
and `n` is the concatenation of fragments 1 to n. The upstream is the environment:
it sends the id and the name only in the first entry of a tool call and one
finish reason in its last chunk, and otherwise whatever it likes.

### Dispatch
A call is `Request`, `Respond` or `Stream` (its first lines, which ask whether this is a
Responses session), `Read` (what it gets from the session afterwards) and one last
step, named after the phase, that changes the store and answers. Between these
steps the other connections run. `conn` is the exchange as client and proxy see
it: which handlers its chunks have gone through, how often it was started,
whether its session was evicted. `Capture` keeps the thought signature of a
function call, as the Event phase does before the handler sees the chunk.
A handler is no more than what it reads and what it writes. `ConvertChunks` is a
plain Gemini response without SSE framing, which `Convert` handles before it asks
for anything but the client's protocol, and which leaves the session in the store.

### ResponsesStream
The two converters to Responses events keep the same fields and share most of
their operators; `sc.via` says which one a stream got, and the places where they differ
(numbering, order of the closing events, what opens an item) say so. The
OpenAI upstream sends chunks with inline or separate reasoning, text and entries of
calls; the Anthropic one sends blocks, one open at a time. `FinalOutput` is the response in the
last event: the converter writes it from what it has accumulated, and `ResponsesSSE` compares it
with what the client has assembled from the deltas. The order in which the
calls are closed is that of a Go map, so `End` tries every one.

### GeminiStream
`sc.target` says which of the two converters of `stream_gemini.go` a stream got. A chunk is a
list of whole parts. `HandlePart` is the body of the Anthropic converter's loop over them;
`HandlePartsOpenAI` answers a chunk by a chunk. The client is an
`AnthropicSSE` or a `ChatSSE` client accordingly; the latter joins entries of `tool_calls` by
their index, which is what an OpenAI client does.

### ToolHistory and ReasoningReplay
`Coalesce` and `Sanitize` are the two passes of `openai_to_anthropic.go:40` and `:82`, written
as what they keep, pair and turn into user texts. `WellFormed` is the reference: what an OpenAI
upstream accepts. In `ReasoningReplay` an upstream answers with any mix of reasoning, text and
calls, the answer fills the cache as `convertOpenAIResponseToAnthropic` does, and the
client keeps the history, answers the calls in any way, and edits: it drops thinking
blocks and messages and splits messages, as Claude Code does. The cache loses entries (how is in
`ReasoningStore`). `Request` is what goes out for the history at any moment.

### Translation and Conversation
A message of any format is a role and a sequence of parts; a part has a number for
what it says and, for calls and results, what it is known by in that format. So a converter is what it keeps,
reorders, joins, renames and makes up. `Conversation` connects them: the client's
history in the client's format, `Request` what the upstream gets of it,
`Response` what the client gets of an answer, `sigs` what the session store keeps between
the two. `truth` is what has been said, by whom and in which order; the
properties compare it with `Request`. `RespondInChunks` is the response that
`convertGeminiNDJSONArray` puts together.

## 3. The runs

| Run | Expectation | What it shows |
|---|---|---|
| `session_store` | pass | five ids in a store of three: agreement of map and slice, bounds, FIFO refinement, signatures survive |
| `reasoning_store` | pass | three keys in two places, a lookup, expiry, a deletion, restarts: answers belong to their key, the overflow is bounded by the deletions, FIFO until the first one |
| `file_store` | pass | only the overlap of Close with an automatic save can damage the file or take it back; what was stored is saved in the end, or waits for the next mutation if a save failed |
| `stream_converter` | pass | legal Anthropic stream; text, arguments and thinking complete; told to run tools when it has calls and the upstream was done; cache serves the replay |
| `responses_stream` | pass | legal Responses stream from either upstream; everything said assembled; the status that of the upstream's reason, incomplete if and only if cut off |
| `gemini_stream` | pass | legal stream for either client of a Gemini upstream; parts complete and in place; cut off reported, to an OpenAI client filtered and unknown reasons too |
| `dispatch` | pass | streams in one piece, answers in the client's protocol, no leaked session, which requests can be refused |
| `reasoning_replay` | pass | well-formed requests with every result, own reasoning and no other turn's, however the history is edited |
| `conversations` | pass | seven pairs of formats: the conversation kept whole and in order, results linked, signatures returned |
| `dispatch_keepalive` | violation of `RequestsConverted` | the second request of a Responses client on one connection goes out unconverted |
| `replay_split` | violation of `PlaceholderOnlyIfGone` | of a split message, a half that has lost its thinking gets the placeholder though the reasoning of the whole is cached |
| `ndjson_calls` | violation of `CallsMerged` | a Gemini answer in chunks loses the calls before its finish reason |

The violation runs are disagreements between the code and its own comments and
docs; `PROJECT.json`, "findings", quotes them. Each has a passing counterpart that
says how far the damage goes:

* `OnlyStaleResponsesRefused` against `RequestsConverted`: only Responses clients, and
  only after an exchange that no End or Error phase has closed.
* `ReasoningIsOwn` and `ReplayIsExact` against `PlaceholderOnlyIfGone`: a message that
  has not been split, with its entry in the cache, gets exactly its reasoning.
* `ConversationKept` against `CallsMerged`: the texts of such an answer are kept, in order,
  and nothing else of the conversation suffers.

Most passing properties are conditional where the code is known to fail, and
name the condition, with the line it comes from: `overlap` (two saves at once),
`sent.mixed` (an upstream that interleaves the entries of two tool calls, whose arguments
then land in the wrong block), `streamInterrupted`, `evicted`, `commented`, `Tidy` and `Repeats`,
`sent.split` (a `<think>` block across chunks), `CallsNextToEachOther`, `SaidOnce`, `Kept`. Section
5 lists what is behind them.

### Bounds
* `session_store`: `MaxSize = 3` has an eviction with a neighbour on either side, and
  five ids refill the store after it. No clock or history, so the state space is complete.
* `reasoning_store`: three keys in two places force evictions; the clock runs past
  `MaxAge = 1`; one deletion is enough for a dead slot to meet an eviction, and a
  lookup's own deletion is not limited; one caller against the store's own
  operations, since lookups meet one another only through the store. Four addresses
  are what three keys and a lookup can hold at once.
* `file_store`: three mutations (one before, one during, one after a save), one failure,
  one kill, one Close, and four inodes (two names, two open files).
* `stream_converter`: three chunks with content and three tool call entries over two
  calls, up to two entries in a chunk: enough for a block of each type to come before,
  between and after the others, and for arguments in three parts.
* `responses_stream`: three chunks, or deltas, and three blocks, over two calls: a text, a
  thinking and a call in each order, and a second block of one type. The converter has one
  field per type of item, so a third block of a type adds nothing to the second.
* `gemini_stream`: four parts over three chunks: text between two calls and a call
  between two texts, within a chunk and across two, with a chunk left for the finish reason.
* `dispatch`: two connections and room for one session, so that each request evicts the
  other's; two exchanges each, so that the second finds what the first has left;
  one event after the Start. Three routes: a Responses client of an Anthropic upstream,
  an Anthropic client of an OpenAI and of a Gemini one. Routes to a Gemini
  client, and the stream of an OpenAI client of an Anthropic upstream, for
  which the code has no stream handler, are left out.
* `reasoning_replay`: two turns with three call ids, so that one has two calls and the other
  one; one text, so that two turns may say the same; two edits or losses: a split and a dropped
  thinking block, or a lost entry of either tier. Three turns would add a third reasoning to
  confuse, which no converter looks at.
* `conversations`: two turns, so that ids, names and signatures of the first are used for
  the second; up to three parts in an answer and four altogether, so that one has a reasoning,
  a text and a call or two calls of one function and one of another; two functions.
  Converters treat parts one by one, apart from the reordering and joining that three show.

Deadlock is not checked: every program here may stop, when nobody calls
it any more, and the bounds stop the models too.

### Symmetry
Function names, call ids, keys, addresses and connections are interchangeable where a run's
module says so; no property names or orders one of them. None of the runs that
use symmetry checks a liveness property.

### Fairness
Only `FileStore` has liveness properties. Weak fairness is assumed of `AutoTick`, of the
steps of a save and of `MarkDirty`: the ticker keeps ticking and Go keeps running
goroutines that can run. Nothing is assumed of mutations, failures, kills or Close.
`SavedUnlessFailed` says that what was stored is in the file some time later,
unless the process died, the store was closed, or a save failed after that. It
says so of a mutation that has raised the flag, and of what an earlier failed save has left in
memory as soon as another mutation raises it again. The other modules
are driven by clients and upstreams, of which nothing may be assumed: a stream or a
conversation may stop at any point, and every property holds of what there is by then.

## 4. What is proved

`SessionStoreProofs`, for every set of session ids, of sessions and of signatures and
for every `MaxSize > 0` (`MaxSizeAssumption`) with `None` not a session or a signature
(`NoneAssumption`):

* `TypeCorrect`, `OrderAgreement`, `Boundedness`: `TypeOK`, `OrderListsLive` and `Bounded`
  are invariants.
* `SignaturesPersist`: no operation loses a thought signature.
* `ImplementsFifoMap`: the map and the slice together implement `FifoMap`.

The inductive invariant `Inv` is `TypeOK`, `OrderListsLive` and `Len(order) <= MaxSize`. The
bound does not carry itself: the code compares the size of the *map* with
`maxSize`, so the bound on the slice needs that it lists live sessions and each
only once; and after an eviction there is room only because the slice was within its bound. From the
invariant follow two facts the code leaves implicit: the loop of `evictLocked`
always stops at the first slot (`EvictsHead`), and a `Set` that finds the store full
always frees a place. One lemma per operation (`SetExistingInv`, `SetNewInv`,
`DeleteInv`) carries the invariant; one per operation (`SetExistingRefines`,
`SetNewRefines`, `DeleteRefines`) maps the step to a step of `FifoMap`.

`ReasoningStoreProofs`, for every set of keys, of versions, of addresses and of
callers, for every `MaxSize > 0` (`SizeAssumption`), clock and age (`AgeAssumption`),
file-backed or not, with the two sentinels apart from each other and from
everything they stand beside (`SentinelAssumption`); that there are addresses
enough (`EnoughObjs`) is not needed:

* `TypeCorrect`: `TypeOK`.
* `OwnAnswers`: `AnswersOwnKey`, however many lookups run among the overwrites,
  evictions and deletions.
* `OverflowIsBounded`: `OverflowBound`; `BoundedUnlessDeleted`: before the first deletion
  the map is within `maxSize`. One deletion is enough to break that.
* `FifoBeforeDeletion`: `FifoUnlessDeleted`. Until then the slots are the live keys, each once
  (`SlotsAreKeys`: as many slots as keys leave no room for a second slot of a key), so the
  oldest slot is the oldest key; the binding that `Set` overwrites counts as replaced when it begins,
  and by `Owned` nobody else's binding changes with it.

The inductive invariant is `TypeOK` with four parts. `Holding`: a lookup under way has an
entry and a key. `Owned`: an entry that can be reached, from the map or from a lookup,
is reached by *one* key, and holds a reasoning of that key or is being given one;
this is what makes the unlocked read harmless, and it needs that the allocator
never hands out an entry somebody holds. `AnswersOwnKey` itself. `Slots`:
`OverflowBound` together with `Len(order) <= Cardinality(Live) + deletions`. The
bound alone is not inductive: a `Set` that finds room in the *map* adds a slot,
and only the second conjunct says that the slice had room too. `SetNewSlots`,
`DeleteKeySlots` and `ReloadSlots` are the three lemmas that count.

`FileStoreProofs`, for any number of mutations, failures and kills, with sentinels that
are no value they stand beside (`SentinelAssumption`) and always an inode left for a new
file (`InodesAssumption`; a directory without one makes the save fail, which is `SaveFails`):

* `TypeCorrect`; `OverlapAloneDamages`: `OnlyOverlapDamages`; `FileNeverBackwards`:
  `NeverBackwards`.

`OnlyOverlapDamages` says nothing of the temporary file, which the next rename makes the
file. The invariant adds, for as long as no two saves have overlapped (`Orderly`): one
save at a time is between its snapshot and its rename; the temporary name is its inode, empty
or filled with its snapshot; the file is another inode, and older than any snapshot, and than the
memory, but not than what Close has saved.

`ReasoningReplayProofs`, for any number of turns, edits and losses:

* `TypeCorrect`; `OwnReasoning`: `ReasoningIsOwn`; `ExactReplay`: `ReplayIsExact`.
* `WellFormedRequest`: `RequestWellFormed`; `KeptResults`: `ResultsKept`.

The invariant is about turns, the ones that have left the history included: no call is
made twice; an assistant message is what is left of its turn; an entry of a tier is the reasoning
of a turn that made exactly these calls, or said exactly this; and a turn that no loss has touched
still has its entry.

The two theorems about the tool calls of a request need a second invariant (`RInv`): no call and no
result is in the history twice, only a user's message has results, and those given since the last
turn are in the last message. What the repair makes of any such history is then followed message by
message. `Coalesce` only moves calls up: the results of a message end up in a row,
right behind the calls of the messages before them (`Gathered`). In `Sanitize` a
result that still follows its calls is in exactly one block (`OneHome`, `PairOnce`), or is turned into
a user's text; either way it goes out once (`SanitizeOnce`, `SanitizeAnswers`). The
request is well-formed because every block is: it begins with calls and answers all of
them, or has neither. `TextsAssumption` says that a text is never a result, which is how the
model writes an orphaned one; without it a text could pass for a result that was kept. The
folds and the flattening are followed one element at a time, and the inductions over positions are by the
least counterexample, since the library's induction theorems are out of the provers' reach.

`DispatchProofs`, for any connections, any size of the store, any number of exchanges
and events:

* `TypeCorrect`; `NothingLeaks`: `NoLeak`; `ResponseProtocol`: `ResponseInClientProtocol`;
  `OnlyResponsesRefused`: `OnlyStaleResponsesRefused`.
* `StreamsWhole`: `StreamInOnePiece`, if every route is one of `StreamableRoutes`, the pairs the
  code has a stream handler for, or a passthrough. (On the others the Start phase falls back to the converter
  from OpenAI to Anthropic, `convert.go:842`; the run's routes are all streamable.)

The invariant is one of a single connection, `Tracked(conn[s], call[s], sessions[s])`:
what phase its call belongs to, what its session is between the request and the answer,
what is left when it rests. One lemma per phase carries it; one lemma, `Kept`, says all that the
*other* connections can do to it: evict its session, which is noted. That a `Set` changes nobody
else's session but the evicted one comes from the invariant of `SessionStoreProofs`, reused by INSTANCE.

`StreamConverterProofs`, for any number of chunks, of entries, and any finite set of calls
(`CallsAssumption`: the block numbers have a bound), with `None` apart (`NoneAssumption`):

* `TypeCorrect`; `LegalStream`: `SseSpec`, the refinement of `AnthropicSSE`.
* `ToolsAnnounced`: `ToolUseAnnounced`, and `ContentArrives`: `ContentComplete`, both if
  `Declared` is `{}` or `Names`. The first says exactly when the client is told to run tools: it has calls
  and the upstream ended with `stop` or `tool_calls`; a stream that just ends is told as `end_turn`. (A call whose name has not been declared is dropped, while
  `tool_calls` is still announced: without the hypothesis both are false. The running program
  declares nothing, section 5.)
* `ReplayServed`: `CacheServesReplay`, whatever is declared.

The events of a handler are delivered one at a time, so between two deliveries the
client is behind the converter. What the invariant speaks of is the client *the pending events
lead to*: `Runs(c, es, d, tidy)` says that the events `es` take a client from `c` to `d`, each
legal if the stream is tidy; `Phased(s, d)` relates that `d` to the state: they agree on which block is
open, of which type, how many there are, and whether it is signed (`Agree`). A handler appends
events and so extends the run; `Deliver` takes its first step. The bound on block numbers needs
`Follows`: at most two blocks per chunk and one per call. This counting showed that the
bound on fragments had been one too small for a stream without chunks, whose
filler text is a fragment too: `MaxFragments` starts with 1 since.

What the client *holds* is a second invariant, `Whole`, of the same client `d`: its text blocks
together are the text it was sent, in order (`Hears`); its thinking blocks a prefix of the reasoning,
and all of it until a block of thinking has been stopped (`Thinks`); each call has
one block with its own arguments, and the call whose entry came last has
the last block, which is why the next entry's arguments end up where they belong (`Holds`).
One lemma per event says what it adds to what the client holds, one per handler what its
events add up to. `FlattenSeq`, which puts the blocks together, is followed element by element.

`GeminiStreamProofs`, for any number of chunks and parts, and either client, with `None` not
a function's name (`NoneAssumption`):

* `TypeCorrect`; `LegalStreams`: `StreamSpec`, the refinement of `AnthropicSSE` or of `ChatSSE`.
* `CompleteParts`: `PartsComplete`; `OutcomeTold`: `OutcomeReported`.

The same argument with two kinds of clients: `Mode` says which kind, which reason it may be told, and
in which phases (`Free`) nothing is promised, the three cases that `Tidy` names. `Holds` says what
the client holds of the parts sent so far: the blocks, read back as parts, for an Anthropic client;
the text and the calls by their index for an OpenAI one, the calls as long as only one chunk
had any. What a fold does is unfolded for the two parts a chunk has at most (`PartFolded2`);
that flattening a sequence goes element by element (`FlattenSnoc`) is proved by induction, from
the well-foundedness of `<` and the *set* of counterexamples, which needs no operator parameter.

`ResponsesStreamProofs`, for any number of chunks, entries and blocks, any finite set of calls
(`CallsAssumption`; the calls are closed in some order) and either upstream, with `None` apart
(`NoneAssumption`):

* `TypeCorrect`; `LegalStream`: `ResponsesSpec`, the refinement of `ResponsesSSE`.
* `ContentArrives`: `ContentComplete`; `OutcomeArrives`: `OutcomeReported`.

The client the pending events lead to, once more: while a response is under way `Mirrors` says that
its items are the converter's `output`, one by one (`Listed`); that each is the converter's last
item of its type, an earlier one with the same id, or that of a call (`Placed`); that none is done
and every part is open; and that the items of a type together hold what the converter has accumulated (`Flat`).
In a tidy stream there is one item of a type at most, and it holds all of it (`Alone`); in any other the
fragments go to the last of several, which is still the right order (`FlatGrown`). `Told` ties the
converter to what the upstream has sent. The closing events finish the items one after
another: `Closed(items, y, S)` says that the items at `S` are done and nothing else has changed,
`PartCloses` and `CallCloses` add one to `S`, and `AllCovered` that this was every one,
which is what the last event needs to be legal. The calls are closed in the order of a map:
`CallsClose` is by induction over the sequence, whichever it is. After that only what the client keeps
(`Kept`) and what it was told matters: `Outcome` says that the status in the last event, which is also
what makes it `response.incomplete` or `response.completed`, is the one of the upstream's finish reason,
and `FinishStatusTyped` and `StatusFits` that the converter has kept just that since the reason came.

Two things the proof needed that no run did: that an id of an item is never that of a call (`IdsApart`, from
`NoneAssumption`), and that an event about an unknown item changes nothing (`Unplaced`), as an
untidy stream may have one.

Only model-checked, and why:

* `SavedUnlessFailed` (`FileStore`): liveness.
* `Conversation` (`TypeOK`, `ConversationKept`, `ResultsLinked`, `SignaturesReturned`): not proved. They
  are about whole documents, which the converters build with `SelectSeq` and nested
  folds, and compare what one makes of a document with what the others do. Of each of
  these functions one would first have to prove, for documents of any length, what TLC evaluates.

## 5. What is not modelled, and known deviations

Not modelled:

* The fields of documents that carry no structure: options, tool declarations and their
  schemas, system texts, images, token usage, error bodies, wording, logging. No
  state and no order, and the tests cover them well.
* Protocol detection and the model map: functions of one document's shape and of a fixed
  table. `Dispatch` has their results as parameters (`Mapped`, `UriKnown`).
* `stream_gemini_sse.go` and `ConvertSSE`, which convert one event by itself for streams that
  come without phases: nothing is kept between two events.
* The passthrough handlers: they rewrite the model's name, and filter `redacted_thinking`
  blocks, of which one can be open at a time. `Dispatch` has their routing.
* In `Dispatch`: events without an `sse_phase` (`rewriter/server.go:131`) and bodies of no
  detectable protocol. After a refused request the model ends the exchange: an upstream that
  does not speak the Responses API answers with an error.
* The context tier of the cache: it is read, and nothing in the program writes to it.
* In `Dispatch`: the Start phase's test for Gemini chunks without SSE framing (`convert.go:731`), which is made only
  where neither the first chunk nor the URI tells a protocol.
* The empty delta that `stream_responses.go:328` sends for empty arguments of a known call: it changes nothing at the
  client. The old `function_call` of a chunk (`stream.go:147`): it is handled as one more entry of index 0.
* `SetInterrupted` is called by tests only; the model has it and exempts its streams.
* `DeclaredTools` comes from the body of the call at hand (`rewriter/server.go:104`), which
  for a stream event is the upstream's chunk. In the running program a stream
  converter therefore never has declared tools.
* The tool context that would make a custom tool's call a `custom_tool_call` is on the
  options of the call that converted the request (`responses.go:257`) and does not reach the one
  that opens the stream: calls stay `function_call`, in the program and in the model.
* The command line and the wire types: no behaviour.

Deviations that the properties exempt or count, apart from the three that have a run. The exempt ones are
known from reading the code beside its docs: no property catches them.

| Where | What happens | Seen in |
|---|---|---|
| `reasoning_cache.go:254` | a deletion leaves its slot in the order: the map may outgrow `maxSize` by one for each | `OverflowBound` |
| `reasoning_cache.go:150` | a lookup reads an entry without the mutex while it is overwritten: a torn answer | `AnswersOwnKey` |
| `reasoning_cache.go:151` | an expired lookup deletes by key what has been refreshed since | `DeleteExpired` |
| `reasoning_cache.go:370` | a failed automatic save is not tried again until something else changes; a kill until then loses what it missed | `SavedUnlessFailed` |
| `convert.go:697` | a comment in place of a stream's first chunk loses the Start phase | `commented` |
| `convert.go:467` | a Gemini response in chunks leaves its session in the store, and after an eviction goes out in the OpenAI format | `ConvertChunks` |
| `stream.go:221` | a stream that ends without a finish reason is told as `end_turn`, also after tool calls | `ToolUseAnnounced` |
| `stream.go:420` | arguments go to whatever block is open | `sent.mixed` |
| `stream_anthropic.go:282`, `:312` | a second text or thinking block gets the id of the first item, which is never done; `docs/plans/RESPONSES_API_CLOSED_LOOP_PLAN.md:263` has only the first one open an item | `Tidy` |
| `stream_responses.go:224` | `content_part.done` comes before `output_text.done`; `docs/plans/RESPONSES_API_CLOSED_LOOP_PLAN.md:220` has them the other way round; `content_filter` is told as `response.completed` with the status `failed` | `Legal`, `Tidy` |
| `stream_responses.go:129`, `stream_anthropic.go:334` | reasoning goes out as `response.reasoning_summary_text.delta` for an item of its own; `README.md:386` says it "is merged as `response.output_text.delta` with a `type: "reasoning"` annotation" | `ContentComplete` states what the code does |
| `stream_responses.go:382` | a `<think>` block across two chunks: the rest is text | `sent.split` |
| `stream_gemini.go:282` | two calls in a row become one block; `docs/plans/GEMINI_PROTOCOL_CONVERSION.md:112` has a block for each | `CallsNextToEachOther` |
| `stream_gemini.go:85` | the index of a call restarts in every chunk; the same plan asks for "Tool call index tracking across chunks" (line 87) | `Tidy` |
| `stream_gemini.go:192` | a blocked stream goes on to its end after the error event | `Tidy` |
| `stream_gemini.go:336`, `:118` | `stop_reason` is `end_turn`, and for an OpenAI client `stop`, also for a message with calls; the same plan has `tool_use` (line 114) | `OutcomeReported` speaks of neither |
| `openai_to_anthropic.go:471` | an assistant message without text gets an empty text block, which line 641 calls malformed | `ConvertAssistantContent` |
| `session.go:218` | the blocks after a filtered `redacted_thinking` block keep their numbers: a gap in the stream | |
| `anthropic_to_gemini.go:161` | a function response is named by the id of its call | `ResultsLinked` |
| `openai_to_gemini.go:510` | a tool message refers to its call by the function's name; of several responses the last one stays, with no text beside it | `ResultsLinked`, `Kept` |
| `openai_to_gemini.go:365` | signatures of a plain response are not kept for an OpenAI client | `SigsAfter` |
| `responses.go:672` | the reasoning of a turn that only reasoned goes to a later turn, or is lost | `Kept` |
| `reasoning_cache.go:180` | two turns that say the same text share an entry of the text tier | `SaidOnce` |

## 6. Plan

The model has the program's own logic; what is left of it is in section 5. What is open is the
proofs about `Conversation`, in this order: `TypeOK`, from the shape each converter gives a message;
`SignaturesReturned`, which follows single calls; then the other two, which need what each
converter keeps of a document.
