# TLA+ verification of redisdal

redisdal is a C++17 client library for Redis: typed operation views over a
facade, over a client that decodes replies, over a layer that builds commands,
over one synchronous hiredis connection. This directory holds TLA+ modules that
model the library, TLC configurations that check them on small instances, and
theorems that TLAPS proves for every value of the constants.

Run in this directory: `tlc -workers 2 -config script_calls.cfg MCScriptFacade.tla`
for a run, `tlapm ScriptFacadeProofs.tla` for the proofs of a module. `PROJECT.json` lists
the components, the runs with their properties, the hazards, and for every
definition the lines of the source it stands for.

## 1. Inventory

| Part | State it keeps | Operations | What is hard about it |
|---|---|---|---|
| `sync_connection` (src/sync_connection.cpp) | a hiredis context in a `unique_ptr`: socket, output buffer, reply reader, sticky error | constructor (connect, AUTH, SELECT), `cmd_exec`, `cmd_execv`, move, destructor | the handshake may fail half way; the connection breaks between an effect and its reply; one reply too many or too few shifts all later ones; ownership under moves |
| `redis_cmd_ops` (src/redis_cmd_ops.cpp) | none | one method per Redis command: argument checks, argument vector, `cmd_execv` | EVALSHA's NOSCRIPT is found by its text; empty argument lists; key limit of scripts |
| `cmd_reply` (common.hpp, src/cmd_reply.cpp) | a reply tree, integers as `uint64_t` | decoders: text, integer, hash, scores, scan page, stream entries, ... | replies of an unexpected type, length or nesting; width of integers |
| `redis_client` (src/redis_client.cpp) | owns one connection | one method per command: send, throw on ERROR, decode | several readings of one reply; empty batches answered without a command or by another one; use after a move |
| `redis_template` (redis_template.hpp) | `sha1_cache`, six operation views, references to client and serializers | key commands, `scan`, `keys`, `script_load`, `eval`, `eval_sha1`, moves | `eval_sha1` reloads and retries, up to three commands, while the server forgets scripts; iterations while keys come and go; references that a move leaves behind |
| operation views (redis_operations.hpp) | reference to the facade | value, hash, list, set, sorted set, stream operations | serialising throws before, deserialising after the effect; caller's maps are changed in place; lossy serializers; pending entries of a consumer group whose reply is lost; reads that block |
| `redis_config` (src/redis_config.cpp) | configuration | `parse_redis_url` | defaults, precedence of parameters, ports and IPv6 hosts |
| serializers (serialization.hpp) | none | `to_string`, `from_string` | signs, limits of narrower types; not always each other's inverse |

How they interact: every call is synchronous and goes down through view, facade,
client, command layer and connection to the server and back up; there are no
callbacks and no threads inside the library. An object is used by one thread at
a time (docs/DESIGN.md). Concurrency comes from the **server**, which other
programs and other connections of the same program change between any two
commands, and from the **network**, which may break before, between or after
them. The code promises no retry (DESIGN.md 2.3), and the only place that sends
more than one command for a call, apart from the handshake, is `eval_sha1`.

What makes the parts correct:

- connection: one owner per context; a built object has the session its URL
  asks for; a call is given its own reply or an exception, and never another
  call's; its command is executed at most once; nothing is done after an error;
- replies: every well-formed reply is decoded to what it means, and no other
  reply to a value that leaves something out or invents something;
- scripts: the reload hides a forgotten script, and runs nothing twice and
  nothing else than was named;
- conversions: a text is read as the number or the configuration it spells out,
  or rejected;
- iterations: what is there throughout is found, and nothing that was not there;
- streams: an entry a group delivers is given to its consumer or stays pending;
- ownership: every connection is closed once, by its owner;
- views: each is an object of its type that takes effect at one moment per
  call, and nothing is removed from it without the caller having it or being
  told by an exception.

## 2. Modules

| Module | Models | Correspondence |
|---|---|---|
| `AtMostOnce` | the contract of one call (abstract) | a call is idle, pending, returned, refused or failed; its effect happens at most once, after a failure perhaps late |
| `SyncConnection` | `sync_connection` | objects, contexts and calls; `Connect`, `HandshakeOk`, `HandshakeRefused` are the constructor, `Exec`, `Return`, `CallThrows` a call, `Move`, `ConstructorThrows` and `Destroy` the life of the `unique_ptr`. hiredis's buffers, the socket and the server's sessions are external |
| `ScriptFacade` | script calls through all layers | `pc` says which of the up to three commands a client waits for; `script_load`, `eval`, `eval_sha1` start a call, `Loaded`, `EvalShaAnswered`, `Reloaded`, `RetryAnswered` are what the code does with each reply; the script cache, SCRIPT FLUSH, restarts and the network are external |
| `SignedInteger` | `make_signed_integer`, `get_signed_integer` | HALF stands for 2^63 |
| `CmdReply` | the decoders of `cmd_reply` and of `redis_client` | a decoder is an operator from a reply to `Val` or `Throw`; a C++ read that would be undefined is `Undefined` |
| `ReplyDecoding` | `convert_reply`, `or_throw` and a decoder on one reply | one step: the tree that hiredis delivers becomes what the caller has |
| `NumericText` | `to_string` and `from_string` of integers | a text is its signs, its digits and whether something follows; WIDEST stands for 2^63 |
| `RedisUrl` | `parse_redis_url`, `parse_query_params` | a text is a sequence of delimiters and words; `Documented` and `Meant` are the forms the documentation lists and what they say, `Unreadable` is what can be no URL, and `MayBeRead` what may be made of each |
| `Conversions` | the three above as one system | a behaviour is one conversion |
| `LinearObject` | what the views promise (abstract) | an object on which every call takes effect at one moment, parameterised by `Apply`; a call that failed in transport may take effect later, once |
| `TypedClient` | how a view makes a call | `Call` serialises and sends, `Finish` takes the reply, `TransportError` leaves a command that may still arrive (`stray`); results that several views share |
| `ValueOperations`, `HashOperations`, `ListOperations`, `SetOperations`, `ZSetOperations`, `KeyCommands` | one view each | every operation with the command that redis_client and redis_cmd_ops make of it (`ListCall` ...), what is made of a reply (`ListResults` ...), the commands of the server (`ListEffects` ..., external) and what the interface promises (`ListPromised` ...) |
| `OperationViews` | the views together on one key | `Next` and `Spec`; the properties; the mapping to `LinearObject` |
| `StreamOperations` | the stream view | every operation with the argument checks of redis_cmd_ops; the server's stream with one group (what it has delivered, what is pending for this consumer) and its blocked reads are external; `Promise` maps it to `LinearObject` |
| `ScanLoop` | `keys`, `scan`, both `hscan` in the loop the tests show | `Send` and `Receive` are one call, `Returns` or `Throws` its end, `Resume` the program going on after an exception with the cursor it still has; the server's cursor is a code for how many parts it has gone through |
| `ObjectMoves` | construction, move, assignment and destruction of `redis_client`, `redis_template`, `string_redis_template` | who holds a connection, and to which objects the client, serializer and view references of a template refer |
| `...Proofs` | | theorems about the module whose name precedes |
| `ReadingLemmas` | | theorems about `SignedInteger`, `NumericText` and the loops of `CmdReply`, which the proofs about conversions, views, streams and iterations use |
| `MC...` | | constants of the runs |

`ScriptFacade`, `TypedClient` and `ScanLoop` do not contain `SyncConnection`.
They use a connection in the way `SyncConnection` is shown to allow: one command
in flight, its own reply or an exception, nothing after an error.

A definition that is called a mutant in its comment is not part of the model: it
is a plausible mistake in the code that one of the properties catches, listed in
`PROJECT.json`.

## 3. Runs

| Run | Question | Bounds |
|---|---|---|
| `conn_calls` | Are contexts owned once, is a built object in the session its URL asks for, and is what a call tells its caller what happened to its command? | 2 objects, 2 contexts, 2 calls of all five kinds; every password and index, a server that wants a password |
| `conn_contract` | Does a connection implement `AtMostOnce`, and does every call end? | 2 objects, 2 contexts, 2 calls of commands with one reply |
| `script_calls` | How often does a script run, which one, and what is the caller told? | 2 facades, 2 scripts |
| `script_contract` | Is `eval_sha1` at-most-once in spite of its retry, and does it end? | 2 facades, 1 script |
| `script_noscript_text` | finding 1 | a script with NOSCRIPT in an error of its own |
| `conversions` | Does every decoder give the meaning of a well-formed reply, and nothing wrong for any other? Is a text read as the number it denotes, and a URL as the configuration it spells out? | integers of 3 bits (HALF = 4), up to 2 elements per level, one node wrong; integer types of 1 to 3 bits, up to 2 signs; 2 query parameters, addresses with empty hosts, odd brackets, ports that are none, too large, or followed by more |
| `view_list` | Is the list view a linearizable list, and is no element lost in silence? | lists of up to MaxLen = 2 texts, indexes -2, -1 and 0, counts -1 and 2, MaxStray = 1 command adrift |
| `view_other` | Are the value, hash, set, sorted set and key operations linearizable on one key of any kind, and what is left in the caller's map? | 2 fields with texts of their own, a second text of the first of them, a text that is no field to the program, a field that cannot be written, values it can and cannot read, 4 strings, sets of 3 texts, sorted sets of 2 members, MaxStray = 0 |
| `url_formats` | finding 2 | the addresses of `conversions`, in one URL each |
| `stream_groups` | Is the stream view a linearizable stream, is what a group delivers given or pending, and which reads wait? | 1 stream, MaxId = 2 entries of 2 fields with different names and values, a name and values that cannot be written, a text that cannot be read, counts, times and ids that are right, wrong and empty |
| `scan_loop` | Does an iteration find what is there throughout, and nothing else? | 4 names (two of one key, one that cannot be read) in 3 parts, cursors next to the largest 64-bit number |
| `object_moves` | Has every connection one owner, and which calls are undefined? | 3 connections, 3 clients, 3 templates |

Why the bounds are enough. Calls on different connections share nothing but the
server, so two clients show every kind of interference; a second context lets a
program reconnect after a failure; with two calls a reply can be left over by
the first and given to the second. Two scripts tell "another script ran" from
"the script ran again". A decoder treats elements one by one or in pairs, so two
elements per level hold a right and a wrong neighbour. With 3-bit integers every
boundary of the two views of an integer and of the types of a number occurs, and
the theorems cover all widths. A list of two has distinct ends, a batch of two
can be partly bad, and two pairs can exchange their scores. One program uses the
views: whatever another one does to a caller it does by changing the object, and
`Others` puts any object there at any moment, with texts a view reads differently
("alias") or not at all ("garbage"). Commands that arrive late (MaxStray) concern
the way a call is made, which all views share, and are left to `view_list`. Two
fields of an entry have an order, and their names and values have texts of their
own, so that a field that is dropped, swapped or moved shows; two
entries of a stream have an order, can be delivered apart, and one can be deleted
while the other is pending; "other consumers" acknowledge what they read at once,
so that what is pending is this consumer's. Three parts give an iteration a first,
a middle and a last page; the theorems cover any number. With three templates
there is one between the first that was moved and the last.

Bounds in guards: `Objects` (a command that would leave anything else is refused,
as by a server out of memory), `MaxId` (nobody adds more entries) and `MaxStray`
(a connection breaks only while fewer commands are adrift). `Context`, `Call`,
`Connection`, `Client` and `Template` bound how often something is built.

What the runs show, beyond types:

- `SessionAsConfigured`, `RunsInConfiguredDatabase`: no caller's command runs
  before the SELECT of its URL has been answered with OK, and a constructor that
  fails half way leaves no object.
- `OwnReply`, `FailStop`: a call is given the reply to its own command unless an
  earlier raw command of that session was answered twice; a connection that has
  failed does no more.
- `AtMostOnceExecuted`, `ValueMeansExecuted`, `ErrorMeansNotExecuted`: what a
  value, an ERROR and an exception say about the effect.
- `RunsAtMostOnce`, `RunsTheNamedScript`, `NoScriptMeansNothingRan`,
  `ReloadHidesForgetting`: the same for scripts and their reload.
- `NoUndefinedBehaviour`, `WellFormedRepliesDecode`, `NothingDroppedOrInvented`:
  a value accounts for each element of its reply.
- `NumbersMeanWhatTheySay`: a number that does not fit is out_of_range and a
  text that is none invalid_argument.
- `UrlMeansWhatItSays`: a URL of a documented form gives what it spells out; what
  it leaves out has its default, and the last of several parameters wins. One
  that nothing can be read from is an invalid_argument. Any other is rejected, or
  taken with everything but the port as spelled: finding 2 is about these.
- `PopGivesWhatItRemoves`: lpop, rpop, spop and get_and_set give exactly what the
  server removed, or throw an exception that says so. A pop whose element cannot
  be deserialised, or whose reply is lost, has removed it.
- `ImplementsLinearObject`, `ImplementsStream`: every call of every view is one
  effect at one moment with the answer of that moment, whatever is sent instead
  (LLEN for a push of nothing) and whatever arrives late. A batch hget or an
  hscan that throws leaves entries of one moment in the caller's map, and in a
  batch also entries of before the call. A stream command that the server would
  misread is rejected before it is sent.
- `DeliveredOrOwed`: an entry a group delivers to a call that throws is still
  pending for the caller, unless NOACK was asked for.
- `OnlyBlockedReadsWait`: a call that never ends is a read with BLOCK 0 for which
  nothing arrives.
- `CompleteIterationsFindAll`, `NothingInvented`, `StopsForCause`: a complete
  iteration has every name that was there throughout, also when calls failed and
  were made again, and cursors of 64 bits survive their text.
- `ConnectionsHaveOneOwner`, `UndefinedOnlyAfterMoves`: which calls on which
  moved objects have no defined behaviour, and that no others are so.

### Limits of the code that the properties state

They are conditions of the properties above, not disagreements with what the
documents promise:

- A raw command with two replies leaves one for the next call. docs/DESIGN.md
  says what a returned value is, and says nothing of such commands; `OwnReply`,
  `ValueMeansExecuted` and `ErrorMeansNotExecuted` have the condition `multi`.
- A raw SELECT moves the session, of which the object keeps no record:
  `SessionAsConfigured` and `RunsInConfiguredDatabase` speak of the calls before
  it (the condition `moved`). Raw commands without a reply are not modelled.
- A reply of a type of RESP3 is returned as an ERROR value, although the command
  was executed: the exception in `ErrorMeansNotExecuted`.
- `set` and `hset` of `redis_client` answer false to a reply of a type they do not
  expect. The decoders of the model do so too, and `NothingDroppedOrInvented`
  takes it as their meaning.
- `redis_client::hset` is true also when the field was there and has been updated
  (redis_client.cpp:159). operations.hpp:94 promises just that of the typed view,
  and the models promise it; kv_connection.hpp:202 promises the opposite of the
  client ("false if the field already existed and was updated"). One call shows
  it, so there is no run for it.
- A call on a `redis_client` that was moved from dereferences a null connection.
  `ClientCallDefined` says so, and `UndefinedOnlyAfterMoves` speaks of templates
  whose client has a connection.
- A call has no timeout (see Fairness).
- A moved `string_redis_template` goes on using the serializer and the views of
  the object it was moved from (redis_template.hpp:98-108, 345-361).
- `hscan` of the hash view clears the caller's map for each page; the `hscan` of
  `kv_connection` adds to it.
- One name or entry that cannot be deserialised makes every call that meets it
  throw: an iteration cannot get past it, and neither can a consumer that reads
  its pending entries.

### Fairness

Liveness assumes weak fairness of the steps a thread takes inside a call, because
such a thread is either running or blocked in a read, and of the server's steps
on a connection that is up: `ClientStep` and `ServerStep` of `SyncConnection`,
the client's and the server's steps of `ScriptFacade`, and `Return`,
`TransportError` and `ServeCommand` of `StreamOperations`. Nobody has to call,
reconnect, add an entry or break anything. The code sets no timeout of its own,
so without a server that answers or a connection that breaks a call waits for
ever; the assumption on the server says just that. A read that blocks is not
answered while there is nothing to read: that is the condition in
`OnlyBlockedReadsWait`. Safety properties assume no fairness.

## 4. Theorems

TLAPS proves them for every value of the constants, from the named assumptions of
the modules. None of the properties is inductive, and each proof has an invariant
that is.

**Scripts** (`ScriptFacadeProofs`, from `ScriptAssumption` and
`NoMsgAssumption`): `TypeCorrect`, `Invariant`, and the five safety properties of
`script_calls` as `AtMostOnceRun`, `NamedScriptRuns`, `ValueRanOnce`,
`NoScriptRanNothing` and `ForgettingIsHidden`. That a script has run at most once
after the retry depends on the first EVALSHA not having run it, which depends on
what the answer in flight may be. `IInv` is `TypeOK` and, for each client,
`Flight` (a command or an answer in flight, never both, and which ones at which
`pc`), `CacheSound` (`sha1_cache` maps each SHA1 to its own script), `Runs` (how
often the script may have run, given `pc` and what is in flight) and `Reload`
(the server has what it loaded until it forgets it). A step of a client leaves
the other clients' conjuncts alone (`FrameInv`).

`ScriptsKeepContract` is the refinement of `script_contract`: reload and retry
included, a call is a call of `AtMostOnce`. Its hypothesis `Unambiguous` (no
script's own errors mention NOSCRIPT) is what the run takes too, and finding 1
shows that it is needed. The step that refuses a call must not have run anything,
which for `script_load` takes the invariant `LoadsRunNothing`.

**The connection** (`SyncConnectionProofs`, from `ConstantsAssumption`), in three
parts whose invariants build on each other. All safety properties of `conn_calls`
and the refinement of `conn_contract` are theorems.

- Ownership: `TypeCorrect`, `OneOwner` (`Ownership`) and `ErrorsStop`
  (`FailStop`). `IInv` says who owns what (`Owned`: a context that an object
  holds is open and held by no other, and an object inside a call has one) and
  that a context in error has no reply left (`Quiet`). `OneOwner` alone would not
  survive `Move`, because it does not say that the target's old context is
  another one.
- Calls: `ExecutedOnce` (`AtMostOnceExecuted`), `GivenItsReply` (`OwnReply`),
  `ValuesAreTrue` (`ValueMeansExecuted`), `ErrorsAreTrue`
  (`ErrorMeansNotExecuted`). `CInv` follows a command from the queue of its
  context to the server and its reply back: a call is queued once and not any
  more when it was executed (`Accounted`), a reply that is under way is true
  (`Truthful`), and on a context without an error nothing is under way but the
  command or the reply of its present call (`OneAtATime`), until a command with
  two replies was sent. The last one is what makes "take the first reply" right.
  `CallsKeepContract`: if every command has one reply of a type that
  `convert_reply` knows, `Spec => ImplementsContract`. Each step maps to a step
  of `AtMostOnce` or to a stutter; the assumption on `Commands` is the one the
  run makes, and needed: the two limits above break the contract.
- Sessions: `ConstructorsConfigure` (`SessionAsConfigured`) and `CallsRunThere`
  (`RunsInConfiguredDatabase`). `SInv` says how far AUTH and SELECT have got
  while a constructor waits (`Shaking`: nothing else is under way, and an OK is
  true), and that a context whose constructor returned has the session it should
  and no AUTH or SELECT on its way (`InOrder`).

**The views** (`OperationViewsProofs`), in two parts.

- `TypeCorrect` (`TypeOK`) and `NothingTakenIsLost` (`PopGivesWhatItRemoves`).
  `PopGivesWhatItRemoves` speaks of a call that has ended; `IInv` follows the
  call there. A command on its way has taken nothing, only the commands of
  calls that take something remove anything, and the reply on its way back tells
  just what was removed, whatever the view makes of it (`ClientOK`). A command
  whose connection broke is no longer its caller's: what it removes late is what
  the exception warns of.
- `ViewsAreLinear` (`ImplementsLinearObject`), for all six views: value, hash,
  list, set, sorted set and key. `MInv` says that a command on its way, or
  adrift, *means* the operation of its call: for every object, each effect the
  server may give it, with whatever the view makes of the reply, is one that
  `LinearObject` allows for the operation; and that a reply under way is read as
  the answer of that moment. Every step then maps to a step of `LinearObject` or
  to a stutter; the moment of a call is when the server executes it, or, when
  nothing is sent, when the call is made. There is a lemma for each command,
  about what its argument vector, its execution and its reply come to; the
  longest are those that write and read a map of the caller (`HSetMeans`,
  `BatchMeans`, `ScanMeans`) and those of sorted sets, where equal scores come in
  any order.

  Its hypothesis is `RoundTrips`: what a program writes, keys, fields and values,
  it reads back. The serializers of the library do so (README.md:286); with one that does not, a
  value stored is not the value found, two fields may become one, and nothing can
  be promised of the object in terms of fields and values. Texts of other programs
  may be read differently or not at all, two of them may be read as one field, and
  fields and values may be impossible to write.

**Streams** (`StreamOperationsProofs`, from `StreamAssumption` and `OneCaller`),
in two parts.

- `NothingDeliveredIsLost` is `DeliveredOrOwed`. The invariant follows an
  xreadgroup: its command has taken nothing while it is on its way; from when it
  is served until the next call, what it was given is pending for the caller, and
  the reply under way, or else the outcome, tells of it or is an exception.
- `StreamIsLinear` is `ImplementsStream`, for any entries of any fields, names,
  values, texts, counts, trims and options. A call that sends nothing has a result that the interface allows
  at that moment (`EndsAtOnce`); for every other operation there is a lemma that
  says what each command does is what the operation promises, and that the view
  makes of the reply just what the operation answers (`AddKeeps`, `CountKeeps`,
  `RangeKeeps`, `ReadKeeps`, ...): an integer of the server is below 2^63 and so
  is read as itself, a list of entries keeps every entry and its order, and one
  entry that cannot be read makes the call throw whatever the others are
  (`RangeGiven`, `BatchGiven`). Its hypotheses are `KeyIsRead` (the name of the
  stream in an XREAD reply is deserialised too, so the key must be one that the
  program can read) and `NothingLate` (MaxStray = 0, as in the run: commands that
  arrive late are the subject of `ViewsAreLinear`).

**Conversions** (`ConversionProofs`, from `PartsAssumption`,
`LongLongAssumption`, `InputsAssumption`, and, for `WellFormedIsRead`,
`WellFormedAssumption`, and, for `UrlsAreRead`, `UrlAssumption`): `NumbersAreRead` is `NumbersMeanWhatTheySay`, for integers
of every width. `NothingMissingIsRead` is `NoUndefinedBehaviour`: whatever finite
tree arrives, no decoder reads a member that is not there or an element past the
end. `convert_reply` is a recursive function on the parts of a tree; that the
function exists is proved by the size of the trees, and what is needed of it
(`WellBuilt`: a node that has a type has the members of that type) holds at every
part. Every decoder is then fine (`Fine`) on a reply that is well built.
`NothingIsMadeUp` is `NothingDroppedOrInvented`: a value that a decoder gives
stands for the whole tree (`StandsFor`), element by element, whatever the tree. The
set of the parts with what they were converted to is `Faithful`: every pair has
one type and the members of that type, and the elements of an array are pairs of
the set again (`Converted`). One lemma for each decoder (`StringsStand`,
`HashesStand`, `EntriesStand`, ...) says that a value it gives for a converted part
stands for the part; `HashesStand` is the one that says which value a field that is
repeated has. `WellFormedIsRead` is `WellFormedRepliesDecode`, the other direction:
a reply that is sound in every part (`IsSound`: no error, no type that is not
known, no member missing) and stands for a value gives the caller that value. Such
a reply is converted to itself (`Exact`, `Carried`), since an exception would come
from its least unsound part; one lemma for each decoder (`IntegersAreRead`,
`HashesAreRead`, `EntriesAreRead`, ...) then says that no check of the decoder
throws, and `DecodersRead` puts them together. So each decoder is total on what
the server means to say, and `NothingIsMadeUp` is what it does with the rest.

`UrlsAreRead` is `UrlMeansWhatItSays`: `parse_redis_url` finds again the parts a
URL was put together from, whatever words and delimiters they are made of, so a
documented form gives what it spells and an odd host or port touches nothing
else. That what is odd is not always rejected is finding 2. One
lemma about texts carries it: a text that goes on after a delimiter it had not had
before is split exactly there (`SplitAt`). From it follow the query
(`QueryIsSplit`), its parameters in their order (`Placed`, `QueryIsPlaced`), the
last of several parameters winning (`LastIsSaid`), the user and the password
winning over the query each on its own (`UserIsRead`), and the host with or
without brackets and port (`AddressIsRead`); `UrlIsRead` puts them together. URLs
have at most two parameters, which is where the order of two first matters.

**Iterations** (`ScanLoopProofs`, from `ScanAssumption`, `CodeAssumption` and
`WidestAssumption`): `IterationsFindAll`, `FoundWasThere` and `StopsOnlyForCause`
are the three properties of `scan_loop`, for any names, parts and cursors. The
invariant says which parts the cursor has behind it and that what was in them
throughout has been found (`Position`), and what a request and a page under way
have to do with the cursor (`RequestOK`, `ReplyOK`).

**Moves** (`ObjectMovesProofs`, from `NamesAssumption`): `OneOwner`
(`ConnectionsHaveOneOwner`) and `UndefinedAfterMoves`
(`UndefinedOnlyAfterMoves`). The invariant has an independent part for clients
(`Owned`) and for templates (`Referring`: every template has the serializer and
the views of the first one of its chain of moves).

**Numbers** (`ReadingLemmas`, from `HalfAssumption` and `WidestAssumption`):
`SignedRoundTrip` and `SignedInRange`: an integer reply comes back as it was, and
no conversion on the way is outside the range of its type, for every width.
`FromStringMeans` and `NumberRoundTrip`: `from_string` gives the number a text
denotes or the right exception, and reads back what `to_string` writes;
`ScanLoopProofs` uses it for the cursors. The other lemmas say what a loop of a
decoder comes to: all its values, or the first exception.

What the assumptions on the constants say, and why the code justifies it:

- `HalfAssumption`, `WidestAssumption`: widths are at least two values; 2^63 in
  the code.
- `TypedAssumption`, `CountsAssumption`, `KeyCountsAssumption`,
  `KeyVectorsAssumption`, `HashAssumption`, `ScoreMapsAssumption`,
  `InputsAssumption`, `StreamAssumption`: the inputs have the types of the
  parameters (a vector, a map, an int64_t), a serializer takes keys and values
  to texts and back, and a score that is written has a
  text (`std::to_chars`, serialization.hpp:50). The entries of a stream can be
  counted in 63 bits.
- `NumbersAssumption`, `ObjectsAssumption`: the numbers and lengths of the server
  fit in 64 bits; an object is of one kind, never empty, as Redis removes what
  becomes empty, and smaller than 2^63.
- `BadAssumption`, `NoMsgAssumption`: a mark of the model is not a value of the
  program.
- `PartsAssumption`, `LongLongAssumption`: a reply is a finite tree, as hiredis
  builds it, and its integers are long longs.
- `WellFormedAssumption`: the replies called well-formed are sound in every part
  and stand for the value they are listed with, as the documentation of each Redis
  command says of its reply; the run evaluates it for every reply it uses.
- `InputsAssumption`, `UrlAssumption`: a URL is given by parts, and no part holds
  the delimiter that ends it (`Spellable`), as a part that did would be two. Every
  text in front of the "?" has such parts, with an empty host, a port that is no
  number or text behind a bracket among them; a query has at most two parameters.
  Words hold no delimiter.
- `OneCaller`: the stream model shows the pending entries of one consumer; the
  programs of others are among its "others".

Only model-checked:

- liveness and ENABLED, which are out of the prover's reach: `EveryCallEnds`,
  `OnlyBlockedReadsWait`. Every other property of a passing run is a theorem.

## 5. Findings

1. `script_noscript_text`: `redis_cmd_ops::eval_sha1` takes every ERROR whose
   text contains NOSCRIPT for a missing script. A script that ran and then
   failed with such a text is loaded and run again by the facade, although
   exception.hpp says that the exception means "the script is not loaded".
2. `url_formats`: redis_config.hpp:58 promises `std::invalid_argument` for a URL
   whose format is invalid. `parse_redis_url` gives a configuration with an empty
   host for "tcp://:1234" and "tcp://[]", ignores what follows the digits of a
   port or a "]", and takes a port of 65536 and above modulo 2^16; a port that no
   unsigned long holds is a `std::out_of_range` (redis_config.cpp:105-125).

## 6. Not modelled

- Threads that share a connection without a lock: the documentation forbids it,
  and in C++ it is a data race with any outcome.
- Memory exhaustion in the client, and allocation failures inside hiredis other
  than the null reply that every transport failure gives.
- The text of keys, values and errors, apart from NOSCRIPT in an error and the
  texts of numbers; floating point numbers, which the code leaves to
  std::to_chars and std::from_chars; Redis Cluster, RESP3 and pipelining, which
  the library does not support.
- Keys in `OperationViews`: a key only selects the object. The clock of the
  server. Serialising of script
  keys and arguments: it throws before anything is sent.
- Serializers that write one text for two keys: the hash view merges such fields
  (`Picks`), but no run has them, and `RoundTrips` excludes them from the theorem.
- Reads of several streams at once, and XREAD from "$". Other programs delete
  neither the stream nor its group, and other consumers acknowledge at once.
- Abstract interfaces, build files, packaging and tests hold no logic.

## 7. Plan

What is left: reads of several streams in `StreamOperations`, with two groups.
