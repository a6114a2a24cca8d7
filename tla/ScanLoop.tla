------------------------------ MODULE ScanLoop ------------------------------
(***************************************************************************)
(* An iteration over the keys of a database or the fields of a hash, while *)
(* other programs add and remove them: redis_template::scan and keys,      *)
(* hscan of the hash view and hscan of redis_client, called in the loop    *)
(* the tests show.  The program goes on with the cursor it was given until *)
(* that is 0, and after an exception it may call again with the cursor it  *)
(* still has.                                                              *)
(*                                                                         *)
(* Only names the pattern matches are modelled, the count is a hint that   *)
(* leaves the server free, and a command that only reads and arrives late  *)
(* changes nothing.  A cursor is a number of any size between the two      *)
(* programs, and a text on the wire.                                       *)
(***************************************************************************)
EXTENDS NumericText, FiniteSets

CONSTANTS
    Name,               \* the names on the server: texts of keys or fields
    Additions,          \* the entries <<name, value>> other programs write
    Key,                \* the names in the program
    deserialize_key,    \* a partial function from Name to Key
    BUCKETS,            \* how many parts the server iterates in
    Bucket,             \* Bucket[n]: the part name n is in
    Code                \* Code[p]: the cursor after p parts

ASSUME ScanAssumption ==
    /\ DOMAIN deserialize_key \subseteq Name
    /\ \A n \in DOMAIN deserialize_key : deserialize_key[n] \in Key
    /\ \A pair \in Additions : pair[1] \in Name
    /\ BUCKETS \in Nat \ {0}
    /\ Bucket \in [Name -> 1 .. BUCKETS]

ASSUME CodeAssumption ==
    /\ Code \in [0 .. BUCKETS - 1 -> 0 .. 2 * WIDEST - 1]
    /\ Code[0] = 0
    /\ \A p, q \in 0 .. BUCKETS - 1 : Code[p] = Code[q] => p = q

VARIABLES
    entries,    \* the server: a partial function from Name to values
    mode,       \* which of the four the program calls
    pc,         \* "idle", "calling", "waiting", "failed" or "done"
    cursor,     \* the cursor the program goes on from
    found,      \* what the program has found: names or keys with contents
    error,      \* what the last call threw
    request,    \* Nothing, or the command the server has yet to act on
    reply,      \* Nothing, or the reply the program has yet to take
    throughout, \* history: the names that were there since the iteration began
    ever        \* history: the entries that were there at any moment since then

server == <<entries, throughout, ever>>
wire == <<request, reply>>
vars == <<server, mode, pc, cursor, found, error, wire>>

Nothing == <<>>
Just(x) == <<x>>
NoEntries == <<>>

Modes == {"keys", "scan", "hscan", "raw_hscan"}
PairsOf(e) == {<<n, e[n]>> : n \in DOMAIN e}

Init ==
    /\ entries = NoEntries
    /\ mode = "scan"
    /\ pc = "idle"
    /\ cursor = 0
    /\ found = NoEntries
    /\ error = "none"
    /\ request = Nothing /\ reply = Nothing
    /\ throughout = {} /\ ever = {}

\* uint64_t
uint64 == [signed |-> FALSE, half |-> WIDEST]

\* Mutant: a cursor is read as a signed number.
ReadSigned(text) == from_string([signed |-> TRUE, half |-> WIDEST], text)

read_cursor(text) == from_string(uint64, text)
-----------------------------------------------------------------------------
(* The program. *)

Begin(m) ==
    /\ pc \in {"idle", "failed", "done"}
    /\ mode' = m
    /\ pc' = "calling"
    /\ cursor' = 0
    /\ found' = NoEntries
    /\ error' = "none"
    /\ throughout' = DOMAIN entries
    /\ ever' = PairsOf(entries)
    /\ UNCHANGED <<entries, wire>>

Send ==
    /\ pc = "calling"
    /\ pc' = "waiting"
    /\ request' = Just(to_string(cursor))
    /\ UNCHANGED <<server, mode, cursor, found, error, reply>>

\* The call throws.  What it was to give is lost, but keys has put into the
\* caller's set what it had deserialised by then.
Throws(e, some) ==
    /\ pc' = "failed"
    /\ error' = e
    /\ found' = some
    /\ UNCHANGED <<mode, cursor>>

Unreadable(page) == DOMAIN page \ DOMAIN deserialize_key

KeysOf(names) == {deserialize_key[n] : n \in names}

\* Mutant: a key need not go with the content of its own name.
Mismatched(page) == [KeysOf(DOMAIN page) -> {page[n] : n \in DOMAIN page}]

\* What becomes of the entries of a page: several names may be the same key,
\* and which of them counts is for the order in an unordered_map.
Deserialized(page) ==
    {typed \in [KeysOf(DOMAIN page) -> {page[n] : n \in DOMAIN page}] :
        \A k \in DOMAIN typed :
            \E n \in DOMAIN page : deserialize_key[n] = k /\ page[n] = typed[k]}

\* Entries of a that b does not have are added to b.
AddedTo(b, a) == [k \in DOMAIN a \cup DOMAIN b |-> IF k \in DOMAIN b THEN b[k] ELSE a[k]]

\* hscan of redis_client adds to the caller's map what is not in it; the
\* others give a page, which the program adds to what it has.
Merged(page) ==
    IF mode = "raw_hscan" THEN {AddedTo(found, page)}
    ELSE {AddedTo(found, typed) : typed \in Deserialized(page)}

\* What keys leaves in the caller's set when it meets a name it cannot read.
Partial(page) ==
    IF mode # "keys" THEN {found}
    ELSE UNION {Merged([n \in names |-> page[n]]) :
                   names \in SUBSET (DOMAIN page \ Unreadable(page))}

Continues(next, all) ==
    /\ found' = all
    /\ cursor' = next
    /\ pc' = IF next = 0 THEN "done" ELSE "calling"
    /\ UNCHANGED <<mode, error>>

\* Mutant: the cursor is written before the page is read.
ReturnsAdvancing(next, page) ==
    \/ /\ mode = "raw_hscan" \/ Unreadable(page) = {}
       /\ \E all \in Merged(page) : Continues(next, all)
    \/ /\ mode # "raw_hscan" /\ Unreadable(page) # {}
       /\ pc' = "failed" /\ error' = "deserialize"
       /\ found' \in Partial(page)
       /\ cursor' = next
       /\ UNCHANGED mode

Returns(next, page) ==
    \/ /\ mode = "raw_hscan" \/ Unreadable(page) = {}
       /\ \E all \in Merged(page) : Continues(next, all)
    \/ /\ mode # "raw_hscan" /\ Unreadable(page) # {}
       /\ \E some \in Partial(page) : Throws("deserialize", some)

Receive ==
    /\ pc = "waiting"
    /\ reply # Nothing
    /\ reply' = Nothing
    /\ LET next == read_cursor(reply[1].cursor)
       IN  \/ next.ok /\ Returns(next.value, reply[1].page)
           \/ ~next.ok /\ Throws(next.error, found)
    /\ UNCHANGED <<server, request>>

\* The program calls again with what it has, on the same connection or another.
Resume ==
    /\ pc = "failed"
    /\ pc' = "calling"
    /\ error' = "none"
    /\ UNCHANGED <<server, mode, cursor, found, wire>>
-----------------------------------------------------------------------------
(* The network and the server (outside the repository). *)

Lose ==
    /\ pc = "waiting"
    /\ Throws("transport", found)
    /\ request' = Nothing /\ reply' = Nothing
    /\ UNCHANGED server

\* KEYS and SCAN give names only.
Page(from, to) ==
    [n \in {m \in DOMAIN entries : from < Bucket[m] /\ Bucket[m] <= to} |->
        IF mode \in {"keys", "scan"} THEN Nothing ELSE entries[n]]

\* The server goes through one part at least, and has gone through all when it
\* gives 0.  When its table changes size it may send a program back.
Serve ==
    /\ request # Nothing
    /\ \E from \in 0 .. BUCKETS - 1, to \in 1 .. BUCKETS, next \in 0 .. BUCKETS - 1 :
          /\ IF mode = "keys" THEN from = 0 ELSE to_string(Code[from]) = request[1]
          /\ mode = "keys" => to = BUCKETS /\ next = 0
          /\ from < to
          /\ IF next = 0 THEN to = BUCKETS ELSE next <= to
          /\ reply' = Just([cursor |-> to_string(Code[next]), page |-> Page(from, to)])
    /\ request' = Nothing
    /\ UNCHANGED <<server, mode, pc, cursor, found, error>>

\* Another program adds, changes or removes an entry.
Others ==
    /\ \/ \E pair \in Additions :
             entries' = AddedTo([n \in {pair[1]} |-> pair[2]], entries)
       \/ \E n \in DOMAIN entries :
             entries' = [m \in DOMAIN entries \ {n} |-> entries[m]]
    /\ throughout' = throughout \cap DOMAIN entries'
    /\ ever' = ever \cup PairsOf(entries')
    /\ UNCHANGED <<mode, pc, cursor, found, error, wire>>

Next ==
    \/ \E m \in Modes : Begin(m)
    \/ Send \/ Receive \/ Resume \/ Lose \/ Serve \/ Others

Spec == Init /\ [][Next]_vars
-----------------------------------------------------------------------------
(* Properties. *)

KnownAs(n) == IF mode = "raw_hscan" THEN n ELSE deserialize_key[n]

\* An iteration that comes to its end has found every name that was there from
\* its beginning to its end, whatever was added, changed and removed meanwhile
\* and whichever of its calls failed and were made again; and no name that the
\* program cannot read was passed over.
CompleteIterationsFindAll ==
    pc = "done" =>
        \A n \in throughout :
            /\ mode = "raw_hscan" \/ n \in DOMAIN deserialize_key
            /\ KnownAs(n) \in DOMAIN found

\* What a program has found was there during its iteration, with that content;
\* also after a call that threw in the middle of a page.
NothingInvented ==
    \A k \in DOMAIN found :
        \E pair \in ever : /\ mode = "raw_hscan" \/ pair[1] \in DOMAIN deserialize_key
                           /\ KnownAs(pair[1]) = k
                           /\ mode \in {"keys", "scan"} \/ found[k] = pair[2]

\* Nothing stops an iteration but the connection and a name that cannot be read:
\* every cursor the server sends is understood and comes back to it as it was.
StopsForCause ==
    /\ pc = "failed" => \/ error = "transport"
                        \/ /\ error = "deserialize"
                           /\ \E pair \in ever : pair[1] \notin DOMAIN deserialize_key
    /\ request # Nothing /\ mode # "keys" =>
           \E p \in 0 .. BUCKETS - 1 : request[1] = to_string(Code[p])
=============================================================================
