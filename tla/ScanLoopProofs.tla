--------------------------- MODULE ScanLoopProofs ---------------------------
(***************************************************************************)
(* Proofs about ScanLoop, for any names, keys, entries, any number of      *)
(* parts and any width of the cursor.  The inductive invariant says how    *)
(* far the cursor has come and what has been found up to there, and what   *)
(* the command and the reply under way have to do with it.                 *)
(***************************************************************************)
EXTENDS ScanLoop, ReadingLemmas, TLAPS

Positions == 0 .. BUCKETS - 1

TypeOK ==
    /\ DOMAIN entries \subseteq Name
    /\ mode \in Modes
    /\ pc \in {"idle", "calling", "waiting", "failed", "done"}

\* The history goes with what the server has.
HistoryOK ==
    /\ throughout \subseteq DOMAIN entries
    /\ PairsOf(entries) \subseteq ever

\* The program can read name n and has found it.
Found(n) ==
    /\ mode = "raw_hscan" \/ n \in DOMAIN deserialize_key
    /\ KnownAs(n) \in DOMAIN found

\* The cursor stands after some parts, and what was in them throughout has been
\* found.  KEYS has no cursor.
Position ==
    \E p \in Positions :
        /\ cursor = Code[p]
        /\ mode = "keys" => p = 0
        /\ \A n \in throughout : Bucket[n] <= p => Found(n)

\* A command under way is the one for the cursor.
RequestOK ==
    request # Nothing => pc = "waiting" /\ reply = Nothing /\ request = Just(to_string(cursor))

\* A page holds what was there throughout in the parts it is about, and nothing
\* that was not there.
PageOK(page, from, to) ==
    /\ \A n \in throughout : from < Bucket[n] /\ Bucket[n] <= to => n \in DOMAIN page
    /\ \A n \in DOMAIN page :
          \E pair \in ever : pair[1] = n /\ (mode \in {"keys", "scan"} \/ page[n] = pair[2])

\* A reply goes on from where the cursor stands.
ReplyOK ==
    reply # Nothing =>
        /\ pc = "waiting" /\ request = Nothing
        /\ \E from \in Positions, to \in 1 .. BUCKETS, next \in Positions :
              /\ cursor = Code[from]
              /\ mode = "keys" => next = 0
              /\ IF next = 0 THEN to = BUCKETS ELSE next <= to
              /\ reply[1].cursor = to_string(Code[next])
              /\ PageOK(reply[1].page, from, to)

Inv ==
    /\ TypeOK
    /\ HistoryOK
    /\ Position
    /\ RequestOK
    /\ ReplyOK
    /\ CompleteIterationsFindAll
    /\ NothingInvented
    /\ StopsForCause
-----------------------------------------------------------------------------
(* Cursors and pages. *)

\* Every cursor of the server is a 64-bit number.
LEMMA CodeInType ==
    ASSUME NEW p \in Positions
    PROVE  Code[p] \in Int /\ InType(uint64, Code[p]) /\ uint64 \in IntegerTypes
<1>1. WIDEST \in Nat \ {0}
  BY WidestAssumption
<1>2. Code[p] \in 0 .. 2 * WIDEST - 1
  BY CodeAssumption DEF Positions
<1>3. uint64 \in IntegerTypes
  BY <1>1 DEF uint64, IntegerTypes
<1>. QED
  BY <1>1, <1>2, <1>3 DEF InType, lowest, max, uint64

\* The program reads from the text of a cursor the cursor.
LEMMA CursorReads ==
    ASSUME NEW p \in Positions
    PROVE  read_cursor(to_string(Code[p])) = Read(Code[p])
BY CodeInType, NumberRoundTrip DEF read_cursor

\* The server recognises its cursor: the texts of two are never the same.
LEMMA CursorsDiffer ==
    ASSUME NEW p \in Positions, NEW q \in Positions, to_string(Code[p]) = to_string(Code[q])
    PROVE  p = q
<1>1. Read(Code[p]) = Read(Code[q])
  BY CursorReads
<1>2. Code[p] = Code[q]
  <2>1. Read(Code[p]).value = Code[p] /\ Read(Code[q]).value = Code[q]
    BY DEF Read
  <2>. QED
    BY <1>1, <2>1
<1>. QED
  BY <1>2, CodeAssumption DEF Positions

\* No part is before the first one, and 0 is the cursor of the beginning only.
LEMMA Beginning ==
    /\ 0 \in Positions /\ Code[0] = 0
    /\ \A p \in Positions : Code[p] = 0 => p = 0
    /\ \A n \in Name : Bucket[n] \in 1 .. BUCKETS
<1>1. BUCKETS \in Nat \ {0} /\ Bucket \in [Name -> 1 .. BUCKETS]
  BY ScanAssumption
<1>2. 0 \in Positions
  BY <1>1 DEF Positions
<1>3. \A p \in Positions : Code[p] = 0 => p = 0
  BY <1>2, CodeAssumption DEF Positions
<1>. QED
  BY <1>1, <1>2, <1>3, CodeAssumption

\* What all is after a page that could be read was added to what had been
\* found: nothing is forgotten or replaced, every name of the page is there, and
\* what is new has the content of a name of the page.
Extends(all, page) ==
    /\ \A k \in DOMAIN found : k \in DOMAIN all /\ all[k] = found[k]
    /\ \A n \in DOMAIN page : KnownAs(n) \in DOMAIN all
    /\ \A k \in DOMAIN all :
          k \in DOMAIN found \/ \E n \in DOMAIN page : KnownAs(n) = k /\ all[k] = page[n]

LEMMA AddedExtends ==
    ASSUME NEW page, NEW a,
           \A n \in DOMAIN page : KnownAs(n) \in DOMAIN a,
           \A k \in DOMAIN a : \E n \in DOMAIN page : KnownAs(n) = k /\ a[k] = page[n]
    PROVE  Extends(AddedTo(found, a), page)
<1> DEFINE all == AddedTo(found, a)
<1>1. DOMAIN all = DOMAIN a \cup DOMAIN found
  BY DEF AddedTo
<1>2. \A k \in DOMAIN all : all[k] = IF k \in DOMAIN found THEN found[k] ELSE a[k]
  BY DEF AddedTo
<1>3. \A k \in DOMAIN found : k \in DOMAIN all /\ all[k] = found[k]
  BY <1>1, <1>2
<1>4. \A n \in DOMAIN page : KnownAs(n) \in DOMAIN all
  BY <1>1
<1>5. ASSUME NEW k \in DOMAIN all, k \notin DOMAIN found
      PROVE  \E n \in DOMAIN page : KnownAs(n) = k /\ all[k] = page[n]
  <2>1. k \in DOMAIN a /\ all[k] = a[k]
    BY <1>1, <1>2, <1>5
  <2>. QED
    BY <2>1
<1> HIDE DEF all
<1>. QED
  BY <1>3, <1>4, <1>5 DEF Extends, all

LEMMA MergedExtends ==
    ASSUME NEW page, NEW all \in Merged(page)
    PROVE  Extends(all, page)
<1>1. CASE mode = "raw_hscan"
  <2>1. all = AddedTo(found, page)
    BY <1>1 DEF Merged
  <2>2. \A n : KnownAs(n) = n
    BY <1>1 DEF KnownAs
  <2>. QED
    BY <2>1, <2>2, AddedExtends
<1>2. CASE mode # "raw_hscan"
  <2>1. PICK typed \in Deserialized(page) : all = AddedTo(found, typed)
    BY <1>2 DEF Merged
  <2>2. \A n : KnownAs(n) = deserialize_key[n]
    BY <1>2 DEF KnownAs
  <2>3. DOMAIN typed = KeysOf(DOMAIN page)
    BY <2>1 DEF Deserialized
  <2>4. \A n \in DOMAIN page : KnownAs(n) \in DOMAIN typed
    BY <2>2, <2>3 DEF KeysOf
  <2>5. \A k \in DOMAIN typed : \E n \in DOMAIN page : KnownAs(n) = k /\ typed[k] = page[n]
    BY <2>1, <2>2 DEF Deserialized
  <2>. QED
    BY <2>1, <2>4, <2>5, AddedExtends
<1>. QED
  BY <1>1, <1>2

\* What was there justifies what has been found.
Justified(k, content) ==
    \E pair \in ever : /\ mode = "raw_hscan" \/ pair[1] \in DOMAIN deserialize_key
                       /\ KnownAs(pair[1]) = k
                       /\ mode \in {"keys", "scan"} \/ content = pair[2]

\* Names of a page that the program can read add nothing that was not there.
LEMMA ExtendsJustified ==
    ASSUME NothingInvented, NEW page, NEW from, NEW to, PageOK(page, from, to),
           NEW part, DOMAIN part \subseteq DOMAIN page,
           \A n \in DOMAIN part : part[n] = page[n],
           mode = "raw_hscan" \/ DOMAIN part \subseteq DOMAIN deserialize_key,
           NEW all, Extends(all, part)
    PROVE  \A k \in DOMAIN all : Justified(k, all[k])
<1> SUFFICES ASSUME NEW k \in DOMAIN all PROVE Justified(k, all[k])
  OBVIOUS
<1>1. CASE k \in DOMAIN found
  BY <1>1 DEF NothingInvented, Extends, Justified
<1>2. CASE k \notin DOMAIN found
  <2>1. PICK n \in DOMAIN part : KnownAs(n) = k /\ all[k] = part[n]
    BY <1>2 DEF Extends
  <2>2. PICK pair \in ever : pair[1] = n /\ (mode \in {"keys", "scan"} \/ page[n] = pair[2])
    BY <2>1 DEF PageOK
  <2>3. part[n] = page[n]
    BY <2>1
  <2>. QED
    BY <2>1, <2>2, <2>3 DEF Justified
<1>. QED
  BY <1>1, <1>2
-----------------------------------------------------------------------------
(* Steps of the program. *)

\* Nothing has been found at first, and nothing was there.
LEMMA InitInv == Init => Inv
<1> SUFFICES ASSUME Init PROVE Inv
  OBVIOUS
<1>1. DOMAIN entries = {} /\ DOMAIN found = {}
  BY DEF Init, NoEntries
<1>2. TypeOK /\ HistoryOK
  BY <1>1 DEF Init, TypeOK, Modes, HistoryOK, PairsOf
<1>3. Position
  BY Beginning DEF Init, Position
<1>. QED
  BY <1>1, <1>2, <1>3 DEF Init, Inv, RequestOK, ReplyOK, CompleteIterationsFindAll,
                          NothingInvented, StopsForCause

\* An iteration begins with nothing found, at the first part.
LEMMA BeginInv ==
    ASSUME Inv, NEW m \in Modes, Begin(m)
    PROVE  Inv'
<1>1. /\ mode' = m /\ pc' = "calling" /\ cursor' = 0
      /\ throughout' = DOMAIN entries /\ ever' = PairsOf(entries)
      /\ entries' = entries /\ request' = request /\ reply' = reply
  BY DEF Begin, wire
<1>2. DOMAIN found' = {}
  BY DEF Begin, NoEntries
<1>3. request' = Nothing /\ reply' = Nothing
  BY <1>1 DEF Inv, RequestOK, ReplyOK, Begin
<1>4. TypeOK' /\ HistoryOK'
  BY <1>1 DEF Inv, TypeOK, HistoryOK, PairsOf
<1>5. Position'
  <2>1. \A n \in throughout' : ~(Bucket[n] <= 0)
    BY <1>1, Beginning, ScanAssumption DEF Inv, TypeOK
  <2>. QED
    BY <1>1, <2>1, Beginning DEF Position
<1>6. NothingInvented'
  BY <1>2 DEF NothingInvented
<1>. QED
  BY <1>1, <1>3, <1>4, <1>5, <1>6 DEF Inv, RequestOK, ReplyOK,
                                      CompleteIterationsFindAll, StopsForCause

\* What has been found stays found, and there, while the program does not look
\* and the names that were there throughout get no more.
LEMMA NothingTaken ==
    ASSUME Position, NothingInvented,
           mode' = mode, cursor' = cursor, found' = found,
           throughout' \subseteq throughout, ever \subseteq ever'
    PROVE  Position' /\ NothingInvented'
<1>1. \A n : KnownAs(n)' = KnownAs(n)
  BY DEF KnownAs
<1>2. \A n : Found(n)' = Found(n)
  BY <1>1 DEF Found
<1>3. Position'
  BY <1>2 DEF Position
<1>4. NothingInvented'
  BY <1>1 DEF NothingInvented
<1>. QED
  BY <1>3, <1>4

LEMMA SendInv ==
    ASSUME Inv, Send
    PROVE  Inv'
<1>1. /\ pc = "calling" /\ pc' = "waiting"
      /\ request' = Just(to_string(cursor)) /\ reply' = reply
      /\ entries' = entries /\ throughout' = throughout /\ ever' = ever
      /\ mode' = mode /\ cursor' = cursor /\ found' = found
  BY DEF Send, server
<1>2. reply' = Nothing
  BY <1>1 DEF Inv, ReplyOK
<1>3. TypeOK' /\ HistoryOK'
  BY <1>1 DEF Inv, TypeOK, HistoryOK, PairsOf
<1>4. Position' /\ NothingInvented'
  BY <1>1, NothingTaken DEF Inv
<1>5. \E p \in Positions : request'[1] = to_string(Code[p])
  BY <1>1 DEF Inv, Position, Just
<1>6. StopsForCause'
  BY <1>1, <1>5 DEF StopsForCause, Positions
<1>. QED
  BY <1>1, <1>2, <1>3, <1>4, <1>6 DEF Inv, RequestOK, ReplyOK, CompleteIterationsFindAll

LEMMA ResumeInv ==
    ASSUME Inv, Resume
    PROVE  Inv'
<1>1. /\ pc = "failed" /\ pc' = "calling"
      /\ request' = request /\ reply' = reply
      /\ entries' = entries /\ throughout' = throughout /\ ever' = ever
      /\ mode' = mode /\ cursor' = cursor /\ found' = found
  BY DEF Resume, server, wire
<1>2. request' = Nothing /\ reply' = Nothing
  BY <1>1 DEF Inv, RequestOK, ReplyOK
<1>3. TypeOK' /\ HistoryOK'
  BY <1>1 DEF Inv, TypeOK, HistoryOK, PairsOf
<1>4. Position' /\ NothingInvented'
  BY <1>1, NothingTaken DEF Inv
<1>. QED
  BY <1>1, <1>2, <1>3, <1>4 DEF Inv, RequestOK, ReplyOK, CompleteIterationsFindAll, StopsForCause

LEMMA LoseInv ==
    ASSUME Inv, Lose
    PROVE  Inv'
<1>1. /\ pc' = "failed" /\ error' = "transport"
      /\ request' = Nothing /\ reply' = Nothing
      /\ entries' = entries /\ throughout' = throughout /\ ever' = ever
      /\ mode' = mode /\ cursor' = cursor /\ found' = found
  BY DEF Lose, Throws, server
<1>2. TypeOK' /\ HistoryOK'
  BY <1>1 DEF Inv, TypeOK, HistoryOK, PairsOf
<1>3. Position' /\ NothingInvented'
  BY <1>1, NothingTaken DEF Inv
<1>. QED
  BY <1>1, <1>2, <1>3 DEF Inv, RequestOK, ReplyOK, CompleteIterationsFindAll, StopsForCause

\* A page that can be read brings the program to where the next one begins.
LEMMA ContinuesInv ==
    ASSUME Inv, pc = "waiting", request = Nothing, reply' = Nothing, request' = request,
           UNCHANGED server,
           NEW page, NEW from \in Positions, NEW to \in 1 .. BUCKETS, NEW next \in Positions,
           cursor = Code[from], mode = "keys" => next = 0,
           IF next = 0 THEN to = BUCKETS ELSE next <= to,
           PageOK(page, from, to),
           mode = "raw_hscan" \/ Unreadable(page) = {},
           NEW all \in Merged(page), Continues(Code[next], all)
    PROVE  Inv'
<1>1. /\ entries' = entries /\ throughout' = throughout /\ ever' = ever
      /\ mode' = mode /\ cursor' = Code[next] /\ found' = all /\ request' = Nothing
      /\ pc' = IF next = 0 THEN "done" ELSE "calling"
  BY Beginning DEF server, Continues
<1>2. TypeOK' /\ HistoryOK'
  BY <1>1 DEF Inv, TypeOK, HistoryOK, PairsOf
<1>3. Extends(all, page)
  BY MergedExtends
<1>4. \A n : KnownAs(n)' = KnownAs(n)
  BY <1>1 DEF KnownAs
<1>5. mode = "raw_hscan" \/ DOMAIN page \subseteq DOMAIN deserialize_key
  BY DEF Unreadable
<1>6. \A n \in throughout : Bucket[n] <= to => Found(n)'
  <2> SUFFICES ASSUME NEW n \in throughout, Bucket[n] <= to
               PROVE  Found(n)'
    OBVIOUS
  <2>1. CASE Bucket[n] <= from
    <3>1. Found(n)
      <4>1. PICK p \in Positions : cursor = Code[p] /\ (Bucket[n] <= p => Found(n))
        BY DEF Inv, Position
      <4>2. p = from
        BY <4>1, CursorsDiffer
      <4>. QED
        BY <2>1, <4>1, <4>2
    <3>. QED
      BY <3>1, <1>1, <1>3, <1>4 DEF Found, Extends
  <2>2. CASE ~(Bucket[n] <= from)
    <3>1. n \in Name
      BY DEF Inv, TypeOK, HistoryOK
    <3>2. from < Bucket[n]
      BY <2>2, <3>1, Beginning, ScanAssumption DEF Positions
    <3>3. n \in DOMAIN page
      BY <3>2 DEF PageOK
    <3>. QED
      BY <3>3, <1>1, <1>3, <1>4, <1>5 DEF Found, Extends
  <2>. QED
    BY <2>1, <2>2
<1>7. next <= to
  BY ScanAssumption DEF Positions
<1>8. Position'
  <2>1. \A n \in throughout : Bucket[n] <= next => Bucket[n] <= to
    BY <1>7, Beginning, ScanAssumption DEF Inv, TypeOK, HistoryOK, Positions
  <2>2. \A n \in throughout' : Bucket[n] <= next => Found(n)'
    BY <1>1, <1>6, <2>1
  <2>. QED
    BY <1>1, <2>2 DEF Position
<1>9. CompleteIterationsFindAll'
  <2> SUFFICES ASSUME next = 0
               PROVE  \A n \in throughout : Found(n)'
    BY <1>1 DEF CompleteIterationsFindAll, Found
  <2>1. \A n \in throughout : Bucket[n] <= to
    BY Beginning, ScanAssumption DEF Inv, TypeOK, HistoryOK
  <2>. QED
    BY <1>6, <2>1
<1>10. NothingInvented'
  <2>1. \A k \in DOMAIN all : Justified(k, all[k])
    BY <1>3, <1>5, ExtendsJustified DEF Inv
  <2>. QED
    BY <1>1, <1>4, <2>1 DEF NothingInvented, Justified
<1>11. StopsForCause'
  BY <1>1 DEF StopsForCause
<1>. QED
  BY <1>1, <1>2, <1>8, <1>9, <1>10, <1>11 DEF Inv, RequestOK, ReplyOK

\* A page with a name that cannot be read leaves the cursor and, but for keys,
\* what had been found.
LEMMA ThrowsInv ==
    ASSUME Inv, pc = "waiting", request = Nothing, reply' = Nothing, request' = request,
           UNCHANGED server,
           NEW page, NEW from, NEW to, PageOK(page, from, to),
           mode # "raw_hscan", Unreadable(page) # {},
           NEW some \in Partial(page), Throws("deserialize", some)
    PROVE  Inv'
<1>1. /\ entries' = entries /\ throughout' = throughout /\ ever' = ever
      /\ mode' = mode /\ cursor' = cursor /\ found' = some /\ request' = Nothing
      /\ pc' = "failed" /\ error' = "deserialize"
  BY DEF server, Throws
<1>2. TypeOK' /\ HistoryOK'
  BY <1>1 DEF Inv, TypeOK, HistoryOK, PairsOf
<1>3. \A n : KnownAs(n)' = KnownAs(n)
  BY <1>1 DEF KnownAs
<1>4. Position' /\ NothingInvented'
  <2>1. CASE mode # "keys"
    <3>1. found' = found
      BY <1>1, <2>1 DEF Partial
    <3>. QED
      BY <1>1, <3>1, NothingTaken DEF Inv
  <2>2. CASE mode = "keys"
    <3>1. Position'
      <4>1. cursor = Code[0]
        BY <2>2 DEF Inv, Position
      <4>2. \A n \in throughout' : ~(Bucket[n] <= 0)
        BY <1>1, Beginning, ScanAssumption DEF Inv, TypeOK, HistoryOK
      <4>. QED
        BY <1>1, <4>1, <4>2, Beginning DEF Position
    <3>2. PICK names \in SUBSET (DOMAIN page \ Unreadable(page)) :
              some \in Merged([n \in names |-> page[n]])
      BY <2>2 DEF Partial
    <3>3. Extends(some, [n \in names |-> page[n]])
      BY <3>2, MergedExtends
    <3>4. \A k \in DOMAIN some : Justified(k, some[k])
      <4> DEFINE part == [n \in names |-> page[n]]
      <4>1. DOMAIN part \subseteq DOMAIN page /\ DOMAIN part \subseteq DOMAIN deserialize_key
        BY DEF Unreadable
      <4>2. \A n \in DOMAIN part : part[n] = page[n]
        OBVIOUS
      <4>3. Extends(some, part)
        BY <3>3
      <4> HIDE DEF part
      <4>. QED
        BY <4>1, <4>2, <4>3, ExtendsJustified DEF Inv
    <3>5. NothingInvented'
      BY <1>1, <1>3, <3>4 DEF NothingInvented, Justified
    <3>. QED
      BY <3>1, <3>5
  <2>. QED
    BY <2>1, <2>2
<1>5. StopsForCause'
  <2>1. PICK n \in DOMAIN page : n \notin DOMAIN deserialize_key
    BY DEF Unreadable
  <2>2. \E pair \in ever : pair[1] = n
    BY DEF PageOK
  <2>. QED
    BY <1>1, <2>1, <2>2 DEF StopsForCause
<1>. QED
  BY <1>1, <1>2, <1>4, <1>5 DEF Inv, RequestOK, ReplyOK, CompleteIterationsFindAll

LEMMA ReceiveInv ==
    ASSUME Inv, Receive
    PROVE  Inv'
<1>1. /\ pc = "waiting" /\ reply # Nothing /\ reply' = Nothing
      /\ request' = request /\ UNCHANGED server
  BY DEF Receive
<1>2. PICK from \in Positions, to \in 1 .. BUCKETS, next \in Positions :
          /\ cursor = Code[from]
          /\ mode = "keys" => next = 0
          /\ IF next = 0 THEN to = BUCKETS ELSE next <= to
          /\ reply[1].cursor = to_string(Code[next])
          /\ PageOK(reply[1].page, from, to)
  BY <1>1 DEF Inv, ReplyOK
<1>3. request = Nothing
  BY <1>1 DEF Inv, ReplyOK
<1> DEFINE page == reply[1].page
<1>4. read_cursor(reply[1].cursor) = Read(Code[next])
  BY <1>2, CursorReads
<1>5. Read(Code[next]).ok = TRUE /\ Read(Code[next]).value = Code[next]
  BY DEF Read
<1>6. Returns(Code[next], page)
  BY <1>4, <1>5 DEF Receive
<1>7. CASE /\ mode = "raw_hscan" \/ Unreadable(page) = {}
           /\ \E all \in Merged(page) : Continues(Code[next], all)
  <2>1. PICK all \in Merged(page) : Continues(Code[next], all)
    BY <1>7
  <2>2. PageOK(page, from, to)
    BY <1>2
  <2> HIDE DEF page
  <2>. QED
    BY <1>1, <1>2, <1>3, <1>7, <2>1, <2>2, ContinuesInv
<1>8. CASE /\ mode # "raw_hscan" /\ Unreadable(page) # {}
           /\ \E some \in Partial(page) : Throws("deserialize", some)
  <2>1. PICK some \in Partial(page) : Throws("deserialize", some)
    BY <1>8
  <2>2. PageOK(page, from, to)
    BY <1>2
  <2> HIDE DEF page
  <2>. QED
    BY <1>1, <1>3, <1>8, <2>1, <2>2, ThrowsInv
<1>. QED
  BY <1>6, <1>7, <1>8 DEF Returns
-----------------------------------------------------------------------------
(* Steps of the server and of other programs. *)

\* The page is about the parts that the cursor leaves to do.
LEMMA ServeInv ==
    ASSUME Inv, Serve
    PROVE  Inv'
<1>1. /\ request # Nothing /\ request' = Nothing
      /\ entries' = entries /\ throughout' = throughout /\ ever' = ever
      /\ mode' = mode /\ pc' = pc /\ cursor' = cursor /\ found' = found /\ error' = error
  BY DEF Serve, server
<1>2. PICK from \in Positions, to \in 1 .. BUCKETS, next \in Positions :
          /\ IF mode = "keys" THEN from = 0 ELSE to_string(Code[from]) = request[1]
          /\ mode = "keys" => to = BUCKETS /\ next = 0
          /\ from < to
          /\ IF next = 0 THEN to = BUCKETS ELSE next <= to
          /\ reply' = Just([cursor |-> to_string(Code[next]), page |-> Page(from, to)])
  BY DEF Serve, Positions
<1>3. pc = "waiting" /\ request[1] = to_string(cursor)
  BY <1>1 DEF Inv, RequestOK, Just
<1>4. cursor = Code[from]
  <2>1. PICK p \in Positions : cursor = Code[p] /\ (mode = "keys" => p = 0)
    BY DEF Inv, Position
  <2>. QED
    BY <1>2, <1>3, <2>1, CursorsDiffer
<1>5. reply'[1].cursor = to_string(Code[next]) /\ reply'[1].page = Page(from, to)
  BY <1>2 DEF Just
<1>6. PageOK(Page(from, to), from, to)
  <2>1. DOMAIN Page(from, to) = {m \in DOMAIN entries : from < Bucket[m] /\ Bucket[m] <= to}
    BY DEF Page
  <2>2. \A n \in throughout : from < Bucket[n] /\ Bucket[n] <= to => n \in DOMAIN Page(from, to)
    BY <2>1 DEF Inv, HistoryOK
  <2>3. ASSUME NEW n \in DOMAIN Page(from, to)
        PROVE  \E pair \in ever :
                  pair[1] = n /\ (mode \in {"keys", "scan"} \/ Page(from, to)[n] = pair[2])
    <3>1. n \in DOMAIN entries
      BY <2>1
    <3>2. <<n, entries[n]>> \in ever
      BY <3>1 DEF Inv, HistoryOK, PairsOf
    <3>3. mode \in {"keys", "scan"} \/ Page(from, to)[n] = entries[n]
      BY <2>1 DEF Page
    <3>. QED
      BY <3>2, <3>3
  <2>. QED
    BY <2>2, <2>3 DEF PageOK
<1>7. ReplyOK'
  <2>1. PageOK(reply[1].page, from, to)'
    BY <1>1, <1>5, <1>6 DEF PageOK
  <2>. QED
    BY <1>1, <1>2, <1>3, <1>4, <1>5, <2>1 DEF ReplyOK
<1>8. TypeOK' /\ HistoryOK'
  BY <1>1 DEF Inv, TypeOK, HistoryOK, PairsOf
<1>9. Position' /\ NothingInvented'
  BY <1>1, NothingTaken DEF Inv
<1>. QED
  BY <1>1, <1>3, <1>7, <1>8, <1>9 DEF Inv, RequestOK, CompleteIterationsFindAll, StopsForCause

\* What other programs do only takes names from those that were there
\* throughout, and adds entries to those that were ever there.
LEMMA OthersInv ==
    ASSUME Inv, Others
    PROVE  Inv'
<1>1. /\ throughout' = throughout \cap DOMAIN entries'
      /\ ever' = ever \cup PairsOf(entries')
      /\ mode' = mode /\ pc' = pc /\ cursor' = cursor /\ found' = found /\ error' = error
      /\ request' = request /\ reply' = reply
  BY DEF Others, wire
<1>2. DOMAIN entries' \subseteq Name
  <2>1. CASE \E pair \in Additions : entries' = AddedTo([n \in {pair[1]} |-> pair[2]], entries)
    <3>1. PICK pair \in Additions : entries' = AddedTo([n \in {pair[1]} |-> pair[2]], entries)
      BY <2>1
    <3>2. DOMAIN entries' = DOMAIN entries \cup {pair[1]}
      BY <3>1 DEF AddedTo
    <3>3. pair[1] \in Name
      BY ScanAssumption
    <3>. QED
      BY <3>2, <3>3 DEF Inv, TypeOK
  <2>2. CASE \E n \in DOMAIN entries : entries' = [m \in DOMAIN entries \ {n} |-> entries[m]]
    BY <2>2 DEF Inv, TypeOK
  <2>. QED
    BY <2>1, <2>2 DEF Others
<1>3. TypeOK' /\ HistoryOK'
  <2>1. TypeOK'
    BY <1>1, <1>2 DEF Inv, TypeOK
  <2>2. PairsOf(entries)' = PairsOf(entries')
    BY DEF PairsOf
  <2>3. HistoryOK'
    BY <1>1, <2>2 DEF HistoryOK
  <2>. QED
    BY <2>1, <2>3
<1>4. throughout' \subseteq throughout /\ ever \subseteq ever'
  BY <1>1
<1>5. Position' /\ NothingInvented'
  BY <1>1, <1>4, NothingTaken DEF Inv
<1>6. \A n : KnownAs(n)' = KnownAs(n)
  BY <1>1 DEF KnownAs
<1>7. CompleteIterationsFindAll'
  BY <1>1, <1>4, <1>6 DEF Inv, CompleteIterationsFindAll
<1>8. StopsForCause'
  BY <1>1, <1>4 DEF Inv, StopsForCause
<1>9. ReplyOK'
  <2>1. \A page, from, to : PageOK(page, from, to) => PageOK(page, from, to)'
    BY <1>1, <1>4 DEF PageOK
  <2>. QED
    BY <1>1, <2>1 DEF Inv, ReplyOK
<1>10. RequestOK'
  BY <1>1 DEF Inv, RequestOK
<1>. QED
  BY <1>3, <1>5, <1>7, <1>8, <1>9, <1>10 DEF Inv
-----------------------------------------------------------------------------
(* The invariant. *)

LEMMA StepInv == Inv /\ [Next]_vars => Inv'
<1> SUFFICES ASSUME Inv, [Next]_vars PROVE Inv'
  OBVIOUS
<1>1. CASE UNCHANGED vars
  <2>1. /\ entries' = entries /\ throughout' = throughout /\ ever' = ever
        /\ mode' = mode /\ pc' = pc /\ cursor' = cursor /\ found' = found /\ error' = error
        /\ request' = request /\ reply' = reply
    BY <1>1 DEF vars, server, wire
  <2>2. TypeOK' /\ HistoryOK'
    BY <2>1 DEF Inv, TypeOK, HistoryOK, PairsOf
  <2>3. Position' /\ NothingInvented'
    BY <2>1, NothingTaken DEF Inv
  <2>4. \A page, from, to : PageOK(page, from, to)' = PageOK(page, from, to)
    BY <2>1 DEF PageOK
  <2>5. RequestOK' /\ ReplyOK'
    BY <2>1, <2>4 DEF Inv, RequestOK, ReplyOK
  <2>6. \A n : KnownAs(n)' = KnownAs(n)
    BY <2>1 DEF KnownAs
  <2>7. CompleteIterationsFindAll' /\ StopsForCause'
    BY <2>1, <2>6 DEF Inv, CompleteIterationsFindAll, StopsForCause
  <2>. QED
    BY <2>2, <2>3, <2>5, <2>7 DEF Inv
<1>. QED
  BY <1>1, BeginInv, SendInv, ReceiveInv, ResumeInv, LoseInv, ServeInv, OthersInv DEF Next

\* The cursor, what has been found and what is under way agree, whatever other
\* programs do.
THEOREM Invariance == Spec => []Inv
<1>1. Init => Inv
  BY InitInv
<1>2. Inv /\ [Next]_vars => Inv'
  BY StepInv
<1>. QED
  BY <1>1, <1>2, PTL DEF Spec

\* An iteration of redis_template or redis_client with scan, hscan or keys that
\* ends has found every name that was there from its beginning to its end,
\* however many parts the server goes through in however many calls:
\* CompleteIterationsFindAll.
THEOREM IterationsFindAll == Spec => []CompleteIterationsFindAll
<1>1. Inv => CompleteIterationsFindAll
  BY DEF Inv
<1>. QED
  BY <1>1, Invariance, PTL

\* What such an iteration has found was there, with that content, also when a
\* name in the middle of a page could not be read: NothingInvented.
THEOREM FoundWasThere == Spec => []NothingInvented
<1>1. Inv => NothingInvented
  BY DEF Inv
<1>. QED
  BY <1>1, Invariance, PTL

\* Every 64-bit cursor is read and sent back as it was, so that only the
\* connection and names that cannot be read stop an iteration: StopsForCause.
THEOREM StopsOnlyForCause == Spec => []StopsForCause
<1>1. Inv => StopsForCause
  BY DEF Inv
<1>. QED
  BY <1>1, Invariance, PTL
=============================================================================
