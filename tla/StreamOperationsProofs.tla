----------------------- MODULE StreamOperationsProofs -----------------------
(***************************************************************************)
(* Proofs about StreamOperations, for any values, texts, options and any   *)
(* length of the stream: DeliveredOrOwed, then ImplementsStream.           *)
(*                                                                         *)
(* The invariant follows an xreadgroup: its command has taken nothing      *)
(* while it is on its way; from when it is served, what it took is pending *)
(* for the caller, and the reply that is on its way back tells what it     *)
(* took, whatever the view makes of it.                                    *)
(***************************************************************************)
EXTENDS StreamOperations, ReadingLemmas, FiniteSetTheorems

\* The ids that entries may have.
Ids == 1 .. MaxId

\* The fields of an entry, as the server keeps them.
FieldTexts == Seq(Text \X Text)
HoldsFields(s) == \A n \in DOMAIN s.entries : s.entries[n] \in FieldTexts

\* Nothing, or a stream with its entries and at most one group.
IsGroup(g) == (\E n, p : g = [delivered |-> n, pending |-> p]) /\ g.pending \subseteq Ids

IsStream(s) ==
    /\ s = [entries |-> s.entries, last |-> s.last, group |-> s.group]
    /\ s.last \in Nat /\ DOMAIN s.entries \subseteq Ids /\ HoldsFields(s)
    /\ s.group = None \/ \E g : IsGroup(g) /\ s.group = Some(g)

ObjectOK(x) == x = NoObject \/ \E s : IsStream(s) /\ x = [stream |-> s]

\* A command the server knows; that of an xreadgroup asks for what o does.
Known == {"XADD", "XLEN", "XRANGE", "XREVRANGE", "XREAD", "XREADGROUP", "XDEL", "XTRIM",
          "XACK", "CREATE", "SETID", "DESTROY", "CREATECONSUMER", "DELCONSUMER"}

IsLimit(count) == count = None \/ \E n \in Nat : count = Some(n)

Fits(o, m) ==
    /\ m.cmd \in Known
    /\ m.cmd = "XADD" => m.options.id \in Int /\ Paired(m.texts).value \in FieldTexts
    /\ m.cmd \in {"XRANGE", "XREVRANGE", "XREAD", "XREADGROUP"} => IsLimit(m.count)
    /\ o.name = "xreadgroup" =>
          /\ m.cmd = "XREADGROUP"
          /\ m.noack = o.options.noack

\* The result tells what was delivered.
Tells(ids, result) ==
    ids # <<>> =>
        IF result.ok
        THEN LET given == result.value.entries
             IN  [i \in DOMAIN given |-> given[i].id] = ids
        ELSE result.error \in {"transport", "deserialize"}

\* Everything of ids is pending for the caller.
Pending(x, ids) ==
    \E s, g : /\ x = [stream |-> s] /\ s.group = Some(g)
              /\ Elems(ids) \subseteq g.pending

Reads(c) ==
    /\ ~busy[c] => Tells(taken[c], outcome[c])
    /\ rep[c] # NoMsg => \A result \in Results(op[c], rep[c]) : Tells(taken[c], result)
    /\ taken[c] # <<>> /\ ~op[c].options.noack => Pending(object, taken[c])
-----------------------------------------------------------------------------
(* How a reply with entries is read.                                        *)

\* Pairs that are sent one text after the other are paired up again.
LEMMA FlatTexts ==
    ASSUME NEW p \in FieldTexts
    PROVE  /\ Len(p) \in Nat /\ DOMAIN p = 1 .. Len(p)
           /\ DOMAIN Flat(p) = 1 .. 2 * Len(p) /\ Len(Flat(p)) = 2 * Len(p)
           /\ \A i \in 1 .. Len(p) : p[i] = <<Flat(p)[2 * i - 1], Flat(p)[2 * i]>>
<1>. DEFINE n == Len(p)
            text(i) == p[(i + 1) \div 2][IF i % 2 = 1 THEN 1 ELSE 2]
<1>1. n \in Nat /\ DOMAIN p = 1 .. n
  BY DEF FieldTexts
<1>2. \A i \in 1 .. n : p[i] = <<p[i][1], p[i][2]>>
  BY <1>1 DEF FieldTexts
<1>3. Flat(p) = [i \in 1 .. 2 * n |-> text(i)]
  BY DEF Flat
<1>4. 2 * n \in Nat /\ Len([i \in 1 .. 2 * n |-> text(i)]) = 2 * n
  <2>1. 2 * n \in Nat
    BY <1>1
  <2>. HIDE DEF n, text
  <2>. QED
    BY <2>1
<1>5. ASSUME NEW i \in 1 .. n
      PROVE  text(2 * i - 1) = p[i][1] /\ text(2 * i) = p[i][2]
  <2>1. /\ ((2 * i - 1) + 1) \div 2 = i /\ (2 * i - 1) % 2 = 1
        /\ ((2 * i) + 1) \div 2 = i /\ (2 * i) % 2 # 1
    BY <1>1
  <2>. QED
    BY <2>1
<1>6. \A i \in 1 .. n : 2 * i - 1 \in 1 .. 2 * n /\ 2 * i \in 1 .. 2 * n
  BY <1>1
<1>. HIDE DEF n, text
<1>7. \A i \in 1 .. n : p[i] = <<Flat(p)[2 * i - 1], Flat(p)[2 * i]>>
  <2>. TAKE i \in 1 .. n
  <2>1. Flat(p)[2 * i - 1] = text(2 * i - 1) /\ Flat(p)[2 * i] = text(2 * i)
    BY <1>3, <1>6
  <2>. QED
    BY <1>2, <1>5, <2>1
<1>8. DOMAIN Flat(p) = 1 .. 2 * n /\ Len(Flat(p)) = 2 * n
  BY <1>3, <1>4
<1>. QED
  BY <1>1, <1>7, <1>8 DEF n

LEMMA PairedAgain ==
    ASSUME NEW p \in FieldTexts
    PROVE  Paired(Flat(p)) = Val(p)
<1>. DEFINE n == Len(p)
            flat == Flat(p)
            pairs == [i \in 1 .. Len(flat) \div 2 |-> <<flat[2 * i - 1], flat[2 * i]>>]
<1>1. /\ n \in Nat /\ DOMAIN p = 1 .. n /\ Len(flat) = 2 * n
      /\ \A i \in 1 .. n : p[i] = <<flat[2 * i - 1], flat[2 * i]>>
  BY FlatTexts
<1>2. Paired(flat) = Val(pairs)
  BY DEF Paired
<1>3. Len(flat) \div 2 = n
  <2>. HIDE DEF flat, n
  <2>. QED
    BY <1>1
<1>4. p = [i \in 1 .. n |-> p[i]]
  BY <1>1 DEF FieldTexts
<1>. HIDE DEF n, flat
<1>5. pairs = p
  BY <1>1, <1>3, <1>4
<1>. QED
  BY <1>2, <1>5 DEF flat

\* They are read as they were written.
LEMMA PairsRead ==
    ASSUME NEW p \in FieldTexts
    PROVE  /\ ~is_nil(Array(Flat(p)))
           /\ Bind(as_array(Array(Flat(p))), StringPairs) = Val(p)
<1>. DEFINE flat == Flat(p)
            items == [i \in DOMAIN flat |-> make_string(flat[i])]
            results == [i \in DOMAIN items |-> as_string(items[i])]
            n == 2 * Len(p)
<1>1. \A t : as_string(make_string(t)) = Val(t)
  BY DEF as_string, as_text, make_string
<1>2. n \in Nat /\ n % 2 = 0 /\ DOMAIN flat = 1 .. n
  <2>1. Len(p) \in Nat /\ DOMAIN flat = 1 .. 2 * Len(p)
    BY FlatTexts
  <2>. HIDE DEF flat
  <2>. QED
    BY <2>1
<1>. HIDE DEF flat, n
<1>3. DOMAIN items = 1 .. n /\ Len(items) = n
  BY <1>2
<1>4. StringPairs(items) = Bind(Once(results, Collected), Paired)
  <2>. HIDE DEF items
  <2>. QED
    BY <1>2, <1>3 DEF StringPairs, Pairs
<1>5. EachGives(results, n, flat, {}, "none")
  <2>1. \A i \in 1 .. n : results[i] = Val(flat[i])
    BY <1>1, <1>2, <1>3
  <2>2. DOMAIN results = 1 .. n
    BY <1>3
  <2>. HIDE DEF results
  <2>. QED
    BY <2>1, <2>2 DEF EachGives
<1>6. [i \in 1 .. n |-> flat[i]] = flat
  BY <1>2 DEF flat, Flat
<1>7. Array(flat) = make_array(items)
  BY DEF Array
<1>. HIDE DEF items, results
<1>8. Collected(results) = Val(flat)
  <2>1. Collected(results) = IF {} \cap (1 .. n) = {} THEN Val([i \in 1 .. n |-> flat[i]])
                             ELSE Throw("none")
    BY <1>2, <1>5, CollectedAll
  <2>2. {} \cap (1 .. n) = {}
    OBVIOUS
  <2>. QED
    BY <1>6, <2>1, <2>2
<1>9. StringPairs(items) = Paired(flat)
  BY <1>4, <1>8, Outcomes DEF Bind, Once
<1>10. ~is_nil(make_array(items)) /\ as_array(make_array(items)) = Val(items)
  BY DEF is_nil, as_array, make_array
<1>11. Bind(as_array(make_array(items)), StringPairs) = StringPairs(items)
  BY <1>10, Outcomes DEF Bind, Once
<1>. QED
  BY <1>7, <1>9, <1>10, <1>11, PairedAgain DEF flat

\* An entry in a reply, and as stream_entry gives it: with the fields it has, or
\* with none.
EntryItem(e) ==
    make_array(<<make_string(e.id),
                 IF e.fields = None THEN make_nil ELSE Array(Flat(e.fields[1]))>>)

ReadEntry(e) == [id |-> e.id, fields |-> ShownFields(e)]

HasFields(e) == e.fields = None \/ \E p \in FieldTexts : e.fields = Some(p)

LEMMA Shown ==
    ASSUME NEW e, HasFields(e)
    PROVE  ShownFields(e) \in FieldTexts
<1>1. <<>> \in FieldTexts
  BY DEF FieldTexts
<1>2. \A p : Some(p) # None /\ Some(p)[1] = p
  BY DEF Some, None
<1>. QED
  BY <1>1, <1>2 DEF ShownFields, HasFields

LEMMA EntryRead ==
    ASSUME NEW e, HasFields(e)
    PROVE  stream_entry(EntryItem(e)) = Val(ReadEntry(e))
<1>. DEFINE id == e.id
            shown == e.fields
            second == IF shown = None THEN make_nil ELSE Array(Flat(shown[1]))
            parts == <<make_string(id), second>>
            Fields == IF is_nil(second) THEN Val(<<>>)
                      ELSE Bind(as_array(second), StringPairs)
            given == ShownFields(e)
<1>1. as_string(make_string(id)) = Val(id)
  BY DEF as_string, as_text, make_string
<1>2. as_array(make_array(parts)) = Val(parts) /\ Len(parts) = 2
      /\ parts[1] = make_string(id) /\ parts[2] = second
  <2>. HIDE DEF second
  <2>. QED
    BY DEF as_array, make_array
<1>3. stream_entry(make_array(parts)) =
        Bind(Fields, LAMBDA fields : Val([id |-> id, fields |-> fields]))
  <2>. DEFINE Last(ps, i) ==
                  Bind(IF is_nil(ps[2]) THEN Val(<<>>) ELSE Bind(as_array(ps[2]), StringPairs),
                       LAMBDA fields : Val([id |-> i, fields |-> fields]))
              Inner(ps) == Bind(as_string(ps[1]), LAMBDA i : Last(ps, i))
  <2>1. stream_entry(make_array(parts)) =
          Bind(as_array(make_array(parts)),
               LAMBDA ps : IF Len(ps) # 2 THEN Malformed ELSE Inner(ps))
    BY DEF stream_entry
  <2>2. Last(parts, id) = Bind(Fields, LAMBDA fields : Val([id |-> id, fields |-> fields]))
    BY <1>2
  <2>. HIDE DEF Last, parts, second, Fields
  <2>3. Inner(parts) = Last(parts, id)
    BY <1>1, <1>2, Outcomes DEF Bind, Once
  <2>. HIDE DEF Inner
  <2>4. stream_entry(make_array(parts)) = Inner(parts)
    BY <1>2, <2>1, Outcomes DEF Bind, Once
  <2>. QED
    BY <2>2, <2>3, <2>4
<1>4. Fields = Val(given)
  <2>1. ASSUME shown = None
        PROVE  Fields = Val(given)
    <3>1. Fields = Val(<<>>)
      BY <2>1 DEF is_nil, make_nil
    <3>2. given = <<>>
      BY <2>1 DEF ShownFields
    <3>. QED
      BY <3>1, <3>2
  <2>2. ASSUME NEW p \in FieldTexts, shown = Some(p)
        PROVE  Fields = Val(given)
    <3>1. shown # None /\ shown[1] = p
      BY <2>2 DEF Some, None
    <3>2. second = Array(Flat(p)) /\ given = p
      BY <3>1 DEF ShownFields
    <3>. HIDE DEF second, given
    <3>. QED
      BY <3>2, PairsRead
  <2>. HIDE DEF Fields, given
  <2>. QED
    BY <2>1, <2>2 DEF HasFields
<1>. DEFINE Made(fields) == Val([id |-> id, fields |-> fields])
<1>5. stream_entry(make_array(parts)) = Bind(Fields, LAMBDA fields : Made(fields))
  BY <1>3
<1>6. Made(given) = Val(ReadEntry(e))
  BY DEF ReadEntry
<1>7. Bind(Fields, LAMBDA fields : Made(fields)) = Made(given)
  <2>. HIDE DEF Fields, given, Made
  <2>. QED
    BY <1>4, Outcomes DEF Bind, Once
<1>8. EntryItem(e) = make_array(parts)
  BY DEF EntryItem
<1>. HIDE DEF Made, parts, Fields, given
<1>. QED
  BY <1>5, <1>6, <1>7, <1>8

\* A list as Showing gives it.
IsShown(list, ids) ==
    /\ DOMAIN list = 1 .. Len(ids)
    /\ \A i \in 1 .. Len(ids) : list[i].id = ids[i] /\ HasFields(list[i])

LEMMA ShowingShown ==
    ASSUME NEW s, HoldsFields(s), NEW E, NEW ids \in Seq(E)
    PROVE  \E list : Showing(s, ids) = [list |-> list] /\ IsShown(list, ids)
<1>. DEFINE fields(n) == IF n \in DOMAIN s.entries THEN Some(s.entries[n]) ELSE None
            entry(i) == [id |-> ids[i], fields |-> fields(ids[i])]
            list == [i \in DOMAIN ids |-> entry(i)]
<1>1. Showing(s, ids) = [list |-> list]
  BY DEF Showing
<1>2. DOMAIN list = 1 .. Len(ids) /\ \A i \in 1 .. Len(ids) : list[i] = entry(i)
  OBVIOUS
<1>3. \A i : entry(i).id = ids[i] /\ HasFields(entry(i))
  <2>. HIDE DEF list
  <2>1. \A n : fields(n) = None \/ \E p \in FieldTexts : fields(n) = Some(p)
    BY DEF HoldsFields
  <2>. HIDE DEF fields
  <2>2. \A i : entry(i).id = ids[i] /\ entry(i).fields = fields(ids[i])
    OBVIOUS
  <2>. HIDE DEF entry
  <2>. QED
    BY <2>1, <2>2 DEF HasFields
<1>. HIDE DEF list, entry
<1>4. IsShown(list, ids)
  BY <1>2, <1>3 DEF IsShown
<1>. QED
  BY <1>1, <1>4

ReadList(list) == [i \in DOMAIN list |-> ReadEntry(list[i])]

LEMMA EntriesRead ==
    ASSUME NEW E, NEW ids \in Seq(E), NEW list, IsShown(list, ids)
    PROVE  stream_entries(EntryArray(list)) = Val(ReadList(list))
<1>. DEFINE items == [i \in DOMAIN list |-> EntryItem(list[i])]
            results == [i \in DOMAIN items |-> stream_entry(items[i])]
            n == Len(ids)
            entries == [i \in 1 .. n |-> ReadEntry(list[i])]
<1>1. EntryArray(list) = make_array(items)
  BY DEF EntryArray, EntryItem
<1>2. n \in Nat /\ DOMAIN list = 1 .. n /\ DOMAIN results = 1 .. n
  BY DEF IsShown
<1>3. \A i \in 1 .. n : results[i] = Val(entries[i])
  <2>. TAKE i \in 1 .. n
  <2>1. results[i] = stream_entry(EntryItem(list[i])) /\ entries[i] = ReadEntry(list[i])
    BY <1>2
  <2>2. HasFields(list[i])
    BY DEF IsShown
  <2>. DEFINE e == list[i]
  <2>. HIDE DEF results, entries
  <2>3. stream_entry(EntryItem(e)) = Val(ReadEntry(e))
    BY <2>2, EntryRead
  <2>. QED
    BY <2>1, <2>3
<1>4. Collected(results) = Val(ReadList(list))
  <2>1. [i \in 1 .. n |-> entries[i]] = ReadList(list)
    BY <1>2 DEF ReadList
  <2>2. {} \cap (1 .. n) = {}
    OBVIOUS
  <2>. HIDE DEF results, entries, n
  <2>3. EachGives(results, n, entries, {}, "none")
    BY <1>2, <1>3 DEF EachGives
  <2>4. Collected(results) = IF {} \cap (1 .. n) = {} THEN Val([i \in 1 .. n |-> entries[i]])
                                                       ELSE Throw("none")
    BY <1>2, <2>3, CollectedAll
  <2>. QED
    BY <2>1, <2>2, <2>4
<1>5. DecodeAll(items, stream_entry) = Collected(results)
  BY DEF DecodeAll, Once
<1>. HIDE DEF items, results
<1>6. ~is_nil(make_array(items)) /\ as_array(make_array(items)) = Val(items)
  BY DEF is_nil, as_array, make_array
<1>. DEFINE Then(x) == DecodeAll(x, stream_entry)
<1>7. stream_entries(make_array(items)) = Bind(as_array(make_array(items)), LAMBDA x : Then(x))
  BY <1>6 DEF stream_entries
<1>8. Then(items) = Val(ReadList(list))
  BY <1>4, <1>5
<1>. HIDE DEF Then
<1>9. Bind(Val(items), LAMBDA x : Then(x)) = Then(items)
  BY Outcomes DEF Bind, Once
<1>. QED
  BY <1>1, <1>6, <1>7, <1>8, <1>9

\* A text that is no name, or no value, makes the call throw.
LEMMA FieldTyped ==
    ASSUME NEW field
    PROVE  TypedField(field) =
             IF ReadablePair(field) THEN Val(TypedPair(field)) ELSE Throw("deserialize")
<1>. DEFINE Made(name, value) == Val(<<name, value>>)
            Then(name) == Bind(Deserialized(field[2]), LAMBDA value : Made(name, value))
            name == deserialize_key[field[1]]
            value == deserialize_value[field[2]]
<1>1. TypedField(field) = Bind(DeserializedName(field[1]), LAMBDA n : Then(n))
  BY DEF TypedField
<1>2. ASSUME field[1] \notin DOMAIN deserialize_key
      PROVE  TypedField(field) = Throw("deserialize")
  <2>1. DeserializedName(field[1]) = Throw("deserialize")
    BY <1>2 DEF DeserializedName
  <2>. HIDE DEF Then
  <2>. QED
    BY <1>1, <2>1, Outcomes DEF Bind, Once
<1>3. ASSUME field[1] \in DOMAIN deserialize_key
      PROVE  TypedField(field) = Then(name)
  <2>1. DeserializedName(field[1]) = Val(name)
    BY <1>3 DEF DeserializedName
  <2>. HIDE DEF Then, name
  <2>. QED
    BY <1>1, <2>1, Outcomes DEF Bind, Once
<1>4. ASSUME field[2] \notin DOMAIN deserialize_value
      PROVE  Then(name) = Throw("deserialize")
  <2>1. Deserialized(field[2]) = Throw("deserialize")
    BY <1>4 DEF Deserialized
  <2>. HIDE DEF Made, name
  <2>. QED
    BY <2>1, Outcomes DEF Bind, Once
<1>5. ASSUME field[2] \in DOMAIN deserialize_value
      PROVE  Then(name) = Made(name, value)
  <2>1. Deserialized(field[2]) = Val(value)
    BY <1>5 DEF Deserialized
  <2>. HIDE DEF Made, name, value
  <2>. QED
    BY <2>1, Outcomes DEF Bind, Once
<1>6. Made(name, value) = Val(TypedPair(field))
  BY DEF TypedPair
<1>. HIDE DEF Made, Then, name, value
<1>. QED
  BY <1>2, <1>3, <1>4, <1>5, <1>6 DEF ReadablePair

LEMMA EntryTyped ==
    ASSUME NEW e, HasFields(e)
    PROVE  deserialize_entry(ReadEntry(e)) =
             IF Readable(e) THEN Val(TypedEntry(e)) ELSE Throw("deserialize")
<1>. DEFINE entry == ReadEntry(e)
            shown == ShownFields(e)
            n == Len(shown)
            results == [i \in DOMAIN shown |-> TypedField(shown[i])]
            given == [i \in DOMAIN shown |-> TypedPair(shown[i])]
            bad == {i \in DOMAIN shown : ~ReadablePair(shown[i])}
            Made(fields) == Val([id |-> entry.id, fields |-> fields])
<1>1. n \in Nat /\ DOMAIN shown = 1 .. n
  BY Shown DEF FieldTexts
<1>2. entry.id = e.id /\ entry.fields = shown
  BY DEF ReadEntry
<1>3. DecodeAll(entry.fields, TypedField) = Collected(results)
  BY <1>2 DEF DecodeAll, Once
<1>4. deserialize_entry(entry) = Bind(Collected(results), LAMBDA fields : Made(fields))
  BY <1>3 DEF deserialize_entry
<1>5. DOMAIN results = 1 .. n
  BY <1>1
<1>6. \A i \in 1 .. n : results[i] = IF i \in bad THEN Throw("deserialize") ELSE Val(given[i])
  <2>. TAKE i \in 1 .. n
  <2>. DEFINE field == shown[i]
  <2>1. results[i] = TypedField(field) /\ given[i] = TypedPair(field)
        /\ (i \in bad <=> ~ReadablePair(field))
    BY <1>1
  <2>. HIDE DEF results, bad, given, field
  <2>. QED
    BY <2>1, FieldTyped
<1>7. bad \cap (1 .. n) = {} <=> Readable(e)
  BY <1>1 DEF Readable
<1>8. Made([i \in 1 .. n |-> given[i]]) = Val(TypedEntry(e))
  <2>1. [i \in 1 .. n |-> given[i]] = given
    BY <1>1
  <2>2. Made(given) = Val(TypedEntry(e))
    BY <1>2 DEF TypedEntry
  <2>. QED
    BY <2>1, <2>2
<1>. HIDE DEF results, bad, given, entry, shown, n, Made
<1>9. Collected(results) = IF bad \cap (1 .. n) = {} THEN Val([i \in 1 .. n |-> given[i]])
                           ELSE Throw("deserialize")
  <2>1. EachGives(results, n, given, bad, "deserialize")
    BY <1>5, <1>6 DEF EachGives
  <2>. QED
    BY <1>1, <2>1, CollectedAll
<1>10. ASSUME Readable(e)
       PROVE  deserialize_entry(entry) = Val(TypedEntry(e))
  <2>. DEFINE fields == [i \in 1 .. n |-> given[i]]
  <2>1. Collected(results) = Val(fields)
    BY <1>7, <1>9, <1>10
  <2>. HIDE DEF fields
  <2>2. deserialize_entry(entry) = Made(fields)
    BY <1>4, <2>1, Outcomes DEF Bind, Once
  <2>. QED
    BY <1>8, <2>2 DEF fields
<1>11. ASSUME ~Readable(e)
       PROVE  deserialize_entry(entry) = Throw("deserialize")
  <2>1. Collected(results) = Throw("deserialize")
    BY <1>7, <1>9, <1>11
  <2>. QED
    BY <1>4, <2>1, Outcomes DEF Bind, Once
<1>. QED
  BY <1>10, <1>11 DEF entry

\* Several entries, in their order, as the answer of StreamPromised shows them.
Given(list) ==
    IF \A i \in DOMAIN list : Readable(list[i])
    THEN Val(TypedEntries([i \in DOMAIN list |-> TypedEntry(list[i])]))
    ELSE Throw("deserialize")

LEMMA EntriesTyped ==
    ASSUME NEW E, NEW ids \in Seq(E), NEW list, IsShown(list, ids)
    PROVE  deserialize_entries(ReadList(list)) = Given(list)
<1>. DEFINE entries == ReadList(list)
            results == [i \in DOMAIN entries |-> deserialize_entry(entries[i])]
            n == Len(ids)
            typed == [i \in DOMAIN list |-> TypedEntry(list[i])]
            bad == {i \in DOMAIN list : ~Readable(list[i])}
            Made(x) == Val(TypedEntries(x))
<1>1. n \in Nat /\ DOMAIN list = 1 .. n /\ DOMAIN results = 1 .. n
  BY DEF IsShown, ReadList
<1>2. DecodeAll(entries, deserialize_entry) = Collected(results)
  BY DEF DecodeAll, Once
<1>3. deserialize_entries(entries) = Bind(Collected(results), LAMBDA x : Made(x))
  BY <1>2 DEF deserialize_entries
<1>4. \A i \in 1 .. n : results[i] = IF i \in bad THEN Throw("deserialize") ELSE Val(typed[i])
  <2>. TAKE i \in 1 .. n
  <2>1. results[i] = deserialize_entry(ReadEntry(list[i]))
    BY <1>1 DEF ReadList
  <2>2. (i \in bad <=> ~Readable(list[i])) /\ typed[i] = TypedEntry(list[i])
    BY <1>1
  <2>3. HasFields(list[i])
    BY DEF IsShown
  <2>. DEFINE e == list[i]
  <2>. HIDE DEF results, bad, typed
  <2>4. deserialize_entry(ReadEntry(e)) = IF Readable(e) THEN Val(TypedEntry(e))
                                          ELSE Throw("deserialize")
    BY <2>3, EntryTyped
  <2>. QED
    BY <2>1, <2>2, <2>4
<1>5. bad \cap (1 .. n) = {} <=> \A i \in DOMAIN list : Readable(list[i])
  BY <1>1
<1>6. [i \in 1 .. n |-> typed[i]] = typed
  BY <1>1
<1>7. Given(list) = IF \A i \in DOMAIN list : Readable(list[i]) THEN Made(typed)
                    ELSE Throw("deserialize")
  BY DEF Given
<1>. HIDE DEF results, bad, typed, n, Made
<1>8. Collected(results) = IF bad \cap (1 .. n) = {} THEN Val([i \in 1 .. n |-> typed[i]])
                           ELSE Throw("deserialize")
  <2>1. EachGives(results, n, typed, bad, "deserialize")
    BY <1>1, <1>4 DEF EachGives
  <2>. QED
    BY <1>1, <2>1, CollectedAll
<1>9. CASE \A i \in DOMAIN list : Readable(list[i])
  <2>1. Collected(results) = Val(typed)
    BY <1>5, <1>6, <1>8, <1>9
  <2>2. Bind(Val(typed), LAMBDA x : Made(x)) = Made(typed)
    BY Outcomes DEF Bind, Once
  <2>. QED
    BY <1>3, <1>7, <1>9, <2>1, <2>2
<1>10. CASE ~\A i \in DOMAIN list : Readable(list[i])
  <2>1. Collected(results) = Throw("deserialize")
    BY <1>5, <1>8, <1>10
  <2>2. Bind(Throw("deserialize"), LAMBDA x : Made(x)) = Throw("deserialize")
    BY Outcomes DEF Bind, Once
  <2>. QED
    BY <1>3, <1>7, <1>10, <2>1, <2>2
<1>. QED
  BY <1>9, <1>10

\* The reply to a range, and the reply to a read: of one batch.
LEMMA RangeGiven ==
    ASSUME NEW o, o.name \in {"xrange", "xrevrange"}, NEW E, NEW ids \in Seq(E),
           NEW list, IsShown(list, ids)
    PROVE  Results(o, EntryArray(list)) = {Given(list)}
<1>. DEFINE reply == EntryArray(list)
<1>1. or_throw(reply) = Val(reply)
  BY DEF or_throw, is_error, make_array, EntryArray
<1>2. StreamResult(o, reply) = Bind(stream_entries(reply), deserialize_entries)
  BY DEF StreamResult
<1>3. stream_entries(reply) = Val(ReadList(list)) /\ deserialize_entries(ReadList(list)) = Given(list)
  BY EntriesRead, EntriesTyped
<1>. HIDE DEF reply
<1>4. Bind(stream_entries(reply), deserialize_entries) = deserialize_entries(ReadList(list))
  BY <1>3, Outcomes DEF Bind, Once
<1>5. Bind(or_throw(reply), LAMBDA r : StreamResult(o, r)) = StreamResult(o, reply)
  BY <1>1, Outcomes DEF Bind, Once
<1>. QED
  BY <1>2, <1>3, <1>4, <1>5 DEF Results, reply

Batch(list) == make_array(<<make_array(<<make_string(StreamKey), EntryArray(list)>>)>>)

LEMMA BatchGiven ==
    ASSUME NEW o, o.name \in {"xread", "xreadgroup"}, NEW E, NEW ids \in Seq(E),
           NEW list, IsShown(list, ids)
    PROVE  Results(o, Batch(list)) =
             {IF StreamKey \in DOMAIN deserialize_key THEN Given(list)
              ELSE Throw("deserialize")}
<1>. DEFINE inner == make_array(<<make_string(StreamKey), EntryArray(list)>>)
            reply == make_array(<<inner>>)
            entries == ReadList(list)
            batch == [key |-> StreamKey, entries |-> entries]
<1>1. stream_entries(EntryArray(list)) = Val(entries)
  BY EntriesRead
<1>2. stream_batch(inner) = Val(batch)
  <2>. DEFINE parts == <<make_string(StreamKey), EntryArray(list)>>
              Last(ps, k) == Bind(stream_entries(ps[2]), LAMBDA x : Val([key |-> k, entries |-> x]))
              Inner(ps) == Bind(as_string(ps[1]), LAMBDA k : Last(ps, k))
  <2>1. as_array(make_array(parts)) = Val(parts)
    BY DEF as_array, make_array
  <2>2. Len(parts) = 2 /\ parts[1] = make_string(StreamKey) /\ parts[2] = EntryArray(list)
    OBVIOUS
  <2>3. as_string(make_string(StreamKey)) = Val(StreamKey)
    BY DEF as_string, as_text, make_string
  <2>4. stream_batch(make_array(parts)) =
          Bind(as_array(make_array(parts)),
               LAMBDA ps : IF Len(ps) # 2 THEN Malformed ELSE Inner(ps))
    BY DEF stream_batch
  <2>. HIDE DEF parts, entries
  <2>5. Last(parts, StreamKey) = Val(batch)
    BY <1>1, <2>2, Outcomes DEF Bind, Once
  <2>. HIDE DEF Last
  <2>6. Inner(parts) = Last(parts, StreamKey)
    BY <2>2, <2>3, Outcomes DEF Bind, Once
  <2>. HIDE DEF Inner
  <2>7. stream_batch(make_array(parts)) = Inner(parts)
    BY <2>1, <2>2, <2>4, Outcomes DEF Bind, Once
  <2>. QED
    BY <2>5, <2>6, <2>7 DEF parts
<1>3. stream_batches(reply) = Val(<<batch>>)
  <2>. DEFINE items == <<inner>>
              results == [i \in DOMAIN items |-> stream_batch(items[i])]
              Then(x) == DecodeAll(x, stream_batch)
  <2>1. DecodeAll(items, stream_batch) = Collected(results)
    BY DEF DecodeAll, Once
  <2>2. DOMAIN results = 1 .. 1 /\ results[1] = stream_batch(inner)
    <3>. HIDE DEF inner
    <3>. QED
      OBVIOUS
  <2>. HIDE DEF inner, results, batch
  <2>3. Collected(results) = Val([i \in 1 .. 1 |-> results[i].value])
    <3>1. 1 \in Nat /\ \A i \in 1 .. 1 : results[i].ok
      BY <1>2, <2>2, Outcomes
    <3>. QED
      BY <2>2, <3>1, CollectedResult
  <2>4. [i \in 1 .. 1 |-> results[i].value] = <<batch>>
    BY <1>2, <2>2, Outcomes
  <2>5. ~is_nil(reply) /\ as_array(reply) = Val(items)
    BY DEF is_nil, as_array, make_array
  <2>6. stream_batches(reply) = Bind(as_array(reply), LAMBDA x : Then(x))
    BY <2>5 DEF stream_batches
  <2>7. Then(items) = Val(<<batch>>)
    BY <2>1, <2>3, <2>4
  <2>. HIDE DEF Then, reply, items
  <2>. QED
    BY <2>5, <2>6, <2>7, Outcomes DEF Bind, Once
<1>4. Results(o, reply) = {deserialize_batches(<<batch>>)}
  <2>1. or_throw(reply) = Val(reply)
    BY DEF or_throw, is_error, make_array
  <2>. HIDE DEF reply, batch
  <2>2. StreamResult(o, reply) = Bind(stream_batches(reply), deserialize_batches)
    BY DEF StreamResult
  <2>3. Bind(stream_batches(reply), deserialize_batches) = deserialize_batches(<<batch>>)
    BY <1>3, Outcomes DEF Bind, Once
  <2>4. Bind(or_throw(reply), LAMBDA r : StreamResult(o, r)) = StreamResult(o, reply)
    BY <2>1, Outcomes DEF Bind, Once
  <2>. QED
    BY <2>2, <2>3, <2>4 DEF Results
<1>5. deserialize_batches(<<batch>>) = IF StreamKey \in DOMAIN deserialize_key THEN Given(list)
                                       ELSE Throw("deserialize")
  <2>. DEFINE batches == <<batch>>
              Then == deserialize_entries(batches[1].entries)
  <2>1. batches # <<>> /\ batches[1].entries = entries /\ batches[1].key = StreamKey
    <3>. HIDE DEF entries
    <3>. QED
      OBVIOUS
  <2>. HIDE DEF batches
  <2>2. deserialize_batches(batches) = Bind(DeserializedName(batches[1].key), LAMBDA key : Then)
    BY <2>1 DEF deserialize_batches
  <2>3. Then = Given(list)
    BY <2>1, EntriesTyped
  <2>. HIDE DEF Then
  <2>4. deserialize_batches(batches) = IF StreamKey \in DOMAIN deserialize_key THEN Then
                                       ELSE Throw("deserialize")
    BY <2>1, <2>2, Outcomes DEF Bind, Once, DeserializedName
  <2>. QED
    BY <2>3, <2>4 DEF batches
<1>6. Batch(list) = reply
  BY DEF Batch
<1>. HIDE DEF reply, batch
<1>. QED
  BY <1>4, <1>5, <1>6

\* So the reply to an xreadgroup tells the ids it holds, in their order.
LEMMA BatchTells ==
    ASSUME NEW o, o.name = "xreadgroup", NEW E, NEW ids \in Seq(E),
           NEW list, IsShown(list, ids)
    PROVE  \A result \in Results(o, Batch(list)) : Tells(ids, result)
<1>1. Tells(ids, Throw("deserialize"))
  BY Outcomes DEF Tells
<1>2. Tells(ids, Given(list))
  <2>. DEFINE typed == [i \in DOMAIN list |-> TypedEntry(list[i])]
  <2>1. DOMAIN list = 1 .. Len(ids) /\ \A i \in 1 .. Len(ids) : list[i].id = ids[i]
    BY DEF IsShown
  <2>2. DOMAIN typed = 1 .. Len(ids)
    BY <2>1
  <2>3. \A i \in 1 .. Len(ids) : typed[i].id = ids[i]
    <3>1. \A e : TypedEntry(e).id = e.id
      BY DEF TypedEntry
    <3>. QED
      BY <2>1, <3>1
  <2>4. Given(list) = Val(TypedEntries(typed)) \/ Given(list) = Throw("deserialize")
    BY DEF Given
  <2>. HIDE DEF typed
  <2>5. [i \in DOMAIN typed |-> typed[i].id] = ids
    BY <2>2, <2>3
  <2>6. TypedEntries(typed).entries = typed
    BY DEF TypedEntries
  <2>7. Tells(ids, Val(TypedEntries(typed)))
    BY <2>5, <2>6, Outcomes DEF Tells
  <2>. QED
    BY <1>1, <2>4, <2>7
<1>. QED
  BY <1>1, <1>2, BatchGiven
-----------------------------------------------------------------------------
(* The invariant.                                                           *)

\* The command that an operation asks for.
ReadingOf(cmd, o) ==
    [cmd |-> cmd, ids |-> o.ids, noack |-> o.options.noack,
     count |-> o.options.count, block_ms |-> o.options.block_ms]

CommandOf(o) ==
    CASE o.name = "xadd" -> [cmd |-> "XADD", options |-> o.options,
                             texts |-> Flat(WrittenFields(o.fields))]
      [] o.name = "xlen" -> [cmd |-> "XLEN"]
      [] o.name = "xrange" ->
             [cmd |-> "XRANGE", from |-> Lowest, to |-> Highest, count |-> o.count]
      [] o.name = "xrevrange" ->
             [cmd |-> "XREVRANGE", from |-> Highest, to |-> Lowest, count |-> o.count]
      [] o.name = "xread" -> ReadingOf("XREAD", o)
      [] o.name = "xreadgroup" -> ReadingOf("XREADGROUP", o)
      [] o.name = "xdel" -> [cmd |-> "XDEL", ids |-> o.ids]
      [] o.name = "xack" -> [cmd |-> "XACK", ids |-> o.ids]
      [] o.name = "xtrim" -> [cmd |-> "XTRIM", trim |-> o.trim]
      [] o.name = "xgroup_create" -> [cmd |-> "CREATE", id |-> o.id, mkstream |-> o.mkstream]
      [] o.name = "xgroup_setid" -> [cmd |-> "SETID", id |-> o.id]
      [] o.name = "xgroup_destroy" -> [cmd |-> "DESTROY"]
      [] o.name = "xgroup_createconsumer" -> [cmd |-> "CREATECONSUMER"]
      [] o.name = "xgroup_delconsumer" -> [cmd |-> "DELCONSUMER"]

Asks(o, m) == o \in StreamOps /\ Rejections(o) = {} /\ m = CommandOf(o)

\* The variables are functions on the clients.
Shape ==
    /\ DOMAIN link = Client /\ DOMAIN req = Client /\ DOMAIN rep = Client
    /\ DOMAIN stray = Client /\ DOMAIN busy = Client /\ DOMAIN op = Client
    /\ DOMAIN outcome = Client /\ DOMAIN taken = Client

ClientOK(c) ==
    /\ req[c] # NoMsg =>
          busy[c] /\ rep[c] = NoMsg /\ taken[c] = <<>> /\ Asks(op[c], req[c])
    /\ rep[c] # NoMsg => busy[c]
    /\ op[c].name = "xreadgroup" => Reads(c)

IInv == ObjectOK(object) /\ Shape /\ \A c \in Client : ClientOK(c)

LEMMA IInvDelivered == IInv => DeliveredOrOwed
<1>. SUFFICES ASSUME IInv, NEW c \in Client,
                     ~busy[c] /\ op[c].name = "xreadgroup" /\ taken[c] # <<>>
              PROVE  IF outcome[c].ok
                     THEN LET given == outcome[c].value.entries
                          IN  [i \in DOMAIN given |-> given[i].id] = taken[c]
                     ELSE /\ outcome[c].error \in {"transport", "deserialize"}
                          /\ ~op[c].options.noack =>
                                Elems(taken[c]) \subseteq object.stream.group[1].pending
  BY DEF DeliveredOrOwed
<1>1. Tells(taken[c], outcome[c])
  BY DEF IInv, ClientOK, Reads
<1>2. ~op[c].options.noack => Pending(object, taken[c])
  BY DEF IInv, ClientOK, Reads
<1>3. \A x, ids : Pending(x, ids) => Elems(ids) \subseteq x.stream.group[1].pending
  BY DEF Pending, Some
<1>. QED
  BY <1>1, <1>2, <1>3 DEF Tells

LEMMA InitIInv == Init => IInv
<1>. SUFFICES ASSUME Init PROVE IInv
  OBVIOUS
<1>1. ObjectOK(object) /\ Shape
  BY DEF Init, Shape, ObjectOK
<1>2. ASSUME NEW c \in Client
      PROVE  ClientOK(c)
  BY DEF Init, ClientOK, NoOp
<1>. QED
  BY <1>1, <1>2 DEF IInv
-----------------------------------------------------------------------------
(* What the server does to a stream.                                        *)

LEMMA EmptyIsStream == IsStream(EmptyStream)
BY DEF IsStream, EmptyStream, HoldsFields

LEMMA StreamOfOK ==
    ASSUME NEW x, ObjectOK(x)
    PROVE  IsStream(StreamOf(x)) /\ (x # NoObject => x = [stream |-> StreamOf(x)])
<1>1. CASE x = NoObject
  BY <1>1, EmptyIsStream DEF StreamOf
<1>2. ASSUME NEW s, IsStream(s), x = [stream |-> s]
      PROVE  IsStream(StreamOf(x)) /\ x = [stream |-> StreamOf(x)]
  <2>1. x # NoObject /\ x.stream = s
    BY <1>2 DEF NoObject
  <2>. QED
    BY <1>2, <2>1 DEF StreamOf
<1>. QED
  BY <1>1, <1>2 DEF ObjectOK

LEMMA StreamObject ==
    ASSUME NEW s, IsStream(s)
    PROVE  ObjectOK([stream |-> s])
BY DEF ObjectOK

\* Entries may go, and a later one may come.
LEMMA WithoutOK ==
    ASSUME NEW s, IsStream(s), NEW ids
    PROVE  IsStream(Without(s, ids)) /\ Without(s, ids).group = s.group
<1>. DEFINE kept == [n \in DOMAIN s.entries \ ids |-> s.entries[n]]
<1>1. Without(s, ids) = [entries |-> kept, last |-> s.last, group |-> s.group]
  BY DEF Without, IsStream
<1>2. DOMAIN kept \subseteq Ids
  BY DEF IsStream
<1>3. \A n \in DOMAIN kept : kept[n] \in FieldTexts
  BY DEF IsStream, HoldsFields
<1>. HIDE DEF kept
<1>. QED
  BY <1>1, <1>2, <1>3 DEF IsStream, HoldsFields

LEMMA TrimmingsOK ==
    ASSUME NEW s, IsStream(s), NEW trim, NEW t \in Trimmings(s, trim)
    PROVE  IsStream(t) /\ t.group = s.group
BY WithoutOK DEF Trimmings

LEMMA Lengthened ==
    ASSUME NEW s, IsStream(s), NEW n, NEW pairs
    PROVE  [s EXCEPT !.last = n, !.entries = Longer(@, n, pairs)]
             = [entries |-> Longer(s.entries, n, pairs), last |-> n, group |-> s.group]
<1>. DEFINE t == [entries |-> s.entries, last |-> n, group |-> s.group]
<1>1. [s EXCEPT !.last = n] = t
  BY DEF IsStream
<1>2. [t EXCEPT !.entries = Longer(@, n, pairs)]
        = [entries |-> Longer(s.entries, n, pairs), last |-> n, group |-> s.group]
  OBVIOUS
<1>. HIDE DEF t
<1>. QED
  BY <1>1, <1>2

LEMMA AdditionsOK ==
    ASSUME NEW s, IsStream(s), NEW pairs \in FieldTexts, NEW options,
           options.id \in Int, NEW t \in Additions(s, pairs, options)
    PROVE  IsStream(t) /\ t.group = s.group
<1>. DEFINE n == IF options.id = NEW_ID THEN s.last + 1 ELSE options.id
            longer == [s EXCEPT !.last = n, !.entries = Longer(@, n, pairs)]
<1>1. t = longer \/ t \in Trimmings(longer, options.trim[1])
  BY DEF Additions
<1>2. longer = [entries |-> Longer(s.entries, n, pairs), last |-> n, group |-> s.group]
  <2>. HIDE DEF n
  <2>. QED
    BY Lengthened
<1>0. n \in Nat /\ n \in Ids
  <2>1. s.last \in Nat /\ n \in Int
    BY DEF IsStream, NEW_ID
  <2>2. ~(n <= s.last \/ n > MaxId)
    BY DEF Additions
  <2>. QED
    BY <2>1, <2>2, StreamAssumption DEF Ids
<1>. HIDE DEF n, longer
<1>3. /\ DOMAIN Longer(s.entries, n, pairs) \subseteq Ids
      /\ \A k \in DOMAIN Longer(s.entries, n, pairs) : Longer(s.entries, n, pairs)[k] \in FieldTexts
  BY <1>0 DEF IsStream, HoldsFields, Longer
<1>4. IsStream(longer) /\ longer.group = s.group
  BY <1>0, <1>2, <1>3 DEF IsStream, HoldsFields
<1>. QED
  BY <1>1, <1>4, TrimmingsOK

\* Groups come, go and move.
LEMMA GroupedOK ==
    ASSUME NEW s, IsStream(s), NEW id, NEW pending, pending \subseteq Ids
    PROVE  ObjectOK(Grouped(s, id, pending))
<1>. DEFINE g == [delivered |-> id, pending |-> pending]
<1>1. Grouped(s, id, pending) = [stream |-> [entries |-> s.entries, last |-> s.last, group |-> Some(g)]]
  BY DEF Grouped, IsStream
<1>2. IsGroup(g)
  BY DEF IsGroup
<1>. HIDE DEF g
<1>3. IsStream([entries |-> s.entries, last |-> s.last, group |-> Some(g)])
  BY <1>2 DEF IsStream, HoldsFields
<1>. QED
  BY <1>1, <1>3, StreamObject

LEMMA Changed ==
    \A x, gone, reply : /\ Change(x, gone, reply).object = x
                        /\ Change(x, gone, reply).taken = gone
                        /\ Change(x, gone, reply).reply = reply
BY DEF Change

LEMMA DoesThat ==
    \A x, ids, shown : /\ Does(x, ids, shown).object = x
                       /\ Does(x, ids, shown).taken = ids
                       /\ Does(x, ids, shown).shown = shown
BY DEF Does

\* Each command leaves a stream, or nothing.
LEMMA CountingOK ==
    \A x, n : Counting(x, n).object = x /\ Counting(x, n).taken = <<>>
BY DoesThat DEF Counting

LEMMA AddingOK ==
    ASSUME NEW x, ObjectOK(x), NEW pairs \in FieldTexts, NEW options,
           options.id \in Int, NEW e \in Adding(x, pairs, options)
    PROVE  ObjectOK(e.object)
<1>1. CASE x = NoObject /\ options.nomkstream
  BY <1>1, DoesThat DEF Adding
<1>2. CASE ~(x = NoObject /\ options.nomkstream)
  <2>1. PICK s \in Additions(StreamOf(x), pairs, options) :
            e = Does([stream |-> s], <<>>, [id |-> Some(s.last)])
    BY <1>2 DEF Adding
  <2>2. IsStream(s)
    BY StreamOfOK, AdditionsOK
  <2>. QED
    BY <2>1, <2>2, DoesThat, StreamObject
<1>. QED
  BY <1>1, <1>2

LEMMA ReadingOK ==
    ASSUME NEW x, ObjectOK(x), NEW m,
           NEW e \in Ranging(x, m.from, m.to, FALSE, m.count)
                     \cup Ranging(x, m.to, m.from, TRUE, m.count)
                     \cup Reading(x, m.ids[1], m)
    PROVE  ObjectOK(e.object)
<1>1. \E shown : e = Does(x, <<>>, shown)
  <2>1. CASE e \in Ranging(x, m.from, m.to, FALSE, m.count) \cup Ranging(x, m.to, m.from, TRUE, m.count)
    BY <2>1, Zenon DEF Ranging
  <2>2. CASE e \in Reading(x, m.ids[1], m)
    BY <2>2, Zenon DEF Reading
  <2>. QED
    BY <2>1, <2>2
<1>. QED
  BY <1>1, DoesThat

\* An ascending list of ids holds nothing else, and so does its beginning.
LEMMA FiniteIds ==
    ASSUME NEW S, S \subseteq Ids
    PROVE  IsFiniteSet(S) /\ Cardinality(S) \in 0 .. MaxId
<1>1. IsFiniteSet(Ids) /\ Cardinality(Ids) = MaxId
  BY StreamAssumption, FS_Interval DEF Ids
<1>. QED
  BY <1>1, FS_Subset, FS_CardinalityType

LEMMA Ranked ==
    ASSUME NEW S, S \subseteq Ids, NEW i \in 1 .. Cardinality(S)
    PROVE  Ascending(S)[i] \in S
<1>. DEFINE below(n) == {m \in S : m < n}
            rank == [n \in S |-> Cardinality(below(n))]
            T == 0 .. Cardinality(S) - 1
<1>1. IsFiniteSet(S) /\ Cardinality(S) \in Nat /\ S \subseteq Int
  <2>1. IsFiniteSet(S) /\ Cardinality(S) \in Nat
    BY FiniteIds
  <2>2. Ids \subseteq Int
    BY DEF Ids
  <2>. QED
    BY <2>1, <2>2
<1>2. \A n \in S : IsFiniteSet(below(n)) /\ Cardinality(below(n)) \in Nat
  BY <1>1, FS_Subset, FS_CardinalityType
<1>3. ASSUME NEW n \in S PROVE Cardinality(below(n)) <= Cardinality(S) - 1
  <2>1. IsFiniteSet(S \ {n}) /\ Cardinality(S \ {n}) = Cardinality(S) - 1
    BY <1>1, FS_RemoveElement
  <2>2. below(n) \subseteq S \ {n}
    BY <1>1
  <2>. HIDE DEF below
  <2>. QED
    BY <2>1, <2>2, FS_Subset
<1>4. ASSUME NEW a \in S, NEW b \in S, a < b
      PROVE  Cardinality(below(a)) < Cardinality(below(b))
  <2>1. below(a) \cup {a} \subseteq below(b) /\ a \notin below(a)
    <3>1. a \in Int /\ b \in Int /\ a < b /\ a \in S
      BY <1>1, <1>4
    <3>2. ASSUME NEW m \in S, m < a PROVE m < b
      <4>1. m \in Int
        BY <1>1
      <4>. QED
        BY <3>1, <3>2, <4>1
    <3>3. ~(a < a)
      BY <3>1
    <3>. QED
      BY <3>1, <3>2, <3>3
  <2>. HIDE DEF below
  <2>2. Cardinality(below(a) \cup {a}) = Cardinality(below(a)) + 1
    BY <1>2, <2>1, FS_AddElement
  <2>3. Cardinality(below(a) \cup {a}) <= Cardinality(below(b))
    BY <1>2, <2>1, FS_Subset
  <2>. QED
    BY <1>2, <2>2, <2>3
<1>5. rank \in Injection(S, T)
  <2>1. rank \in [S -> T]
    <3>. HIDE DEF below
    <3>. QED
      BY <1>1, <1>2, <1>3
  <2>2. \A a, b \in S : rank[a] = rank[b] => a = b
    <3>1. \A a \in S : rank[a] = Cardinality(below(a))
      OBVIOUS
    <3>. HIDE DEF rank, below
    <3>. QED
      BY <1>1, <1>2, <1>4, <3>1
  <2>. HIDE DEF rank, T
  <2>. QED
    BY <2>1, <2>2 DEF Injection, IsInjective
<1>6. IsFiniteSet(T) /\ Cardinality(T) = Cardinality(S)
  <2>. DEFINE k == Cardinality(S) - 1
  <2>1. k \in Int /\ 0 \in Int /\ (IF 0 > k THEN 0 ELSE k - 0 + 1) = Cardinality(S)
    BY <1>1
  <2>. HIDE DEF k
  <2>2. IsFiniteSet(0 .. k) /\ Cardinality(0 .. k) = Cardinality(S)
    BY <2>1, FS_Interval
  <2>. QED
    BY <2>2 DEF k
<1>7. rank \in Surjection(S, T)
  <2>. HIDE DEF rank, T
  <2>. QED
    BY <1>5, <1>6, FS_Injection
<1>8. \E n \in S : Cardinality(below(n)) = i - 1
  <2>1. i - 1 \in T
    BY <1>1
  <2>2. \E n \in S : rank[n] = i - 1
    <3>. HIDE DEF rank, T
    <3>. QED
      BY <1>7, <2>1 DEF Surjection
  <2>. HIDE DEF below
  <2>. QED
    BY <2>2
<1>9. Ascending(S)[i] = CHOOSE n \in S : Cardinality(below(n)) = i - 1
  BY DEF Ascending
<1>. HIDE DEF below
<1>. QED
  BY <1>8, <1>9

LEMMA AscendingIds ==
    ASSUME NEW S, S \subseteq Ids
    PROVE  Ascending(S) \in Seq(Ids)
<1>1. Cardinality(S) \in Nat
  BY FiniteIds
<1>2. DOMAIN Ascending(S) = 1 .. Cardinality(S)
      /\ Ascending(S) = [i \in 1 .. Cardinality(S) |-> Ascending(S)[i]]
  BY DEF Ascending
<1>3. \A i \in 1 .. Cardinality(S) : Ascending(S)[i] \in Ids
  BY Ranked
<1>4. [i \in 1 .. Cardinality(S) |-> Ascending(S)[i]] \in Seq(Ids)
  BY <1>1, <1>3
<1>. QED
  BY <1>2, <1>4

LEMMA FirstIds ==
    ASSUME NEW ids \in Seq(Ids), NEW count, IsLimit(count)
    PROVE  FirstOf(ids, count) \in Seq(Ids)
<1>1. CASE count = None
  BY <1>1 DEF FirstOf
<1>2. ASSUME NEW n \in Nat, count = Some(n)
      PROVE  FirstOf(ids, count) \in Seq(Ids)
  <2>1. count # None /\ count[1] = n
    BY <1>2 DEF Some, None
  <2>2. FirstOf(ids, count) = SubSeq(ids, 1, Least(Len(ids), n))
    BY <2>1 DEF FirstOf
  <2>3. Least(Len(ids), n) \in 0 .. Len(ids)
    BY DEF Least
  <2>. QED
    BY <2>2, <2>3
<1>. QED
  BY <1>1, <1>2 DEF IsLimit

LEMMA OwedIds ==
    ASSUME NEW s, IsStream(s), s.group # None, NEW n
    PROVE  Owed(s, n) \in Seq(Ids) /\ s.group[1].pending \subseteq Ids
<1>1. s.group[1].pending \subseteq Ids /\ DOMAIN s.entries \subseteq Ids
  BY DEF IsStream, IsGroup, Some
<1>2. \A k : {m \in DOMAIN s.entries : m > k} \subseteq Ids
             /\ {m \in s.group[1].pending : m > k} \subseteq Ids
  BY <1>1
<1>. QED
  BY <1>1, <1>2, AscendingIds DEF Owed, NewerThan

LEMMA ReadingGroupOK ==
    ASSUME NEW x, ObjectOK(x), NEW n, NEW m, IsLimit(m.count), NEW e \in ReadingGroup(x, n, m)
    PROVE  ObjectOK(e.object)
<1>. DEFINE s == StreamOf(x)
            ids == FirstOf(Owed(s, n), m.count)
            pending == s.group[1].pending \cup IF m.noack THEN {} ELSE Elems(ids)
<1>1. IsStream(s)
  BY StreamOfOK
<1>2. \/ \E shown : e = Does(x, <<>>, shown)
      \/ s.group # None /\ \E id, shown : e = Does(Grouped(s, id, pending), ids, shown)
  BY Zenon DEF ReadingGroup
<1>3. s.group # None => pending \subseteq Ids
  <2>. HIDE DEF s
  <2>1. s.group # None => ids \in Seq(Ids) /\ s.group[1].pending \subseteq Ids
    BY <1>1, OwedIds, FirstIds
  <2>. HIDE DEF ids
  <2>. QED
    BY <2>1 DEF Elems
<1>. HIDE DEF pending, ids
<1>. QED
  BY <1>1, <1>2, <1>3, DoesThat, GroupedOK

\* A deletion leaves the group as it is.
LEMMA DeletingOK ==
    ASSUME NEW x, ObjectOK(x), NEW ids, NEW e \in Deleting(x, ids)
    PROVE  /\ ObjectOK(e.object)
           /\ e.object = x \/ \E s : /\ x = [stream |-> StreamOf(x)]
                                    /\ e.object = [stream |-> s]
                                    /\ s.group = StreamOf(x).group
<1>. DEFINE there == ids \cap DOMAIN StreamOf(x).entries
<1>1. e = Counting(IF there = {} THEN x ELSE [stream |-> Without(x.stream, there)],
                   Cardinality(there))
  BY DEF Deleting
<1>2. CASE there = {}
  BY <1>1, <1>2, CountingOK
<1>3. CASE there # {}
  <2>1. x # NoObject
    BY <1>3 DEF StreamOf, EmptyStream
  <2>2. x = [stream |-> StreamOf(x)] /\ x.stream = StreamOf(x) /\ IsStream(StreamOf(x))
    BY <2>1, StreamOfOK DEF StreamOf
  <2>. HIDE DEF there
  <2>3. IsStream(Without(x.stream, there)) /\ Without(x.stream, there).group = StreamOf(x).group
    BY <2>2, WithoutOK
  <2>4. e.object = [stream |-> Without(x.stream, there)]
    BY <1>1, <1>3, CountingOK
  <2>. QED
    BY <2>2, <2>3, <2>4, StreamObject
<1>. QED
  BY <1>2, <1>3

LEMMA TrimmingOK ==
    ASSUME NEW x, ObjectOK(x), NEW trim, NEW e \in Trimming(x, trim)
    PROVE  ObjectOK(e.object)
<1>1. CASE x = NoObject
  BY <1>1, CountingOK DEF Trimming
<1>2. CASE x # NoObject
  <2>1. IsStream(x.stream)
    BY <1>2, StreamOfOK DEF StreamOf
  <2>2. PICK s \in Trimmings(x.stream, trim) : \E n : e = Counting([stream |-> s], n)
    BY <1>2, Zenon DEF Trimming
  <2>3. e.object = [stream |-> s]
    BY <2>2, CountingOK
  <2>. QED
    BY <2>1, <2>2, <2>3, TrimmingsOK, StreamObject
<1>. QED
  BY <1>1, <1>2

\* A stream with a group is there.
LEMMA WithGroupOK ==
    ASSUME NEW x, ObjectOK(x), StreamOf(x).group # None
    PROVE  /\ x = [stream |-> StreamOf(x)] /\ x.stream = StreamOf(x)
           /\ IsStream(x.stream)
           /\ x.stream.group = Some(x.stream.group[1])
<1>1. x # NoObject
  BY DEF StreamOf, EmptyStream
<1>2. x = [stream |-> StreamOf(x)] /\ x.stream = StreamOf(x) /\ IsStream(x.stream)
  BY <1>1, StreamOfOK DEF StreamOf
<1>3. x.stream.group = Some(x.stream.group[1])
  BY <1>2 DEF IsStream, Some
<1>. QED
  BY <1>2, <1>3

LEMMA GroupOperationsOK ==
    ASSUME NEW x, ObjectOK(x), NEW m, NEW e \in Creating(x, m.id, m.mkstream)
              \cup Setting(x, m.id) \cup Destroying(x) \cup CreatingConsumer(x)
              \cup DeletingConsumer(x) \cup Acknowledging(x, Elems(m.ids))
    PROVE  ObjectOK(e.object)
<1>1. CASE e \in Creating(x, m.id, m.mkstream)
  <2>1. \A id : ObjectOK(Grouped(StreamOf(x), id, {}))
    BY StreamOfOK, GroupedOK
  <2>. QED
    BY <1>1, <2>1, DoesThat DEF Creating
<1>2. CASE e \in Destroying(x)
  <2>1. x # NoObject
    BY <1>2 DEF Destroying
  <2>2. IsStream(x.stream)
    BY <2>1, StreamOfOK DEF StreamOf
  <2>3. [x.stream EXCEPT !.group = None]
          = [entries |-> x.stream.entries, last |-> x.stream.last, group |-> None]
    BY <2>2 DEF IsStream
  <2>4. IsStream([x.stream EXCEPT !.group = None])
    BY <2>2, <2>3 DEF IsStream, HoldsFields
  <2>5. e.object = [stream |-> [x.stream EXCEPT !.group = None]]
    BY <1>2, <2>1, CountingOK DEF Destroying
  <2>. QED
    BY <2>4, <2>5, StreamObject
<1>3. CASE e \in Setting(x, m.id) \cup CreatingConsumer(x) \cup DeletingConsumer(x)
                 \cup Acknowledging(x, Elems(m.ids))
  <2>1. StreamOf(x).group # None =>
            \A id, pending : pending \subseteq x.stream.group[1].pending
                               => ObjectOK(Grouped(x.stream, id, pending))
    BY WithGroupOK, GroupedOK, OwedIds
  <2>2. CASE e \in Setting(x, m.id)
    BY <2>1, <2>2, DoesThat DEF Setting, WithGroup
  <2>3. CASE e \in CreatingConsumer(x)
    BY <2>3, CountingOK DEF CreatingConsumer, WithGroup
  <2>4. CASE e \in DeletingConsumer(x)
    BY <2>1, <2>4, CountingOK DEF DeletingConsumer, WithGroup
  <2>5. CASE e \in Acknowledging(x, Elems(m.ids))
    BY <2>1, <2>5, CountingOK DEF Acknowledging, WithGroup
  <2>. QED
    BY <1>3, <2>2, <2>3, <2>4, <2>5
<1>. QED
  BY <1>1, <1>2, <1>3

LEMMA ExecuteOK ==
    ASSUME NEW x, ObjectOK(x), NEW o, NEW m, Fits(o, m), NEW e \in Execute(m, x)
    PROVE  ObjectOK(e.object)
<1>1. CASE m.cmd = "XADD"
  <2>. DEFINE pairs == Paired(m.texts).value
  <2>1. e \in Adding(x, pairs, m.options)
    BY <1>1 DEF Execute
  <2>2. pairs \in FieldTexts /\ m.options.id \in Int
    BY <1>1 DEF Fits
  <2>. HIDE DEF pairs
  <2>. QED
    BY <2>1, <2>2, AddingOK
<1>2. CASE m.cmd = "XLEN"
  BY <1>2, CountingOK DEF Execute
<1>3. CASE m.cmd \in {"XRANGE", "XREVRANGE", "XREAD"}
  <2>1. e \in Ranging(x, m.from, m.to, FALSE, m.count)
               \cup Ranging(x, m.to, m.from, TRUE, m.count)
               \cup Reading(x, m.ids[1], m)
    BY <1>3 DEF Execute
  <2>. QED
    BY <2>1, ReadingOK
<1>4. CASE m.cmd = "XREADGROUP"
  <2>1. e \in ReadingGroup(x, m.ids[1], m)
    BY <1>4 DEF Execute
  <2>. QED
    BY <1>4, <2>1, ReadingGroupOK DEF Fits
<1>5. CASE m.cmd = "XDEL"
  <2>1. e \in Deleting(x, Elems(m.ids))
    BY <1>5 DEF Execute
  <2>. QED
    BY <2>1, DeletingOK
<1>6. CASE m.cmd = "XTRIM"
  <2>1. e \in Trimming(x, m.trim)
    BY <1>6 DEF Execute
  <2>. QED
    BY <2>1, TrimmingOK
<1>7. CASE m.cmd \in {"XACK", "CREATE", "SETID", "DESTROY", "CREATECONSUMER", "DELCONSUMER"}
  <2>1. e \in Creating(x, m.id, m.mkstream)
              \cup Setting(x, m.id) \cup Destroying(x) \cup CreatingConsumer(x)
              \cup DeletingConsumer(x) \cup Acknowledging(x, Elems(m.ids))
    BY <1>7 DEF Execute
  <2>. QED
    BY <2>1, GroupOperationsOK
<1>. QED
  BY <1>1, <1>2, <1>3, <1>4, <1>5, <1>6, <1>7 DEF Known, Fits

LEMMA NothingDelivered ==
    ASSUME NEW x, NEW n, NothingNew(x, TRUE, n), NEW m, NEW d \in ReadingGroup(x, n, m)
    PROVE  d = Does(x, <<>>, [list |-> <<>>])
<1>1. StreamOf(x).group # None
  BY DEF NothingNew
<1>2. ReadingGroup(x, n, m) =
        IF m.block_ms = Some(0) THEN {} ELSE {Does(x, <<>>, [list |-> <<>>])}
  BY <1>1, Zenon DEF ReadingGroup
<1>. QED
  BY <1>2

\* The reply to an xreadgroup tells what the group delivered, and that is
\* pending from then on.
LEMMA GroupReadServed ==
    ASSUME ObjectOK(object), NEW o, o.name = "xreadgroup", NEW m, Fits(o, m),
           NEW e \in Effects(m)
    PROVE  /\ \A result \in Results(o, e.reply) : Tells(e.taken, result)
           /\ e.taken # <<>> /\ ~o.options.noack => Pending(e.object, e.taken)
<1>. DEFINE s == StreamOf(object)
            ids == FirstOf(Owed(s, NEW_ID), m.count)
            pending == s.group[1].pending \cup IF m.noack THEN {} ELSE Elems(ids)
<1>0. \A result : Tells(<<>>, result)
  BY DEF Tells
<1>1. CASE e.taken = <<>>
  BY <1>0, <1>1
<1>2. CASE e.taken # <<>>
  <2>1. PICK d \in Execute(m, object) : e = Change(d.object, d.taken, Reply(m, d.shown))
    BY <1>2, Changed DEF Effects, Refused
  <2>2. d \in ReadingGroup(object, m.ids[1], m) /\ m.cmd = "XREADGROUP"
    BY <2>1 DEF Execute, Fits
  <2>3. /\ s.group # None
        /\ ~NothingNew(object, TRUE, m.ids[1])
        /\ d = Does(Grouped(s, ids[Len(ids)], pending), ids, Showing(s, ids))
    <3>1. d.taken # <<>>
      BY <1>2, <2>1, Changed
    <3>2. m.ids[1] = NEW_ID =>
            d \in {Does(object, <<>>, [list |-> <<>>]),
                   Does(Grouped(s, ids[Len(ids)], pending), ids, Showing(s, ids))}
      BY <2>2, Zenon DEF ReadingGroup
    <3>3. m.ids[1] # NEW_ID => \E shown : d = Does(object, <<>>, shown)
      BY <2>2, Zenon DEF ReadingGroup
    <3>4. d = Does(Grouped(s, ids[Len(ids)], pending), ids, Showing(s, ids))
      <4>. HIDE DEF s, ids, pending
      <4>. QED
        BY <3>1, <3>2, <3>3, DoesThat
    <3>5. s.group # None
      BY <2>2, Zenon DEF ReadingGroup
    <3>6. ~NothingNew(object, TRUE, m.ids[1])
      <4>1. NothingNew(object, TRUE, m.ids[1]) => d = Does(object, <<>>, [list |-> <<>>])
        BY <2>2, NothingDelivered
      <4>2. Does(object, <<>>, [list |-> <<>>]).taken = <<>>
        BY DoesThat
      <4>. QED
        BY <3>1, <4>1, <4>2, Zenon
    <3>. QED
      BY <3>4, <3>5, <3>6
  <2>4. IsStream(s)
    BY StreamOfOK
  <2>5. ids \in Seq(Ids)
    <3>. HIDE DEF s
    <3>. QED
      BY <2>2, <2>3, <2>4, OwedIds, FirstIds DEF Fits
  <2>. HIDE DEF ids, s
  <2>6. PICK list : Showing(s, ids) = [list |-> list] /\ IsShown(list, ids)
    BY <2>4, <2>5, ShowingShown DEF IsStream
  <2>7. /\ e.object = Grouped(s, ids[Len(ids)], pending) /\ e.taken = ids
        /\ e.reply = Reply(m, [list |-> list])
    <3>. HIDE DEF pending
    <3>. QED
      BY <2>1, <2>3, <2>6, DoesThat, Changed
  <2>8. e.reply = Batch(list)
    <3>. DEFINE shown == [list |-> list]
    <3>1. /\ "count" \notin DOMAIN shown /\ "id" \notin DOMAIN shown
          /\ "done" \notin DOMAIN shown /\ "list" \in DOMAIN shown /\ shown.list = list
      OBVIOUS
    <3>. HIDE DEF shown
    <3>2. m.cmd \in {"XREAD", "XREADGROUP"} /\ ~NothingNew(object, m.cmd = "XREADGROUP", m.ids[1])
      BY <2>2, <2>3
    <3>3. Reply(m, shown) =
            IF m.cmd \notin {"XREAD", "XREADGROUP"} THEN EntryArray(shown.list)
            ELSE IF NothingNew(object, m.cmd = "XREADGROUP", m.ids[1]) THEN make_nil
            ELSE make_array(<<make_array(<<make_string(StreamKey), EntryArray(shown.list)>>)>>)
      BY <3>1, Zenon DEF Reply
    <3>4. Reply(m, shown) = Batch(shown.list)
      BY <3>2, <3>3, Zenon DEF Batch
    <3>. QED
      BY <2>7, <3>1, <3>4 DEF shown
  <2>9. \A result \in Results(o, e.reply) : Tells(e.taken, result)
    BY <2>5, <2>6, <2>7, <2>8, BatchTells
  <2>10. ~m.noack => Pending(e.object, e.taken)
    <3>. DEFINE g == [delivered |-> ids[Len(ids)], pending |-> pending]
                t == [s EXCEPT !.group = Some(g)]
    <3>1. Grouped(s, ids[Len(ids)], pending) = [stream |-> t]
      BY DEF Grouped
    <3>2. t.group = Some(g)
      BY <2>4 DEF IsStream
    <3>3. ~m.noack => Elems(ids) \subseteq g.pending
      OBVIOUS
    <3>. HIDE DEF t, g, pending
    <3>. QED
      BY <2>7, <3>1, <3>2, <3>3 DEF Pending
  <2>. QED
    BY <2>9, <2>10 DEF Fits
<1>. QED
  BY <1>1, <1>2
-----------------------------------------------------------------------------
(* Every call asks for what its operation says, or ends at once.            *)

\* A call that sends nothing is rejected, or has nothing to do.
Sound(o, command) ==
    /\ o \in StreamOps
    /\ command.ok => Asks(o, command.value)
    /\ ~command.ok => \/ OutcomeOf(command) \in Rejections(o)
                      \/ o.name \in {"xdel", "xack"} /\ o.ids = <<>>
                         /\ OutcomeOf(command) = Val(Count(0))

SoundCall(c) == \E o, command : Sound(o, command) /\ Call(c, o, command)

IsNumber(n) == n = None \/ (n = Some(n[1]) /\ n[1] \in Int)

LEMMA NumbersChecked ==
    ASSUME NEW n, IsNumber(n)
    PROVE  /\ append_stream_count(n) <=> ~WrongNumber(n, 1)
           /\ append_stream_block(n) <=> ~WrongNumber(n, 0)
           /\ append_stream_count(n) => IsLimit(n)
<1>1. CASE n = None
  BY <1>1 DEF append_stream_count, append_stream_block, WrongNumber, IsLimit
<1>2. ASSUME NEW k \in Int, n = Some(k)
      PROVE  /\ append_stream_count(n) <=> ~WrongNumber(n, 1)
             /\ append_stream_block(n) <=> ~WrongNumber(n, 0)
             /\ append_stream_count(n) => IsLimit(n)
  <2>1. n # None /\ n[1] = k
    BY <1>2 DEF Some, None
  <2>2. k > 0 => IsLimit(n)
    <3>1. k > 0 => k \in Nat
      OBVIOUS
    <3>. QED
      BY <1>2, <3>1 DEF IsLimit
  <2>. QED
    BY <2>1, <2>2 DEF append_stream_count, append_stream_block, WrongNumber
<1>. QED
  BY <1>1, <1>2 DEF IsNumber

LEMMA TrimChecked ==
    ASSUME NEW trim, IsNumber(trim.limit)
    PROVE  append_stream_trim(trim) <=> ~WrongTrim(trim)
<1>1. trim.limit # None => trim.limit[1] \in Int
  BY DEF IsNumber
<1>. QED
  BY <1>1 DEF append_stream_trim, WrongTrim

LEMMA InputTypes ==
    /\ \A fields \in FieldVectors : fields \in Seq(Name \X Value)
    /\ \A options \in AddOptions :
          /\ options.id \in Int
          /\ options.trim = None \/ options.trim = Some(options.trim[1])
          /\ options.trim # None => IsNumber(options.trim[1].limit)
    /\ \A trim \in TrimOptions : IsNumber(trim.limit)
    /\ \A options \in ReadOptions : IsNumber(options.count) /\ IsNumber(options.block_ms)
    /\ \A count \in RangeCounts : IsNumber(count)
    /\ \A ids \in ReadRequests : ids = <<>> \/ ids = <<ids[1]>>
BY StreamAssumption DEF IsNumber

\* What is rejected.
Wrong(o) ==
    CASE o.name = "xadd" ->
             \/ o.fields = <<>> \/ o.options.id = EMPTY_ID
             \/ \E i \in DOMAIN o.options.trim : WrongTrim(o.options.trim[i])
      [] o.name \in {"xrange", "xrevrange"} -> WrongNumber(o.count, 1)
      [] o.name \in {"xread", "xreadgroup"} ->
             \/ WrongNumber(o.options.count, 1) \/ WrongNumber(o.options.block_ms, 0)
             \/ o.ids \in {<<>>, <<EMPTY_ID>>}
      [] o.name = "xtrim" -> WrongTrim(o.trim)
      [] OTHER -> FALSE

Unwritable(o) == o.name = "xadd" /\ \E i \in DOMAIN o.fields : ~Writable(o.fields[i])

LEMMA Rejected ==
    ASSUME NEW o
    PROVE  /\ Rejections(o) = {} <=> ~Wrong(o) /\ ~Unwritable(o)
           /\ Wrong(o) => Throw("invalid_argument") \in Rejections(o)
           /\ Unwritable(o) => Throw("serialize") \in Rejections(o)
<1>1. Rejections(o) = (IF Wrong(o) THEN {Throw("invalid_argument")} ELSE {})
                      \cup (IF Unwritable(o) THEN {Throw("serialize")} ELSE {})
  BY DEF Rejections, Wrong, Unwritable
<1>. QED
  BY <1>1

\* A call that is checked first, and one that is not.
LEMMA CheckedSound ==
    ASSUME NEW o \in StreamOps, ~Unwritable(o), NEW good, good <=> ~Wrong(o)
    PROVE  Sound(o, Checked(good, CommandOf(o)))
<1>. DEFINE m == CommandOf(o)
<1>1. Checked(good, m) = IF good THEN Val(m) ELSE Throw("invalid_argument")
  BY DEF Checked
<1>2. CASE good
  <2>1. Rejections(o) = {}
    BY <1>2, Rejected
  <2>. HIDE DEF m
  <2>2. Checked(good, m) = Val(m)
    BY <1>1, <1>2
  <2>. QED
    BY <2>1, <2>2, Outcomes DEF Sound, Asks, m
<1>3. CASE ~good
  <2>1. Throw("invalid_argument") \in Rejections(o)
    BY <1>3, Rejected
  <2>2. Checked(good, m) = Throw("invalid_argument")
    BY <1>1, <1>3
  <2>3. OutcomeOf(Throw("invalid_argument")) = Throw("invalid_argument")
    BY DEF OutcomeOf, Throw
  <2>. QED
    BY <2>1, <2>2, <2>3, Outcomes DEF Sound
<1>. QED
  BY <1>2, <1>3

LEMMA SentSound ==
    ASSUME NEW o \in StreamOps, ~Unwritable(o), ~Wrong(o)
    PROVE  Sound(o, Val(CommandOf(o)))
<1>1. Rejections(o) = {}
  BY Rejected
<1>. DEFINE m == CommandOf(o)
<1>. HIDE DEF m
<1>2. Sound(o, Val(m))
  BY <1>1, Outcomes DEF Sound, Asks, m
<1>. QED
  BY <1>2 DEF m

\* A name or a value that cannot be serialised makes the call throw.
LEMMA FieldWritten ==
    ASSUME NEW field
    PROVE  SerializedField(field) =
             IF Writable(field) THEN Val(WrittenField(field)) ELSE Throw("serialize")
<1>. DEFINE Made(name, value) == Val(<<name, value>>)
            Then(name) == Bind(Serialized(field[2]), LAMBDA value : Made(name, value))
            name == serialize_key[field[1]]
            value == serialize_value[field[2]]
<1>1. SerializedField(field) = Bind(SerializedName(field[1]), LAMBDA n : Then(n))
  BY DEF SerializedField
<1>2. ASSUME field[1] \notin DOMAIN serialize_key
      PROVE  SerializedField(field) = Throw("serialize")
  <2>1. SerializedName(field[1]) = Throw("serialize")
    BY <1>2 DEF SerializedName
  <2>. HIDE DEF Then
  <2>. QED
    BY <1>1, <2>1, Outcomes DEF Bind, Once
<1>3. ASSUME field[1] \in DOMAIN serialize_key
      PROVE  SerializedField(field) = Then(name)
  <2>1. SerializedName(field[1]) = Val(name)
    BY <1>3 DEF SerializedName
  <2>. HIDE DEF Then, name
  <2>. QED
    BY <1>1, <2>1, Outcomes DEF Bind, Once
<1>4. ASSUME field[2] \notin DOMAIN serialize_value
      PROVE  Then(name) = Throw("serialize")
  <2>1. Serialized(field[2]) = Throw("serialize")
    BY <1>4 DEF Serialized
  <2>. HIDE DEF Made, name
  <2>. QED
    BY <2>1, Outcomes DEF Bind, Once
<1>5. ASSUME field[2] \in DOMAIN serialize_value
      PROVE  Then(name) = Made(name, value)
  <2>1. Serialized(field[2]) = Val(value)
    BY <1>5 DEF Serialized
  <2>. HIDE DEF Made, name, value
  <2>. QED
    BY <2>1, Outcomes DEF Bind, Once
<1>6. Made(name, value) = Val(WrittenField(field))
  BY DEF WrittenField
<1>. HIDE DEF Made, Then, name, value
<1>. QED
  BY <1>2, <1>3, <1>4, <1>5, <1>6 DEF Writable

LEMMA Written ==
    ASSUME NEW fields \in Seq(Name \X Value)
    PROVE  DecodeAll(fields, SerializedField) =
             IF \A i \in DOMAIN fields : Writable(fields[i])
             THEN Val(WrittenFields(fields)) ELSE Throw("serialize")
<1>. DEFINE n == Len(fields)
            results == [i \in DOMAIN fields |-> SerializedField(fields[i])]
            texts == WrittenFields(fields)
            bad == {i \in DOMAIN fields : ~Writable(fields[i])}
<1>1. n \in Nat /\ DOMAIN fields = 1 .. n
  OBVIOUS
<1>2. DecodeAll(fields, SerializedField) = Collected(results)
  BY DEF DecodeAll, Once
<1>3. EachGives(results, n, texts, bad, "serialize")
  <2>1. DOMAIN results = 1 .. n
    BY <1>1
  <2>2. ASSUME NEW i \in 1 .. n
        PROVE  results[i] = IF i \in bad THEN Throw("serialize") ELSE Val(texts[i])
    <3>. DEFINE field == fields[i]
    <3>1. results[i] = SerializedField(field) /\ texts[i] = WrittenField(field)
          /\ (i \in bad <=> ~Writable(field))
      BY <1>1 DEF WrittenFields
    <3>. HIDE DEF results, texts, bad, field
    <3>. QED
      BY <3>1, FieldWritten
  <2>. HIDE DEF results, texts, bad
  <2>. QED
    BY <2>1, <2>2 DEF EachGives
<1>4. bad \cap (1 .. n) = {} <=> \A i \in DOMAIN fields : Writable(fields[i])
  BY <1>1
<1>5. [i \in 1 .. n |-> texts[i]] = texts
  BY <1>1 DEF WrittenFields
<1>. HIDE DEF results, texts, bad, n
<1>6. Collected(results) = IF bad \cap (1 .. n) = {} THEN Val([i \in 1 .. n |-> texts[i]])
                           ELSE Throw("serialize")
  BY <1>1, <1>3, CollectedAll
<1>. QED
  BY <1>2, <1>4, <1>5, <1>6 DEF texts

LEMMA WrittenTexts ==
    ASSUME NEW fields \in Seq(Name \X Value), \A i \in DOMAIN fields : Writable(fields[i])
    PROVE  WrittenFields(fields) \in FieldTexts
<1>. DEFINE n == Len(fields)
<1>1. n \in Nat /\ DOMAIN fields = 1 .. n
  OBVIOUS
<1>2. WrittenFields(fields) = [i \in 1 .. n |-> WrittenField(fields[i])]
  BY <1>1 DEF WrittenFields
<1>3. \A field : Writable(field) => WrittenField(field) \in Text \X Text
  BY TypedAssumption, StreamAssumption DEF Writable, WrittenField
<1>4. \A i \in 1 .. n : WrittenField(fields[i]) \in Text \X Text
  BY <1>1, <1>3
<1>. HIDE DEF n
<1>5. [i \in 1 .. n |-> WrittenField(fields[i])] \in Seq(Text \X Text)
  BY <1>1, <1>4
<1>. QED
  BY <1>2, <1>5 DEF FieldTexts

LEMMA AddSound ==
    ASSUME NEW c, NEW fields \in FieldVectors, NEW options \in AddOptions,
           xadd(c, fields, options)
    PROVE  SoundCall(c)
<1>. DEFINE o == [name |-> "xadd", fields |-> fields, options |-> options]
            good(pairs) == /\ pairs # <<>> /\ options.id # EMPTY_ID
                           /\ options.trim # None => append_stream_trim(options.trim[1])
            m(pairs) == [cmd |-> "XADD", texts |-> Flat(pairs), options |-> options]
            Step(pairs) == Checked(good(pairs), m(pairs))
            command == Bind(DecodeAll(fields, SerializedField), LAMBDA pairs : Step(pairs))
            written == WrittenFields(fields)
<1>1. Call(c, o, command)
  BY DEF xadd
<1>2. o \in StreamOps
  BY DEF StreamOps
<1>3. /\ fields \in Seq(Name \X Value)
      /\ options.trim = None \/ options.trim = Some(options.trim[1])
      /\ options.trim # None => IsNumber(options.trim[1].limit)
  BY InputTypes
<1>4. Unwritable(o) <=> ~\A i \in DOMAIN fields : Writable(fields[i])
  BY DEF Unwritable
<1>5. Wrong(o) <=> \/ fields = <<>> \/ options.id = EMPTY_ID
                   \/ \E i \in DOMAIN options.trim : WrongTrim(options.trim[i])
  BY DEF Wrong
<1>6. CASE Unwritable(o)
  <2>1. DecodeAll(fields, SerializedField) = Throw("serialize")
    BY <1>3, <1>4, <1>6, Written
  <2>2. Throw("serialize") \in Rejections(o)
    BY <1>6, Rejected
  <2>3. OutcomeOf(Throw("serialize")) = Throw("serialize")
    BY DEF OutcomeOf, Throw
  <2>. HIDE DEF o, Step
  <2>4. command = Throw("serialize")
    BY <2>1, Outcomes DEF Bind, Once
  <2>5. Sound(o, command)
    BY <1>2, <2>2, <2>3, <2>4, Outcomes DEF Sound
  <2>. HIDE DEF command
  <2>. QED
    BY <1>1, <2>5 DEF SoundCall
<1>7. CASE ~Unwritable(o)
  <2>1. DecodeAll(fields, SerializedField) = Val(written)
    BY <1>3, <1>4, <1>7, Written
  <2>2. m(written) = CommandOf(o)
    BY DEF CommandOf
  <2>3. good(written) <=> ~Wrong(o)
    <3>1. written = <<>> <=> fields = <<>>
      <4>1. DOMAIN written = DOMAIN fields /\ DOMAIN fields = 1 .. Len(fields)
        BY <1>3 DEF WrittenFields
      <4>2. written = [i \in DOMAIN fields |-> WrittenField(fields[i])]
        BY DEF WrittenFields
      <4>. QED
        BY <1>3, <4>1, <4>2
    <3>2. (\E i \in DOMAIN options.trim : WrongTrim(options.trim[i]))
            <=> options.trim # None /\ ~append_stream_trim(options.trim[1])
      <4>1. CASE options.trim = None
        <5>1. DOMAIN options.trim = {}
          BY <4>1 DEF None
        <5>. QED
          BY <4>1, <5>1
      <4>2. CASE options.trim # None
        <5>1. DOMAIN options.trim = {1}
          BY <1>3, <4>2 DEF Some
        <5>. QED
          BY <1>3, <4>2, <5>1, TrimChecked
      <4>. QED
        BY <4>1, <4>2
    <3>. HIDE DEF written
    <3>. QED
      BY <1>5, <3>1, <3>2
  <2>. HIDE DEF o, m, good, written
  <2>3a. Sound(o, Checked(good(written), CommandOf(o)))
    BY <1>2, <1>7, <2>3, CheckedSound
  <2>4. Sound(o, Step(written))
    BY <2>2, <2>3a
  <2>. HIDE DEF Step
  <2>5. command = Step(written)
    BY <2>1, Outcomes DEF Bind, Once
  <2>. HIDE DEF command
  <2>. QED
    BY <1>1, <2>4, <2>5 DEF SoundCall
<1>. QED
  BY <1>6, <1>7

LEMMA ReadSound ==
    ASSUME NEW c, NEW ids \in ReadRequests, NEW options \in ReadOptions,
           xread(c, ids, options) \/ xreadgroup(c, ids, options)
    PROVE  SoundCall(c)
<1>. DEFINE good == append_stream_count(options.count) /\ append_stream_block(options.block_ms)
                        /\ append_streams(ids)
            m(cmd) == [cmd |-> cmd, ids |-> ids, noack |-> options.noack,
                       count |-> options.count, block_ms |-> options.block_ms]
            o(name) == [name |-> name, ids |-> ids, options |-> options]
<1>1. \A cmd : ReadCommand(cmd, ids, options) = Checked(good, m(cmd))
  BY DEF ReadCommand, CheckedRead
<1>2. append_streams(ids) <=> ids \notin {<<>>, <<EMPTY_ID>>}
  <2>1. ids = <<>> \/ ids = <<ids[1]>>
    BY InputTypes
  <2>2. \A n : <<n>> # <<>> /\ DOMAIN <<n>> = {1} /\ <<n>>[1] = n
    OBVIOUS
  <2>3. CASE ids = <<>>
    BY <2>3 DEF append_streams
  <2>4. ASSUME NEW n, ids = <<n>>
        PROVE  append_streams(ids) <=> ids \notin {<<>>, <<EMPTY_ID>>}
    <3>1. ids = <<EMPTY_ID>> <=> n = EMPTY_ID
      BY <2>2, <2>4
    <3>2. append_streams(ids) <=> n # EMPTY_ID
      BY <2>2, <2>4 DEF append_streams
    <3>. QED
      BY <2>2, <2>4, <3>1, <3>2
  <2>. QED
    BY <2>1, <2>3, <2>4
<1>3. ASSUME NEW name \in {"xread", "xreadgroup"}
      PROVE  /\ o(name) \in StreamOps /\ ~Unwritable(o(name))
             /\ good <=> ~Wrong(o(name))
  <2>1. o(name) \in StreamOps
    BY DEF StreamOps
  <2>2. Wrong(o(name)) <=>
           \/ WrongNumber(options.count, 1) \/ WrongNumber(options.block_ms, 0)
           \/ ids \in {<<>>, <<EMPTY_ID>>}
    BY DEF Wrong
  <2>. QED
    BY <1>2, <2>1, <2>2, InputTypes, NumbersChecked DEF Unwritable
<1>4. m("XREAD") = CommandOf(o("xread")) /\ m("XREADGROUP") = CommandOf(o("xreadgroup"))
  BY DEF CommandOf, ReadingOf
<1>5. CASE xread(c, ids, options)
  <2>1. Call(c, o("xread"), Checked(good, m("XREAD")))
    BY <1>1, <1>5 DEF xread
  <2>. HIDE DEF o, m, good
  <2>. QED
    BY <1>3, <1>4, <2>1, CheckedSound DEF SoundCall
<1>6. CASE xreadgroup(c, ids, options)
  <2>1. Call(c, o("xreadgroup"), Checked(good, m("XREADGROUP")))
    BY <1>1, <1>6 DEF xreadgroup
  <2>. HIDE DEF o, m, good
  <2>. QED
    BY <1>3, <1>4, <2>1, CheckedSound DEF SoundCall
<1>. QED
  BY <1>5, <1>6

LEMMA RangeSound ==
    ASSUME NEW c, NEW count \in RangeCounts, xrange(c, count) \/ xrevrange(c, count)
    PROVE  SoundCall(c)
<1>. DEFINE o(name) == [name |-> name, count |-> count]
            good == append_stream_count(count)
<1>1. ASSUME NEW name \in {"xrange", "xrevrange"}
      PROVE  o(name) \in StreamOps /\ ~Unwritable(o(name)) /\ (good <=> ~Wrong(o(name)))
  <2>1. o(name) \in StreamOps
    BY DEF StreamOps
  <2>2. Wrong(o(name)) <=> WrongNumber(count, 1)
    BY DEF Wrong
  <2>. QED
    BY <2>1, <2>2, InputTypes, NumbersChecked DEF Unwritable
<1>2. CASE xrange(c, count)
  <2>1. Call(c, o("xrange"), Checked(good, CommandOf(o("xrange"))))
    BY <1>2 DEF xrange, Ranged, CommandOf
  <2>. HIDE DEF o, good
  <2>. QED
    BY <1>1, <2>1, CheckedSound DEF SoundCall
<1>3. CASE xrevrange(c, count)
  <2>1. Call(c, o("xrevrange"), Checked(good, CommandOf(o("xrevrange"))))
    BY <1>3 DEF xrevrange, Ranged, CommandOf
  <2>. HIDE DEF o, good
  <2>. QED
    BY <1>1, <2>1, CheckedSound DEF SoundCall
<1>. QED
  BY <1>2, <1>3

LEMMA ListedSound ==
    ASSUME NEW c, NEW ids \in IdVectors, xdel(c, ids) \/ xack(c, ids)
    PROVE  SoundCall(c)
<1>. DEFINE o(name) == [name |-> name, ids |-> ids]
            command(name) == IF ids = <<>> THEN Done(Count(0)) ELSE Val(CommandOf(o(name)))
<1>1. ASSUME NEW name \in {"xdel", "xack"}
      PROVE  Sound(o(name), command(name))
  <2>1. o(name) \in StreamOps /\ o(name).name = name /\ o(name).ids = ids
    BY DEF StreamOps
  <2>2. ~Wrong(o(name)) /\ ~Unwritable(o(name))
    BY DEF Wrong, Unwritable
  <2>3. ~Done(Count(0)).ok /\ OutcomeOf(Done(Count(0))) = Val(Count(0))
    BY DEF Done, OutcomeOf
  <2>. HIDE DEF o
  <2>4. CASE ids = <<>>
    BY <2>1, <2>3, <2>4 DEF Sound
  <2>5. CASE ids # <<>>
    BY <2>1, <2>2, <2>5, SentSound
  <2>. QED
    BY <2>4, <2>5
<1>2. CASE xdel(c, ids)
  <2>1. Call(c, o("xdel"), command("xdel"))
    BY <1>2 DEF xdel, Listed, CommandOf
  <2>. HIDE DEF o, command
  <2>. QED
    BY <1>1, <2>1 DEF SoundCall
<1>3. CASE xack(c, ids)
  <2>1. Call(c, o("xack"), command("xack"))
    BY <1>3 DEF xack, Listed, CommandOf
  <2>. HIDE DEF o, command
  <2>. QED
    BY <1>1, <2>1 DEF SoundCall
<1>. QED
  BY <1>2, <1>3

LEMMA TrimSound ==
    ASSUME NEW c, NEW trim \in TrimOptions, xtrim(c, trim)
    PROVE  SoundCall(c)
<1>. DEFINE o == [name |-> "xtrim", trim |-> trim]
            good == append_stream_trim(trim)
<1>1. o \in StreamOps
  BY DEF StreamOps
<1>2. ~Unwritable(o) /\ (good <=> ~Wrong(o))
  <2>1. Wrong(o) <=> WrongTrim(trim)
    BY DEF Wrong
  <2>. QED
    BY <2>1, InputTypes, TrimChecked DEF Unwritable
<1>3. Call(c, o, Checked(good, CommandOf(o)))
  BY DEF xtrim, CommandOf
<1>. HIDE DEF o, good
<1>. QED
  BY <1>1, <1>2, <1>3, CheckedSound DEF SoundCall

LEMMA PlainSound ==
    ASSUME NEW c
    PROVE  /\ xlen(c) => SoundCall(c)
           /\ \A id \in {Lowest, LAST_ID}, mkstream \in BOOLEAN :
                 xgroup_create(c, id, mkstream) => SoundCall(c)
           /\ \A id \in {Lowest, LAST_ID} : xgroup_setid(c, id) => SoundCall(c)
           /\ xgroup_destroy(c) \/ xgroup_createconsumer(c) \/ xgroup_delconsumer(c)
                => SoundCall(c)
<1>1. ASSUME NEW o \in StreamOps, Call(c, o, Val(CommandOf(o))),
             o.name \notin {"xadd", "xrange", "xrevrange", "xread", "xreadgroup", "xtrim"}
      PROVE  SoundCall(c)
  <2>1. ~Wrong(o) /\ ~Unwritable(o)
    BY <1>1 DEF Wrong, Unwritable
  <2>. QED
    BY <1>1, <2>1, SentSound DEF SoundCall
<1>2. ASSUME xlen(c) PROVE SoundCall(c)
  <2>. DEFINE o == [name |-> "xlen"]
  <2>1. o \in StreamOps /\ Call(c, o, Val(CommandOf(o)))
        /\ o.name \notin {"xadd", "xrange", "xrevrange", "xread", "xreadgroup", "xtrim"}
    BY <1>2 DEF StreamOps, CommandOf, xlen
  <2>. HIDE DEF o
  <2>. QED
    BY <1>1, <2>1
<1>3. ASSUME NEW id \in {Lowest, LAST_ID}, NEW mkstream \in BOOLEAN,
             xgroup_create(c, id, mkstream)
      PROVE  SoundCall(c)
  <2>. DEFINE o == [name |-> "xgroup_create", id |-> id, mkstream |-> mkstream]
  <2>1. o \in StreamOps /\ Call(c, o, Val(CommandOf(o)))
        /\ o.name \notin {"xadd", "xrange", "xrevrange", "xread", "xreadgroup", "xtrim"}
    BY <1>3 DEF StreamOps, CommandOf, xgroup_create
  <2>. HIDE DEF o
  <2>. QED
    BY <1>1, <2>1
<1>4. ASSUME NEW id \in {Lowest, LAST_ID}, xgroup_setid(c, id)
      PROVE  SoundCall(c)
  <2>. DEFINE o == [name |-> "xgroup_setid", id |-> id]
  <2>1. o \in StreamOps /\ Call(c, o, Val(CommandOf(o)))
        /\ o.name \notin {"xadd", "xrange", "xrevrange", "xread", "xreadgroup", "xtrim"}
    BY <1>4 DEF StreamOps, CommandOf, xgroup_setid
  <2>. HIDE DEF o
  <2>. QED
    BY <1>1, <2>1
<1>5. ASSUME xgroup_destroy(c) \/ xgroup_createconsumer(c) \/ xgroup_delconsumer(c)
      PROVE  SoundCall(c)
  <2>. DEFINE o(name) == [name |-> name]
              Plain(name) == /\ o(name) \in StreamOps /\ Call(c, o(name), Val(CommandOf(o(name))))
                             /\ o(name).name \notin {"xadd", "xrange", "xrevrange", "xread",
                                                     "xreadgroup", "xtrim"}
  <2>1. xgroup_destroy(c) => Plain("xgroup_destroy")
    BY DEF StreamOps, CommandOf, xgroup_destroy, Group
  <2>2. xgroup_createconsumer(c) => Plain("xgroup_createconsumer")
    BY DEF StreamOps, CommandOf, xgroup_createconsumer, Group
  <2>3. xgroup_delconsumer(c) => Plain("xgroup_delconsumer")
    BY DEF StreamOps, CommandOf, xgroup_delconsumer, Group
  <2>4. \A name : Plain(name) => SoundCall(c)
    <3>. HIDE DEF o
    <3>. QED
      BY <1>1
  <2>. HIDE DEF Plain
  <2>. QED
    BY <1>5, <2>1, <2>2, <2>3, <2>4
<1>. QED
  BY <1>2, <1>3, <1>4, <1>5

LEMMA StreamCallSound ==
    ASSUME NEW c, StreamCall(c)
    PROVE  ~busy[c] /\ SoundCall(c)
BY AddSound, ReadSound, RangeSound, ListedSound, TrimSound, PlainSound DEF StreamCall

\* What is asked for can be served.
LEMMA AskedFits ==
    ASSUME NEW o, NEW m, Asks(o, m)
    PROVE  Fits(o, m)
<1>1. o \in StreamOps /\ ~Wrong(o) /\ m = CommandOf(o)
  BY Rejected DEF Asks
<1>2. CASE o \in [name : {"xadd"}, fields : FieldVectors, options : AddOptions]
  <2>1. m.cmd = "XADD" /\ m.options = o.options /\ o.options \in AddOptions /\ o.name = "xadd"
    BY <1>1, <1>2 DEF CommandOf
  <2>. DEFINE p == WrittenFields(o.fields)
  <2>2. o.fields \in Seq(Name \X Value) /\ \A i \in DOMAIN o.fields : Writable(o.fields[i])
    <3>1. ~Unwritable(o)
      BY Rejected DEF Asks
    <3>. QED
      BY <1>2, <2>1, <3>1, InputTypes DEF Unwritable
  <2>3. m.texts = Flat(p)
    BY <1>1, <2>1 DEF CommandOf
  <2>4. p \in FieldTexts
    BY <2>2, WrittenTexts
  <2>. HIDE DEF p
  <2>5. Paired(m.texts).value \in FieldTexts
    BY <2>3, <2>4, PairedAgain, Outcomes
  <2>. QED
    BY <2>1, <2>5, InputTypes DEF Fits, Known
<1>3. CASE o \in [name : {"xrange", "xrevrange"}, count : RangeCounts]
  <2>1. o.name \in {"xrange", "xrevrange"} /\ o.count \in RangeCounts
    BY <1>3
  <2>2. m.cmd \in {"XRANGE", "XREVRANGE"} /\ m.count = o.count
    BY <1>1, <2>1 DEF CommandOf
  <2>3. ~WrongNumber(o.count, 1)
    BY <1>1, <2>1 DEF Wrong
  <2>4. IsLimit(o.count)
    BY <2>1, <2>3, InputTypes, NumbersChecked
  <2>. QED
    BY <2>1, <2>2, <2>4 DEF Fits, Known
<1>4. CASE o \in [name : {"xread", "xreadgroup"}, ids : ReadRequests, options : ReadOptions]
  <2>1. o.name \in {"xread", "xreadgroup"} /\ o.options \in ReadOptions
    BY <1>4
  <2>2. /\ m.cmd = (IF o.name = "xread" THEN "XREAD" ELSE "XREADGROUP")
        /\ m.count = o.options.count /\ m.noack = o.options.noack
    BY <1>1, <2>1 DEF CommandOf, ReadingOf
  <2>3. ~WrongNumber(o.options.count, 1)
    BY <1>1, <2>1 DEF Wrong
  <2>4. IsLimit(o.options.count)
    BY <2>1, <2>3, InputTypes, NumbersChecked
  <2>. QED
    BY <2>1, <2>2, <2>4 DEF Fits, Known
<1>5. CASE o.name \in {"xlen", "xgroup_destroy", "xgroup_createconsumer", "xgroup_delconsumer",
                      "xdel", "xack", "xtrim", "xgroup_create", "xgroup_setid"}
  <2>1. m.cmd \in {"XLEN", "DESTROY", "CREATECONSUMER", "DELCONSUMER", "XDEL", "XACK", "XTRIM",
                   "CREATE", "SETID"}
    BY <1>1, <1>5 DEF CommandOf
  <2>. QED
    BY <1>5, <2>1 DEF Fits, Known
<1>. QED
  BY <1>1, <1>2, <1>3, <1>4, <1>5 DEF StreamOps
-----------------------------------------------------------------------------
(* Every step preserves the invariant.  There is one caller, so that what   *)
(* is pending for it only others and the caller change.                     *)

LEMMA Alone ==
    ASSUME NEW c \in Client, ObjectOK(object'), Shape', ClientOK(c)'
    PROVE  IInv'
BY OneCaller DEF IInv

LEMMA CallIInv ==
    ASSUME IInv, NEW c \in Client, ~busy[c], NEW o, NEW command, Sound(o, command),
           Call(c, o, command)
    PROVE  IInv'
<1>1. ObjectOK(object') /\ Shape'
  BY DEF IInv, Shape, Call
<1>2. ClientOK(c) /\ req[c] = NoMsg /\ rep[c] = NoMsg
  BY DEF IInv, ClientOK
<1>3. /\ op'[c] = o /\ busy'[c] = command.ok
      /\ req'[c] = IF command.ok /\ link[c] = "up" THEN command.value ELSE NoMsg
      /\ taken'[c] = <<>> /\ rep'[c] = NoMsg
  BY <1>2 DEF IInv, Shape, Call
<1>4. ClientOK(c)'
  BY <1>2, <1>3 DEF ClientOK, Reads, Tells, Sound
<1>. QED
  BY <1>1, <1>4, Alone

LEMMA ReturnIInv ==
    ASSUME IInv, NEW c \in Client, Return(c)
    PROVE  IInv'
<1>. PICK result \in Results(op[c], rep[c]) : Finish(c, result)
  BY DEF Return
<1>1. ObjectOK(object') /\ Shape'
  BY DEF IInv, Shape, Finish
<1>2. ClientOK(c) /\ rep[c] # NoMsg /\ req[c] = NoMsg
  BY DEF IInv, ClientOK, Finish
<1>3. /\ rep'[c] = NoMsg /\ busy'[c] = FALSE /\ outcome'[c] = result
      /\ req'[c] = NoMsg /\ op'[c] = op[c] /\ taken'[c] = taken[c] /\ object' = object
  BY <1>2 DEF IInv, Shape, Finish
<1>4. ClientOK(c)'
  BY <1>2, <1>3 DEF ClientOK, Reads
<1>. QED
  BY <1>1, <1>4, Alone

LEMMA TransportErrorIInv ==
    ASSUME IInv, NEW c \in Client, TransportError(c)
    PROVE  IInv'
<1>1. ObjectOK(object') /\ Shape'
  BY DEF IInv, Shape, TransportError
<1>2. ClientOK(c) /\ rep[c] = NoMsg
  BY DEF IInv, TransportError
<1>3. /\ rep'[c] = NoMsg /\ busy'[c] = FALSE /\ outcome'[c] = Throw("transport")
      /\ req'[c] = NoMsg /\ op'[c] = op[c] /\ taken'[c] = taken[c] /\ object' = object
  BY <1>2 DEF IInv, Shape, TransportError
<1>4. Tells(taken[c], Throw("transport"))
  BY Outcomes DEF Tells
<1>5. ClientOK(c)'
  BY <1>2, <1>3, <1>4 DEF ClientOK, Reads
<1>. QED
  BY <1>1, <1>5, Alone

LEMMA ReconnectIInv ==
    ASSUME IInv, NEW c \in Client, Reconnect(c)
    PROVE  IInv'
<1>1. ObjectOK(object') /\ Shape'
  BY DEF IInv, Shape, Reconnect, callVars
<1>2. ClientOK(c)'
  BY DEF IInv, Shape, Reconnect, callVars, ClientOK, Reads
<1>. QED
  BY <1>1, <1>2, Alone

LEMMA ServeCommandIInv ==
    ASSUME IInv, NEW c \in Client, ServeCommand(c)
    PROVE  IInv'
<1>1. PICK e \in Effects(req[c]) :
          /\ object' = e.object
          /\ taken' = [taken EXCEPT ![c] = e.taken]
          /\ rep' = IF link[c] = "up" THEN [rep EXCEPT ![c] = e.reply] ELSE rep
  BY DEF ServeCommand, Serve
<1>2. req[c] # NoMsg /\ req' = [req EXCEPT ![c] = NoMsg] /\ UNCHANGED <<link, stray, callVars>>
  BY DEF ServeCommand, Serve
<1>3. ClientOK(c) /\ ObjectOK(object) /\ Shape
  BY DEF IInv
<1>4. Fits(op[c], req[c]) /\ busy[c] /\ rep[c] = NoMsg
  BY <1>2, <1>3, AskedFits DEF ClientOK
<1>5. ObjectOK(e.object)
  <2>1. CASE e = Refused(object)
    BY <1>3, <2>1, Changed DEF Refused
  <2>2. ASSUME NEW d \in Execute(req[c], object),
               e = Change(d.object, d.taken, Reply(req[c], d.shown))
        PROVE  ObjectOK(e.object)
    BY <1>3, <1>4, <2>2, Changed, ExecuteOK
  <2>. QED
    BY <2>1, <2>2 DEF Effects
<1>6. op[c].name = "xreadgroup" =>
          /\ \A result \in Results(op[c], e.reply) : Tells(e.taken, result)
          /\ e.taken # <<>> /\ ~op[c].options.noack => Pending(e.object, e.taken)
  BY <1>3, <1>4, GroupReadServed
<1>7. ObjectOK(object') /\ Shape'
  BY <1>1, <1>2, <1>3, <1>5 DEF Shape, callVars
<1>8. /\ req'[c] = NoMsg /\ taken'[c] = e.taken
      /\ rep'[c] = IF link[c] = "up" THEN e.reply ELSE NoMsg
      /\ busy'[c] = busy[c] /\ op'[c] = op[c] /\ object' = e.object
  BY <1>1, <1>2, <1>3, <1>4 DEF Shape, callVars
<1>9. ClientOK(c)'
  BY <1>4, <1>6, <1>8 DEF ClientOK, Reads
<1>. QED
  BY <1>7, <1>9, Alone

LEMMA DropIInv ==
    ASSUME IInv, NEW c \in Client, Drop(c)
    PROVE  IInv'
<1>1. ObjectOK(object') /\ Shape'
  BY DEF IInv, Shape, Drop, callVars
<1>2. ClientOK(c)
  BY DEF IInv
<1>3. /\ busy'[c] = busy[c] /\ op'[c] = op[c] /\ outcome'[c] = outcome[c]
      /\ taken'[c] = taken[c] /\ object' = object
      /\ \/ req'[c] = req[c] /\ rep'[c] = rep[c]
         \/ req'[c] = NoMsg /\ rep'[c] = NoMsg
  BY DEF IInv, Shape, Drop, callVars
<1>4. ClientOK(c)'
  BY <1>2, <1>3 DEF ClientOK, Reads
<1>. QED
  BY <1>1, <1>4, Alone

\* What others do leaves what is pending for the caller.
LEMMA OthersKeep ==
    ASSUME NEW x, ObjectOK(x), NEW y \in OthersDo(x)
    PROVE  ObjectOK(y) /\ \A ids : Pending(x, ids) => Pending(y, ids)
<1>. DEFINE s == StreamOf(x)
<1>1. IsStream(s) /\ \A ids : Pending(x, ids) => x = [stream |-> s]
  <2>1. \A ids : Pending(x, ids) => x # NoObject
    BY DEF Pending, NoObject
  <2>. QED
    BY <2>1, StreamOfOK
<1>2. ASSUME NEW t, IsStream(t), t.group = s.group, y = [stream |-> t]
      PROVE  ObjectOK(y) /\ \A ids : Pending(x, ids) => Pending(y, ids)
  <2>1. ObjectOK(y)
    BY <1>2, StreamObject
  <2>2. ASSUME NEW ids, Pending(x, ids)
        PROVE  Pending(y, ids)
    <3>1. \E g : s.group = Some(g) /\ Elems(ids) \subseteq g.pending
      <4>1. PICK r, g : x = [stream |-> r] /\ r.group = Some(g) /\ Elems(ids) \subseteq g.pending
        BY <2>2 DEF Pending
      <4>2. r = s
        BY <1>1, <2>2, <4>1
      <4>. QED
        BY <4>1, <4>2
    <3>. QED
      BY <1>2, <3>1 DEF Pending
  <2>. QED
    BY <2>1, <2>2
<1>0. [id |-> NEW_ID, trim |-> None].id \in Int
  BY DEF NEW_ID
<1>3. CASE \E pairs \in OtherFields :
              \E t \in Additions(s, pairs, [id |-> NEW_ID, trim |-> None]) : y = [stream |-> t]
  <2>. DEFINE options == [id |-> NEW_ID, trim |-> None]
  <2>. HIDE DEF options
  <2>1. options.id \in Int
    BY <1>0 DEF options
  <2>2. \E pairs \in FieldTexts : \E t \in Additions(s, pairs, options) : y = [stream |-> t]
    BY <1>3, StreamAssumption DEF options, FieldTexts
  <2>. QED
    BY <1>1, <1>2, <2>1, <2>2, AdditionsOK
<1>4. CASE \E n \in DOMAIN s.entries : \E e \in Deleting(x, {n}) : y = e.object
  <2>1. PICK n \in DOMAIN s.entries : \E e \in Deleting(x, {n}) : y = e.object
    BY <1>4
  <2>2. /\ ObjectOK(y)
        /\ y = x \/ \E t : y = [stream |-> t] /\ t.group = s.group
    BY <2>1, DeletingOK
  <2>3. \A t : [stream |-> t] = y /\ ObjectOK(y) => IsStream(t)
    BY DEF ObjectOK, NoObject
  <2>. QED
    BY <1>2, <2>2, <2>3
<1>5. CASE StreamOf(x).group # None
           /\ \E n : y = Grouped(x.stream, n, x.stream.group[1].pending)
  <2>1. PICK n : y = Grouped(x.stream, n, x.stream.group[1].pending)
    BY <1>5
  <2>2. /\ x.stream = s /\ x = [stream |-> s] /\ s.group = Some(s.group[1])
    BY <1>5, WithGroupOK
  <2>3. ObjectOK(y)
    BY <1>1, <1>5, <2>1, <2>2, OwedIds, GroupedOK
  <2>4. ASSUME NEW ids, Pending(x, ids)
        PROVE  Pending(y, ids)
    <3>. DEFINE g == [delivered |-> n, pending |-> s.group[1].pending]
                t == [s EXCEPT !.group = Some(g)]
    <3>1. Elems(ids) \subseteq s.group[1].pending
      <4>1. PICK r, h : x = [stream |-> r] /\ r.group = Some(h) /\ Elems(ids) \subseteq h.pending
        BY <2>4 DEF Pending
      <4>2. r = s
        BY <2>2, <4>1
      <4>. QED
        BY <4>1, <4>2 DEF Some
    <3>2. y = [stream |-> t]
      BY <2>1, <2>2 DEF Grouped
    <3>3. t.group = Some(g)
      BY <1>1 DEF IsStream
    <3>4. Elems(ids) \subseteq g.pending
      BY <3>1
    <3>. HIDE DEF t, g
    <3>. QED
      BY <3>2, <3>3, <3>4 DEF Pending
  <2>. QED
    BY <2>3, <2>4
<1>. QED
  BY <1>3, <1>4, <1>5 DEF OthersDo, WithGroup

LEMMA OthersIInv == IInv /\ OthersStep => IInv'
<1>. SUFFICES ASSUME IInv, OthersStep PROVE IInv'
  OBVIOUS
<1>1. ObjectOK(object') /\ \A ids : Pending(object, ids) => Pending(object', ids)
  BY OthersKeep DEF IInv, OthersStep
<1>2. Shape'
  BY DEF IInv, Shape, OthersStep, netVars, callVars
<1>3. ASSUME NEW d \in Client
      PROVE  ClientOK(d)'
  BY <1>1 DEF IInv, OthersStep, netVars, callVars, ClientOK, Reads
<1>. QED
  BY <1>1, <1>2, <1>3 DEF IInv

LEMMA NextIInv == IInv /\ [Next]_vars => IInv'
<1>. SUFFICES ASSUME IInv, [Next]_vars PROVE IInv'
  OBVIOUS
<1>1. ASSUME NEW c \in Client, StreamCall(c)
      PROVE  IInv'
  BY <1>1, StreamCallSound, CallIInv DEF SoundCall
<1>2. CASE UNCHANGED vars
  <2>1. ObjectOK(object') /\ Shape'
    BY <1>2 DEF IInv, Shape, vars, netVars, callVars
  <2>2. ASSUME NEW d \in Client
        PROVE  ClientOK(d)'
    BY <1>2 DEF IInv, vars, netVars, callVars, ClientOK, Reads
  <2>. QED
    BY <2>1, <2>2 DEF IInv
<1>. QED
  BY <1>1, <1>2, ReturnIInv, TransportErrorIInv, ReconnectIInv, ServeCommandIInv,
     DropIInv, OthersIInv DEF Next
-----------------------------------------------------------------------------
THEOREM Invariance == Spec => []IInv
BY InitIInv, NextIInv, PTL DEF Spec

\* What a group delivers to an xreadgroup is what the caller is given, in order;
\* or the call throws, and what was delivered is pending for the caller.
THEOREM NothingDeliveredIsLost == Spec => []DeliveredOrOwed
BY Invariance, IInvDelivered, PTL

-----------------------------------------------------------------------------
(***************************************************************************)
(* The contract of LinearObject.                                           *)
(*                                                                         *)
(* Whatever the server does with a command is an effect of the operation   *)
(* the command asks for, and what the view makes of the reply is what that *)
(* effect answers.  The steps of the client, the server and the network    *)
(* map to those of LinearObject.                                           *)
(***************************************************************************)

\* A command that comes late is left to OperationViews.
NothingLate == MaxStray = 0

\* The program wrote the key, and can read it.
KeyIsRead == StreamKey \in DOMAIN deserialize_key

Markers == {Throw("idle"), Throw("pending"), Throw("lost")}

\* What may be returned: something, and no marker.
Returnable(results) == results # {} /\ results \cap Markers = {}

\* What the server does is an effect of o on x.
Agrees(o, x, e) ==
    /\ Returnable(Results(o, e.reply))
    /\ \E f \in Apply(o, x) : f.object = e.object /\ Results(o, e.reply) \subseteq f.answers

\* What o may give without looking at the object.
AtOnce(o, x) ==
    Rejections(o) \cup UNION {e.answers : e \in {f \in Apply(o, x) : f.object = x}}

\* A reply under way gives something to return, and nothing comes late.
Meaningful(c) ==
    /\ rep[c] # NoMsg => Returnable(Results(op[c], rep[c]))
    /\ stray[c] = <<>>

MInv == \A c \in Client : Meaningful(c)

-----------------------------------------------------------------------------
(* What the view makes of each reply.                                       *)

LEMMA NoMarker ==
    /\ \A v : Val(v) \notin Markers
    /\ \A e : e \notin {"idle", "pending", "lost"} => Throw(e) \notin Markers
<1>1. \A v, e : Val(v) # Throw(e)
  BY Outcomes
<1>2. \A e, f : Throw(e) = Throw(f) => e = f
  BY Outcomes
<1>. QED
  BY <1>1, <1>2 DEF Markers

\* One result, which an effect of the operation answers.
LEMMA OneAnswer ==
    ASSUME NEW o, NEW x, NEW e, NEW w, Results(o, e.reply) = {w},
           (\E v : w = Val(v)) \/ w \in {Throw("deserialize"), Throw("redis_error")},
           NEW f \in Apply(o, x), f.object = e.object, w \in f.answers
    PROVE  Agrees(o, x, e)
<1>1. w \notin Markers
  BY NoMarker
<1>2. Returnable({w})
  BY <1>1 DEF Returnable
<1>. QED
  BY <1>2 DEF Agrees

LEMMA ErrorResults ==
    ASSUME NEW o, NEW t
    PROVE  Results(o, make_error(t)) = {Throw("redis_error")}
<1>1. or_throw(make_error(t)) = Throw("redis_error")
  BY DEF or_throw, is_error, make_error, as_text, Bind, Once, Val
<1>. QED
  BY <1>1, Outcomes DEF Results, Bind, Once

LEMMA PlainResults ==
    ASSUME NEW o, NEW r, ~is_error(r)
    PROVE  Results(o, r) = {StreamResult(o, r)}
<1>1. or_throw(r) = Val(r)
  BY DEF or_throw
<1>2. Bind(or_throw(r), LAMBDA y : StreamResult(o, y)) = StreamResult(o, r)
  BY <1>1, Outcomes DEF Bind, Once
<1>. QED
  BY <1>2 DEF Results

\* The operations, by the kind of what they show.
Counts == {"xlen", "xdel", "xtrim", "xack", "xgroup_destroy", "xgroup_createconsumer",
           "xgroup_delconsumer"}
Lists == {"xrange", "xrevrange", "xread", "xreadgroup"}

LEMMA ShownAnswers ==
    /\ \A o, n : Answer(o, [count |-> n]) =
                    Val(IF o.name \in {"xgroup_destroy", "xgroup_createconsumer"}
                        THEN Flag(n = 1) ELSE Count(n))
    /\ \A o, id : Answer(o, [id |-> id]) = Val(EntryId(id))
    /\ \A o : Answer(o, [done |-> TRUE]) = Val(Flag(TRUE))
    /\ \A o, list : Answer(o, [list |-> list]) = Given(list)
<1>1. ASSUME NEW o, NEW n
      PROVE  Answer(o, [count |-> n]) =
                 Val(IF o.name \in {"xgroup_destroy", "xgroup_createconsumer"}
                     THEN Flag(n = 1) ELSE Count(n))
  <2>. DEFINE shown == [count |-> n]
  <2>1. /\ "id" \notin DOMAIN shown /\ "done" \notin DOMAIN shown
        /\ "list" \notin DOMAIN shown /\ "count" \in DOMAIN shown /\ shown.count = n
    OBVIOUS
  <2>. HIDE DEF shown
  <2>2. Answer(o, shown) = Val(IF o.name \in {"xgroup_destroy", "xgroup_createconsumer"}
                               THEN Flag(shown.count = 1) ELSE Count(shown.count))
    BY <2>1, Zenon DEF Answer
  <2>. QED
    BY <2>1, <2>2 DEF shown
<1>2. ASSUME NEW o, NEW id
      PROVE  Answer(o, [id |-> id]) = Val(EntryId(id))
  <2>. DEFINE shown == [id |-> id]
  <2>1. /\ "count" \notin DOMAIN shown /\ "done" \notin DOMAIN shown
        /\ "list" \notin DOMAIN shown /\ "id" \in DOMAIN shown /\ shown.id = id
    OBVIOUS
  <2>. HIDE DEF shown
  <2>2. Answer(o, shown) = Val(EntryId(shown.id))
    BY <2>1, Zenon DEF Answer
  <2>. QED
    BY <2>1, <2>2 DEF shown
<1>3. ASSUME NEW o
      PROVE  Answer(o, [done |-> TRUE]) = Val(Flag(TRUE))
  <2>. DEFINE shown == [done |-> TRUE]
  <2>1. /\ "count" \notin DOMAIN shown /\ "id" \notin DOMAIN shown
        /\ "list" \notin DOMAIN shown /\ "done" \in DOMAIN shown
    OBVIOUS
  <2>. HIDE DEF shown
  <2>2. Answer(o, shown) = Val(Flag(TRUE))
    BY <2>1, Zenon DEF Answer
  <2>. QED
    BY <2>2 DEF shown
<1>4. ASSUME NEW o, NEW list
      PROVE  Answer(o, [list |-> list]) = Given(list)
  <2>. DEFINE shown == [list |-> list]
  <2>1. /\ "count" \notin DOMAIN shown /\ "id" \notin DOMAIN shown
        /\ "done" \notin DOMAIN shown /\ "list" \in DOMAIN shown /\ shown.list = list
    OBVIOUS
  <2>. HIDE DEF shown
  <2>2. Answer(o, shown) = Given(shown.list)
    BY <2>1, Zenon DEF Answer, Given, Readable
  <2>. QED
    BY <2>1, <2>2 DEF shown
<1>. QED
  BY <1>1, <1>2, <1>3, <1>4

LEMMA ShownReplies ==
    /\ \A m, n : Reply(m, [count |-> n]) = make_integer(n)
    /\ \A m, id : Reply(m, [id |-> id]) = StringOrNil(id)
    /\ \A m : Reply(m, [done |-> TRUE]) = make_status("OK")
    /\ \A m, list : Reply(m, [list |-> list]) =
          IF m.cmd \notin {"XREAD", "XREADGROUP"} THEN EntryArray(list)
          ELSE IF NothingNew(object, m.cmd = "XREADGROUP", m.ids[1]) THEN make_nil
          ELSE Batch(list)
<1>1. ASSUME NEW m, NEW n
      PROVE  Reply(m, [count |-> n]) = make_integer(n)
  <2>. DEFINE shown == [count |-> n]
  <2>1. /\ "id" \notin DOMAIN shown /\ "done" \notin DOMAIN shown
        /\ "list" \notin DOMAIN shown /\ "count" \in DOMAIN shown /\ shown.count = n
    OBVIOUS
  <2>. HIDE DEF shown
  <2>2. Reply(m, shown) = make_integer(shown.count)
    BY <2>1, Zenon DEF Reply
  <2>. QED
    BY <2>1, <2>2 DEF shown
<1>2. ASSUME NEW m, NEW id
      PROVE  Reply(m, [id |-> id]) = StringOrNil(id)
  <2>. DEFINE shown == [id |-> id]
  <2>1. /\ "count" \notin DOMAIN shown /\ "done" \notin DOMAIN shown
        /\ "list" \notin DOMAIN shown /\ "id" \in DOMAIN shown /\ shown.id = id
    OBVIOUS
  <2>. HIDE DEF shown
  <2>2. Reply(m, shown) = StringOrNil(shown.id)
    BY <2>1, Zenon DEF Reply
  <2>. QED
    BY <2>1, <2>2 DEF shown
<1>3. ASSUME NEW m
      PROVE  Reply(m, [done |-> TRUE]) = make_status("OK")
  <2>. DEFINE shown == [done |-> TRUE]
  <2>1. /\ "count" \notin DOMAIN shown /\ "id" \notin DOMAIN shown
        /\ "list" \notin DOMAIN shown /\ "done" \in DOMAIN shown
    OBVIOUS
  <2>. HIDE DEF shown
  <2>2. Reply(m, shown) = make_status("OK")
    BY <2>1, Zenon DEF Reply
  <2>. QED
    BY <2>2 DEF shown
<1>4. ASSUME NEW m, NEW list
      PROVE  Reply(m, [list |-> list]) =
          IF m.cmd \notin {"XREAD", "XREADGROUP"} THEN EntryArray(list)
          ELSE IF NothingNew(object, m.cmd = "XREADGROUP", m.ids[1]) THEN make_nil
          ELSE Batch(list)
  <2>. DEFINE shown == [list |-> list]
  <2>1. /\ "count" \notin DOMAIN shown /\ "id" \notin DOMAIN shown
        /\ "done" \notin DOMAIN shown /\ "list" \in DOMAIN shown /\ shown.list = list
    OBVIOUS
  <2>. HIDE DEF shown
  <2>2. Reply(m, shown) =
          IF m.cmd \notin {"XREAD", "XREADGROUP"} THEN EntryArray(shown.list)
          ELSE IF NothingNew(object, m.cmd = "XREADGROUP", m.ids[1]) THEN make_nil
          ELSE Batch(shown.list)
    BY <2>1, Zenon DEF Reply, Batch
  <2>. QED
    BY <2>1, <2>2 DEF shown
<1>. QED
  BY <1>1, <1>2, <1>3, <1>4

LEMMA IntegersRead ==
    ASSUME NEW n \in 0 .. HALF - 1
    PROVE  /\ count_result(make_integer(n)) = Val(Count(n))
           /\ flag_result(make_integer(n)) = Val(Flag(n = 1))
<1>1. n \in Int64
  BY HalfAssumption DEF Int64, INT64_MAX
<1>2. get_signed_integer(make_signed_integer(n)) = n
  BY <1>1, SignedRoundTrip
<1>3. as_integer(make_integer(n)) = Val(n)
  BY <1>2 DEF as_integer, make_integer
<1>4. count_result(make_integer(n)) = Val(Count(n))
  BY <1>3, Outcomes DEF count_result, Bind, Once
<1>5. flag_result(make_integer(n)) = Val(Flag(n = 1))
  BY <1>3, Outcomes DEF flag_result, Bind, Once
<1>. QED
  BY <1>4, <1>5

LEMMA CountResults ==
    ASSUME NEW o, o.name \in Counts, NEW n \in 0 .. HALF - 1
    PROVE  Results(o, make_integer(n)) = {Answer(o, [count |-> n])}
<1>. DEFINE r == make_integer(n)
<1>1. ~is_error(r)
  BY DEF is_error, make_integer
<1>2. count_result(r) = Val(Count(n)) /\ flag_result(r) = Val(Flag(n = 1))
  BY IntegersRead
<1>. HIDE DEF r
<1>3. CASE o.name \in {"xgroup_destroy", "xgroup_createconsumer"}
  <2>1. StreamResult(o, r) = flag_result(r)
    BY <1>3 DEF StreamResult
  <2>. QED
    BY <1>1, <1>2, <1>3, <2>1, PlainResults, ShownAnswers DEF r
<1>4. CASE o.name \in {"xlen", "xdel", "xtrim", "xgroup_delconsumer", "xack"}
  <2>1. StreamResult(o, r) = count_result(r)
    BY <1>4 DEF StreamResult
  <2>. QED
    BY <1>1, <1>2, <1>4, <2>1, PlainResults, ShownAnswers DEF r
<1>. QED
  BY <1>3, <1>4 DEF Counts

LEMMA IdResults ==
    ASSUME NEW o, o.name = "xadd", NEW id, id = None \/ \E n : id = Some(n)
    PROVE  Results(o, StringOrNil(id)) = {Answer(o, [id |-> id])}
<1>. DEFINE r == StringOrNil(id)
            Made(x) == Val(EntryId(x))
<1>1. ~is_error(r) /\ optional_string(r) = Val(id)
  <2>1. CASE id = None
    <3>1. r = make_nil
      BY <2>1 DEF StringOrNil
    <3>. QED
      BY <2>1, <3>1 DEF is_error, make_nil, optional_string, is_nil
  <2>2. ASSUME NEW n, id = Some(n)
        PROVE  ~is_error(r) /\ optional_string(r) = Val(id)
    <3>1. r = make_string(n)
      BY <2>2 DEF StringOrNil, Some, None
    <3>2. ~is_error(make_string(n)) /\ ~is_nil(make_string(n))
          /\ as_string(make_string(n)) = Val(n)
      BY DEF is_error, is_nil, make_string, as_string, as_text
    <3>3. optional_string(r) = Bind(as_string(r), LAMBDA t : Val(Some(t)))
      BY <3>1, <3>2 DEF optional_string
    <3>. DEFINE Then(t) == Val(Some(t))
    <3>4. Then(n) = Val(id) /\ optional_string(r) = Bind(as_string(r), LAMBDA t : Then(t))
      BY <2>2, <3>3
    <3>. HIDE DEF Then, r
    <3>5. optional_string(r) = Then(n)
      BY <3>1, <3>2, <3>4, Outcomes DEF Bind, Once
    <3>. QED
      BY <3>1, <3>2, <3>4, <3>5
  <2>. QED
    BY <2>1, <2>2
<1>2. StreamResult(o, r) = Bind(optional_string(r), LAMBDA x : Made(x))
  BY DEF StreamResult
<1>3. Made(id) = Answer(o, [id |-> id])
  BY ShownAnswers
<1>. HIDE DEF r, Made
<1>4. StreamResult(o, r) = Made(id)
  BY <1>1, <1>2, Outcomes DEF Bind, Once
<1>. QED
  BY <1>1, <1>3, <1>4, PlainResults DEF r

LEMMA DoneResults ==
    ASSUME NEW o, o.name \in {"xgroup_create", "xgroup_setid"}
    PROVE  Results(o, make_status("OK")) = {Answer(o, [done |-> TRUE])}
<1>. DEFINE r == make_status("OK")
            Made(b) == Val(Flag(b))
            Is(t) == Val(t = "OK")
<1>1. ~is_error(r) /\ as_status(r) = Val("OK")
  BY DEF is_error, make_status, as_status, as_text
<1>2. status_is_ok(r) = Val(TRUE)
  <2>1. status_is_ok(r) = Bind(as_status(r), LAMBDA t : Is(t))
    BY DEF status_is_ok
  <2>2. Is("OK") = Val(TRUE)
    OBVIOUS
  <2>. HIDE DEF r, Is
  <2>. QED
    BY <1>1, <2>1, <2>2, Outcomes DEF Bind, Once
<1>3. StreamResult(o, r) = Bind(status_is_ok(r), LAMBDA b : Made(b))
  BY DEF StreamResult
<1>4. Made(TRUE) = Answer(o, [done |-> TRUE])
  BY ShownAnswers
<1>. HIDE DEF r, Made
<1>5. StreamResult(o, r) = Made(TRUE)
  BY <1>2, <1>3, Outcomes DEF Bind, Once
<1>. QED
  BY <1>1, <1>4, <1>5, PlainResults DEF r

\* A read that has waited for nothing.
LEMMA NilResults ==
    ASSUME NEW o, o.name \in {"xread", "xreadgroup"}
    PROVE  Results(o, make_nil) = {Given(<<>>)}
<1>1. ~is_error(make_nil) /\ is_nil(make_nil)
  BY DEF is_error, is_nil, make_nil
<1>2. stream_batches(make_nil) = Val(<<>>)
  BY <1>1 DEF stream_batches
<1>3. StreamResult(o, make_nil) = Bind(stream_batches(make_nil), deserialize_batches)
  BY DEF StreamResult
<1>4. deserialize_batches(<<>>) = Val(TypedEntries(<<>>))
  BY DEF deserialize_batches
<1>5. Bind(Val(<<>>), deserialize_batches) = deserialize_batches(<<>>)
  BY Outcomes DEF Bind, Once
<1>6. Given(<<>>) = Val(TypedEntries(<<>>))
  <2>1. DOMAIN <<>> = {}
    OBVIOUS
  <2>2. [i \in DOMAIN <<>> |-> TypedEntry(<<>>[i])] = <<>>
    OBVIOUS
  <2>. QED
    BY <2>1, <2>2 DEF Given
<1>7. StreamResult(o, make_nil) = Given(<<>>)
  BY <1>2, <1>3, <1>4, <1>5, <1>6, Zenon
<1>8. Results(o, make_nil) = {StreamResult(o, make_nil)}
  BY <1>1, PlainResults
<1>. QED
  BY <1>7, <1>8, Zenon

LEMMA GivenIs ==
    ASSUME NEW list
    PROVE  (\E v : Given(list) = Val(v)) \/ Given(list) = Throw("deserialize")
BY DEF Given
-----------------------------------------------------------------------------
(* What each command does is what its operation promises.                   *)

\* The view makes of the reply what the operation answers.
Told(o, m, d) ==
    /\ Results(o, Reply(m, d.shown)) = {Answer(o, d.shown)}
    /\ (\E v : Answer(o, d.shown) = Val(v)) \/ Answer(o, d.shown) = Throw("deserialize")

LEMMA CountTold ==
    ASSUME NEW o, o.name \in Counts, NEW m, NEW d, NEW n \in 0 .. HALF - 1,
           d.shown = [count |-> n]
    PROVE  Told(o, m, d)
BY CountResults, ShownAnswers, ShownReplies DEF Told

LEMMA IdTold ==
    ASSUME NEW o, o.name = "xadd", NEW m, NEW d, NEW id, id = None \/ \E n : id = Some(n),
           d.shown = [id |-> id]
    PROVE  Told(o, m, d)
BY IdResults, ShownAnswers, ShownReplies DEF Told

LEMMA DoneTold ==
    ASSUME NEW o, o.name \in {"xgroup_create", "xgroup_setid"}, NEW m, NEW d,
           d.shown = [done |-> TRUE]
    PROVE  Told(o, m, d)
<1>1. Reply(m, d.shown) = make_status("OK")
  BY ShownReplies, Zenon
<1>2. Answer(o, d.shown) = Val(Flag(TRUE))
  BY ShownAnswers, Zenon
<1>3. Results(o, make_status("OK")) = {Answer(o, d.shown)}
  <2>1. Results(o, make_status("OK")) = {Answer(o, [done |-> TRUE])}
    BY DoneResults
  <2>. QED
    BY <2>1
<1>. QED
  BY <1>1, <1>2, <1>3, Zenon DEF Told

\* Entries of a stream are shown.
ShowsEntries(d) == \E s : HoldsFields(s) /\ \E ids \in Seq(Ids) : d.shown = Showing(s, ids)

LEMMA RangeTold ==
    ASSUME NEW o, o.name \in {"xrange", "xrevrange"}, NEW m,
           m.cmd \notin {"XREAD", "XREADGROUP"}, NEW d, ShowsEntries(d)
    PROVE  Told(o, m, d)
<1>0. PICK s : HoldsFields(s) /\ \E ids \in Seq(Ids) : d.shown = Showing(s, ids)
  BY DEF ShowsEntries
<1>0a. PICK ids \in Seq(Ids) : d.shown = Showing(s, ids)
  BY <1>0
<1>1. PICK list : Showing(s, ids) = [list |-> list] /\ IsShown(list, ids)
  BY <1>0, ShowingShown
<1>2. Answer(o, d.shown) = Given(list) /\ Reply(m, d.shown) = EntryArray(list)
  BY <1>0a, <1>1, ShownAnswers, ShownReplies
<1>. QED
  BY <1>1, <1>2, RangeGiven, GivenIs DEF Told

\* A batch, or nothing that is new.
LEMMA ReadTold ==
    ASSUME KeyIsRead, NEW o, o.name \in {"xread", "xreadgroup"}, NEW m,
           m.cmd \in {"XREAD", "XREADGROUP"}, NEW d,
           IF NothingNew(object, m.cmd = "XREADGROUP", m.ids[1]) THEN d.shown = [list |-> <<>>]
           ELSE ShowsEntries(d)
    PROVE  Told(o, m, d)
<1>1. CASE NothingNew(object, m.cmd = "XREADGROUP", m.ids[1])
  <2>1. d.shown = [list |-> <<>>]
    BY <1>1
  <2>2. Answer(o, d.shown) = Given(<<>>)
    BY <2>1, ShownAnswers
  <2>3. Reply(m, d.shown) = make_nil
    BY <1>1, <2>1, ShownReplies
  <2>. QED
    BY <2>2, <2>3, NilResults, GivenIs DEF Told
<1>2. CASE ~NothingNew(object, m.cmd = "XREADGROUP", m.ids[1])
  <2>1. PICK s : HoldsFields(s) /\ \E ids \in Seq(Ids) : d.shown = Showing(s, ids)
    BY <1>2 DEF ShowsEntries
  <2>2. PICK ids \in Seq(Ids) : d.shown = Showing(s, ids)
    BY <2>1
  <2>3. PICK list : Showing(s, ids) = [list |-> list] /\ IsShown(list, ids)
    BY <2>1, ShowingShown
  <2>4. Answer(o, d.shown) = Given(list) /\ Reply(m, d.shown) = Batch(list)
    BY <1>2, <2>2, <2>3, ShownAnswers, ShownReplies
  <2>5. Results(o, Batch(list)) = {Given(list)}
    BY <2>3, BatchGiven DEF KeyIsRead
  <2>. QED
    BY <2>4, <2>5, GivenIs DEF Told
<1>. QED
  BY <1>1, <1>2

LEMMA Countable ==
    /\ \A n \in 0 .. MaxId : n \in 0 .. HALF - 1
    /\ \A n \in 0 .. 1 : n \in 0 .. HALF - 1
    /\ \A S : S \subseteq Ids => Cardinality(S) \in 0 .. HALF - 1
<1>1. \A n \in 0 .. MaxId : n \in 0 .. HALF - 1
  BY StreamAssumption, HalfAssumption
<1>2. \A n \in 0 .. 1 : n \in 0 .. HALF - 1
  BY TypedAssumption, HalfAssumption
<1>. QED
  BY <1>1, <1>2, FiniteIds

LEMMA CountingShows == \A x, n : Counting(x, n).shown = [count |-> n]
BY DoesThat DEF Counting

\* What is shown, command by command.
LEMMA AddingShows ==
    ASSUME NEW x, NEW pairs, NEW options, NEW d \in Adding(x, pairs, options)
    PROVE  \E id : (id = None \/ \E n : id = Some(n)) /\ d.shown = [id |-> id]
<1>1. CASE x = NoObject /\ options.nomkstream
  <2>1. d = Does(x, <<>>, [id |-> None])
    BY <1>1 DEF Adding
  <2>2. d.shown = [id |-> None]
    BY <2>1, DoesThat
  <2>. QED
    BY <2>2
<1>2. CASE ~(x = NoObject /\ options.nomkstream)
  <2>1. \E s : d = Does([stream |-> s], <<>>, [id |-> Some(s.last)])
    BY <1>2, Zenon DEF Adding
  <2>2. PICK s : d = Does([stream |-> s], <<>>, [id |-> Some(s.last)])
    BY <2>1
  <2>3. d.shown = [id |-> Some(s.last)]
    BY <2>2, DoesThat
  <2>. QED
    BY <2>3
<1>. QED
  BY <1>1, <1>2

LEMMA CountsShow ==
    ASSUME NEW x, ObjectOK(x), NEW m,
           NEW d \in {Counting(x, Cardinality(DOMAIN StreamOf(x).entries))}
              \cup Deleting(x, Elems(m.ids)) \cup Trimming(x, m.trim)
              \cup Destroying(x) \cup CreatingConsumer(x)
              \cup DeletingConsumer(x) \cup Acknowledging(x, Elems(m.ids))
    PROVE  \E n \in 0 .. HALF - 1 : d.shown = [count |-> n]
<1>. DEFINE s == StreamOf(x)
            Shows == \E n \in 0 .. HALF - 1 : d.shown = [count |-> n]
<1>1. IsStream(s) /\ DOMAIN s.entries \subseteq Ids
  BY StreamOfOK DEF IsStream
<1>2. x # NoObject => x.stream = s
  BY DEF StreamOf
<1>3. s.group # None => x.stream = s /\ s.group[1].pending \subseteq Ids
  BY <1>1, WithGroupOK, OwedIds
<1>4. 0 \in 0 .. HALF - 1
  BY Countable
<1>. HIDE DEF s
<1>5. ASSUME NEW S, S \subseteq Ids, NEW y, d = Counting(y, Cardinality(S))
      PROVE  Shows
  BY <1>5, Countable, CountingShows
<1>6. CASE d = Counting(x, Cardinality(DOMAIN s.entries))
  BY <1>1, <1>5, <1>6
<1>7. CASE d \in Deleting(x, Elems(m.ids))
  <2>. DEFINE there == Elems(m.ids) \cap DOMAIN s.entries
  <2>1. \E y : d = Counting(y, Cardinality(there))
    BY <1>7 DEF Deleting, s
  <2>2. there \subseteq Ids
    BY <1>1
  <2>. HIDE DEF there
  <2>. QED
    BY <1>5, <2>1, <2>2
<1>8. CASE d \in Trimming(x, m.trim)
  <2>1. CASE x = NoObject
    <3>1. d = Counting(x, 0)
      BY <1>8, <2>1 DEF Trimming
    <3>. QED
      BY <1>4, <3>1, CountingShows
  <2>2. CASE x # NoObject
    <3>1. \E t : d = Counting([stream |-> t], Cardinality(DOMAIN s.entries \ DOMAIN t.entries))
      BY <1>2, <1>8, <2>2, Zenon DEF Trimming
    <3>2. PICK t : d = Counting([stream |-> t], Cardinality(DOMAIN s.entries \ DOMAIN t.entries))
      BY <3>1
    <3>. DEFINE S == DOMAIN s.entries \ DOMAIN t.entries
    <3>3. S \subseteq Ids
      BY <1>1
    <3>. HIDE DEF S
    <3>4. d = Counting([stream |-> t], Cardinality(S))
      BY <3>2 DEF S
    <3>. QED
      BY <1>5, <3>3, <3>4
  <2>. QED
    BY <2>1, <2>2
<1>9. CASE d \in Destroying(x)
  <2>1. x # NoObject /\ \E y : d = Counting(y, Len(x.stream.group))
    BY <1>9 DEF Destroying
  <2>2. Len(s.group) \in 0 .. 1
    <3>1. s.group = None \/ \E g : s.group = Some(g)
      BY <1>1 DEF IsStream
    <3>2. Len(None) = 0 /\ \A g : Len(Some(g)) = 1
      BY DEF None, Some
    <3>3. Len(s.group) = 0 \/ Len(s.group) = 1
      BY <3>1, <3>2
    <3>. QED
      BY <3>3
  <2>3. Len(s.group) \in 0 .. HALF - 1
    BY <2>2, Countable
  <2>4. PICK y : d = Counting(y, Len(x.stream.group))
    BY <2>1
  <2>5. d.shown = [count |-> Len(s.group)]
    BY <1>2, <2>1, <2>4, CountingShows
  <2>. QED
    BY <2>3, <2>5
<1>10. CASE d \in CreatingConsumer(x)
  <2>1. \E n \in 0 .. 1 : d = Counting(x, n)
    BY <1>10 DEF CreatingConsumer, WithGroup
  <2>. QED
    BY <2>1, Countable, CountingShows
<1>11. CASE d \in DeletingConsumer(x)
  <2>1. s.group # None /\ \E y : d = Counting(y, Cardinality(x.stream.group[1].pending))
    BY <1>11 DEF DeletingConsumer, WithGroup, s
  <2>. QED
    BY <1>3, <1>5, <2>1
<1>12. CASE d \in Acknowledging(x, Elems(m.ids))
  <2>1. CASE s.group = None
    <3>1. d = Counting(x, 0)
      BY <1>12, <2>1 DEF Acknowledging, s
    <3>. QED
      BY <1>4, <3>1, CountingShows
  <2>2. CASE s.group # None
    <3>. DEFINE S == Elems(m.ids) \cap x.stream.group[1].pending
    <3>1. \E y : d = Counting(y, Cardinality(S))
      BY <1>12, <2>2 DEF Acknowledging, WithGroup, s
    <3>2. S \subseteq Ids
      BY <1>3, <2>2
    <3>. HIDE DEF S
    <3>. QED
      BY <1>5, <3>1, <3>2
  <2>. QED
    BY <2>1, <2>2
<1>. QED
  BY <1>6, <1>7, <1>8, <1>9, <1>10, <1>11, <1>12 DEF s

LEMMA DoneShows ==
    ASSUME NEW x, NEW m, NEW d \in Creating(x, m.id, m.mkstream) \cup Setting(x, m.id)
    PROVE  d.shown = [done |-> TRUE]
BY DoesThat DEF Creating, Setting, WithGroup

LEMMA ReversedIds ==
    ASSUME NEW ids \in Seq(Ids)
    PROVE  Reversed(ids) \in Seq(Ids)
<1>1. \A i \in 1 .. Len(ids) : Len(ids) + 1 - i \in 1 .. Len(ids)
  OBVIOUS
<1>2. \A i \in 1 .. Len(ids) : ids[Len(ids) + 1 - i] \in Ids
  BY <1>1
<1>3. Reversed(ids) = [i \in 1 .. Len(ids) |-> ids[Len(ids) + 1 - i]]
  BY DEF Reversed
<1>. QED
  BY <1>2, <1>3

LEMMA RangeShows ==
    ASSUME NEW x, ObjectOK(x), NEW low, NEW high, NEW reversed, NEW count, IsLimit(count),
           NEW d \in Ranging(x, low, high, reversed, count)
    PROVE  ShowsEntries(d)
<1>. DEFINE S == {n \in DOMAIN StreamOf(x).entries : low <= n /\ n <= high}
            all == Ascending(S)
            those == IF reversed THEN Reversed(all) ELSE all
<1>1. d = Does(x, <<>>, Showing(StreamOf(x), FirstOf(those, count)))
  BY Zenon DEF Ranging
<1>2. S \subseteq Ids
  BY StreamOfOK DEF IsStream
<1>. HIDE DEF S
<1>3. those \in Seq(Ids)
  BY <1>2, AscendingIds, ReversedIds
<1>. HIDE DEF those
<1>4. FirstOf(those, count) \in Seq(Ids)
  BY <1>3, FirstIds
<1>5. HoldsFields(StreamOf(x))
  BY StreamOfOK DEF IsStream
<1>. QED
  BY <1>1, <1>4, <1>5, DoesThat DEF ShowsEntries

LEMMA ReadShows ==
    ASSUME NEW x, ObjectOK(x), NEW n, NEW m, IsLimit(m.count), NEW d \in Reading(x, n, m)
    PROVE  IF NothingNew(x, FALSE, n) THEN d.shown = [list |-> <<>>]
           ELSE ShowsEntries(d)
<1>1. CASE NothingNew(x, FALSE, n)
  <2>1. n # NEW_ID
    BY <1>1 DEF NothingNew
  <2>2. d = Does(x, <<>>, [list |-> <<>>])
    BY <1>1, <2>1 DEF Reading
  <2>. QED
    BY <1>1, <2>2, DoesThat
<1>2. CASE ~NothingNew(x, FALSE, n)
  <2>. DEFINE ids == FirstOf(NewerThan(StreamOf(x), n), m.count)
  <2>1. d = Does(x, <<>>, Showing(StreamOf(x), ids))
    BY <1>2, Zenon DEF Reading
  <2>2. {k \in DOMAIN StreamOf(x).entries : k > n} \subseteq Ids
    BY StreamOfOK DEF IsStream
  <2>3. NewerThan(StreamOf(x), n) \in Seq(Ids)
    BY <2>2, AscendingIds DEF NewerThan
  <2>4. ids \in Seq(Ids)
    BY <2>3, FirstIds
  <2>5. HoldsFields(StreamOf(x))
    BY StreamOfOK DEF IsStream
  <2>. HIDE DEF ids
  <2>. QED
    BY <1>2, <2>1, <2>4, <2>5, DoesThat DEF ShowsEntries
<1>. QED
  BY <1>1, <1>2

LEMMA GroupReadShows ==
    ASSUME NEW x, ObjectOK(x), NEW n, NEW m, IsLimit(m.count), NEW d \in ReadingGroup(x, n, m)
    PROVE  IF NothingNew(x, TRUE, n) THEN d.shown = [list |-> <<>>]
           ELSE ShowsEntries(d)
<1>. DEFINE s == StreamOf(x)
            ids == FirstOf(Owed(s, n), m.count)
<1>1. CASE NothingNew(x, TRUE, n)
  <2>1. d = Does(x, <<>>, [list |-> <<>>])
    BY <1>1, NothingDelivered
  <2>. QED
    BY <1>1, <2>1, DoesThat
<1>2. CASE ~NothingNew(x, TRUE, n)
  <2>1. s.group # None /\ \E y, gone : d = Does(y, gone, Showing(s, ids))
    BY <1>2, Zenon DEF ReadingGroup
  <2>2. IsStream(s)
    BY StreamOfOK
  <2>. HIDE DEF s
  <2>3. ids \in Seq(Ids)
    BY <2>1, <2>2, OwedIds, FirstIds
  <2>. HIDE DEF ids
  <2>4. d.shown = Showing(s, ids)
    BY <2>1, DoesThat
  <2>. QED
    BY <1>2, <2>2, <2>3, <2>4 DEF ShowsEntries, IsStream
<1>. QED
  BY <1>1, <1>2

\* What an operation promises and shows.
Keeps(o, m, d) == d \in StreamPromised(o, object) /\ Told(o, m, d)

LEMMA AddKeeps ==
    ASSUME NEW o, NEW m, Asks(o, m), o.name = "xadd", NEW d \in Execute(m, object)
    PROVE  Keeps(o, m, d)
<1>. DEFINE p == WrittenFields(o.fields)
<1>1. p \in FieldTexts
  <2>1. o.fields \in FieldVectors
    BY DEF Asks, StreamOps
  <2>2. ~Unwritable(o)
    BY Rejected DEF Asks
  <2>. QED
    BY <2>1, <2>2, InputTypes, WrittenTexts DEF Unwritable
<1>2. m.cmd = "XADD" /\ m.options = o.options /\ m.texts = Flat(p)
  BY DEF Asks, CommandOf
<1>. HIDE DEF p
<1>3. Paired(m.texts).value = p
  BY <1>1, <1>2, PairedAgain, Outcomes
<1>4. d \in Adding(object, p, o.options)
  BY <1>2, <1>3 DEF Execute
<1>5. d \in StreamPromised(o, object)
  BY <1>4 DEF StreamPromised, p
<1>6. PICK id : (id = None \/ \E n : id = Some(n)) /\ d.shown = [id |-> id]
  <2>. DEFINE options == o.options
  <2>1. d \in Adding(object, p, options)
    BY <1>4
  <2>. HIDE DEF options
  <2>. QED
    BY <2>1, AddingShows
<1>7. Told(o, m, d)
  BY <1>6, IdTold
<1>. QED
  BY <1>5, <1>7 DEF Keeps

LEMMA CountKeeps ==
    ASSUME ObjectOK(object), NEW o, NEW m, Asks(o, m), o.name \in Counts,
           NEW d \in Execute(m, object)
    PROVE  Keeps(o, m, d)
<1>. DEFINE x == object
            All == {Counting(x, Cardinality(DOMAIN StreamOf(x).entries))}
                   \cup Deleting(x, Elems(m.ids)) \cup Trimming(x, m.trim)
                   \cup Destroying(x) \cup CreatingConsumer(x)
                   \cup DeletingConsumer(x) \cup Acknowledging(x, Elems(m.ids))
            Kept == d \in StreamPromised(o, x) /\ d \in All
<1>0. m = CommandOf(o)
  BY DEF Asks
<1>1. ASSUME o.name = "xlen" PROVE Kept
  <2>1. m.cmd = "XLEN"
    BY <1>0, <1>1 DEF CommandOf
  <2>2. d \in {Counting(x, Cardinality(DOMAIN StreamOf(x).entries))}
    BY <2>1 DEF Execute
  <2>. QED
    BY <1>1, <2>2 DEF StreamPromised
<1>2. ASSUME o.name = "xdel" PROVE Kept
  <2>1. m.cmd = "XDEL" /\ m.ids = o.ids
    BY <1>0, <1>2 DEF CommandOf
  <2>2. d \in Deleting(x, Elems(m.ids))
    BY <2>1 DEF Execute
  <2>. QED
    BY <1>2, <2>1, <2>2 DEF StreamPromised
<1>3. ASSUME o.name = "xtrim" PROVE Kept
  <2>1. m.cmd = "XTRIM" /\ m.trim = o.trim
    BY <1>0, <1>3 DEF CommandOf
  <2>2. d \in Trimming(x, m.trim)
    BY <2>1 DEF Execute
  <2>. QED
    BY <1>3, <2>1, <2>2 DEF StreamPromised
<1>4. ASSUME o.name = "xack" PROVE Kept
  <2>1. m.cmd = "XACK" /\ m.ids = o.ids
    BY <1>0, <1>4 DEF CommandOf
  <2>2. d \in Acknowledging(x, Elems(m.ids))
    BY <2>1 DEF Execute
  <2>. QED
    BY <1>4, <2>1, <2>2 DEF StreamPromised
<1>5. ASSUME o.name = "xgroup_destroy" PROVE Kept
  <2>1. m.cmd = "DESTROY"
    BY <1>0, <1>5 DEF CommandOf
  <2>2. d \in Destroying(x)
    BY <2>1 DEF Execute
  <2>. QED
    BY <1>5, <2>2 DEF StreamPromised
<1>6. ASSUME o.name = "xgroup_createconsumer" PROVE Kept
  <2>1. m.cmd = "CREATECONSUMER"
    BY <1>0, <1>6 DEF CommandOf
  <2>2. d \in CreatingConsumer(x)
    BY <2>1 DEF Execute
  <2>. QED
    BY <1>6, <2>2 DEF StreamPromised
<1>7. ASSUME o.name = "xgroup_delconsumer" PROVE Kept
  <2>1. m.cmd = "DELCONSUMER"
    BY <1>0, <1>7 DEF CommandOf
  <2>2. d \in DeletingConsumer(x)
    BY <2>1 DEF Execute
  <2>. QED
    BY <1>7, <2>2 DEF StreamPromised
<1>8. d \in StreamPromised(o, x) /\ d \in All
  BY <1>1, <1>2, <1>3, <1>4, <1>5, <1>6, <1>7 DEF Counts
<1>9. \E n \in 0 .. HALF - 1 : d.shown = [count |-> n]
  <2>1. d \in All
    BY <1>8
  <2>. QED
    BY <2>1, CountsShow
<1>. HIDE DEF All
<1>. QED
  BY <1>8, <1>9, CountTold DEF Keeps

LEMMA DoneKeeps ==
    ASSUME NEW o, NEW m, Asks(o, m), o.name \in {"xgroup_create", "xgroup_setid"},
           NEW d \in Execute(m, object)
    PROVE  Keeps(o, m, d)
<1>0. m = CommandOf(o)
  BY DEF Asks
<1>1. ASSUME o.name = "xgroup_create"
      PROVE  d \in StreamPromised(o, object) /\ d \in Creating(object, m.id, m.mkstream)
  <2>1. m.cmd = "CREATE" /\ m.id = o.id /\ m.mkstream = o.mkstream
    BY <1>0, <1>1 DEF CommandOf
  <2>2. d \in Creating(object, m.id, m.mkstream)
    BY <2>1 DEF Execute
  <2>. QED
    BY <1>1, <2>1, <2>2 DEF StreamPromised
<1>2. ASSUME o.name = "xgroup_setid"
      PROVE  d \in StreamPromised(o, object) /\ d \in Setting(object, m.id)
  <2>1. m.cmd = "SETID" /\ m.id = o.id
    BY <1>0, <1>2 DEF CommandOf
  <2>2. d \in Setting(object, m.id)
    BY <2>1 DEF Execute
  <2>. QED
    BY <1>2, <2>1, <2>2 DEF StreamPromised
<1>3. d.shown = [done |-> TRUE]
  BY <1>1, <1>2, DoneShows
<1>. QED
  BY <1>1, <1>2, <1>3, DoneTold DEF Keeps

LEMMA RangeKeeps ==
    ASSUME ObjectOK(object), NEW o, NEW m, Asks(o, m), o.name \in {"xrange", "xrevrange"},
           NEW d \in Execute(m, object)
    PROVE  Keeps(o, m, d)
<1>0. m = CommandOf(o)
  BY DEF Asks
<1>1. /\ m.cmd = (IF o.name = "xrange" THEN "XRANGE" ELSE "XREVRANGE") /\ m.count = o.count
      /\ m.from = (IF o.name = "xrange" THEN Lowest ELSE Highest)
      /\ m.to = (IF o.name = "xrange" THEN Highest ELSE Lowest)
  BY <1>0 DEF CommandOf
<1>2. IsLimit(o.count)
  BY <1>1, AskedFits DEF Fits
<1>3. d \in Ranging(object, Lowest, Highest, o.name = "xrevrange", o.count)
  <2>1. CASE o.name = "xrange"
    <3>1. d \in Ranging(object, Lowest, Highest, FALSE, o.count)
      BY <1>1, <2>1 DEF Execute
    <3>2. (o.name = "xrevrange") = FALSE
      BY <2>1
    <3>. QED
      BY <3>1, <3>2
  <2>2. CASE o.name = "xrevrange"
    <3>1. d \in Ranging(object, Lowest, Highest, TRUE, o.count)
      BY <1>1, <2>2 DEF Execute
    <3>2. (o.name = "xrevrange") = TRUE
      BY <2>2
    <3>. QED
      BY <3>1, <3>2
  <2>. QED
    BY <2>1, <2>2
<1>4. d \in StreamPromised(o, object)
  BY <1>3 DEF StreamPromised
<1>5. ShowsEntries(d)
  BY <1>2, <1>3, RangeShows
<1>6. m.cmd \notin {"XREAD", "XREADGROUP"}
  BY <1>1
<1>. QED
  BY <1>4, <1>5, <1>6, RangeTold DEF Keeps

LEMMA ReadKeeps ==
    ASSUME KeyIsRead, ObjectOK(object), NEW o, NEW m, Asks(o, m),
           o.name \in {"xread", "xreadgroup"}, NEW d \in Execute(m, object)
    PROVE  Keeps(o, m, d)
<1>0. m = CommandOf(o)
  BY DEF Asks
<1>1. /\ m.cmd = (IF o.name = "xread" THEN "XREAD" ELSE "XREADGROUP") /\ m.ids = o.ids
      /\ m.count = o.options.count /\ m.noack = o.options.noack
      /\ m.block_ms = o.options.block_ms
  BY <1>0 DEF CommandOf, ReadingOf
<1>2. IsLimit(m.count)
  BY <1>1, AskedFits DEF Fits
<1>3. CASE o.name = "xread"
  <2>1. d \in Reading(object, m.ids[1], m)
    BY <1>1, <1>3 DEF Execute
  <2>2. Reading(object, m.ids[1], m) = Reading(object, o.ids[1], o.options)
    BY <1>1, Zenon DEF Reading
  <2>3. d \in StreamPromised(o, object)
    BY <1>3, <2>1, <2>2 DEF StreamPromised
  <2>4. m.cmd = "XREAD"
    BY <1>1, <1>3
  <2>5. NothingNew(object, m.cmd = "XREADGROUP", m.ids[1]) <=> NothingNew(object, FALSE, m.ids[1])
    BY <2>4 DEF NothingNew
  <2>6. IF NothingNew(object, FALSE, m.ids[1]) THEN d.shown = [list |-> <<>>]
        ELSE ShowsEntries(d)
    BY <1>2, <2>1, ReadShows
  <2>7. IF NothingNew(object, m.cmd = "XREADGROUP", m.ids[1]) THEN d.shown = [list |-> <<>>]
        ELSE ShowsEntries(d)
    BY <2>5, <2>6
  <2>8. m.cmd \in {"XREAD", "XREADGROUP"}
    BY <2>4
  <2>9. Told(o, m, d)
    BY <2>7, <2>8, ReadTold
  <2>. QED
    BY <2>3, <2>9 DEF Keeps
<1>4. CASE o.name = "xreadgroup"
  <2>1. d \in ReadingGroup(object, m.ids[1], m)
    BY <1>1, <1>4 DEF Execute
  <2>2. ReadingGroup(object, m.ids[1], m) = ReadingGroup(object, o.ids[1], o.options)
    BY <1>1, Zenon DEF ReadingGroup
  <2>3. d \in StreamPromised(o, object)
    BY <1>4, <2>1, <2>2 DEF StreamPromised
  <2>4. m.cmd = "XREADGROUP"
    BY <1>1, <1>4
  <2>5. NothingNew(object, m.cmd = "XREADGROUP", m.ids[1]) <=> NothingNew(object, TRUE, m.ids[1])
    BY <2>4 DEF NothingNew
  <2>6. IF NothingNew(object, TRUE, m.ids[1]) THEN d.shown = [list |-> <<>>]
        ELSE ShowsEntries(d)
    BY <1>2, <2>1, GroupReadShows
  <2>7. IF NothingNew(object, m.cmd = "XREADGROUP", m.ids[1]) THEN d.shown = [list |-> <<>>]
        ELSE ShowsEntries(d)
    BY <2>5, <2>6
  <2>8. m.cmd \in {"XREAD", "XREADGROUP"}
    BY <2>4
  <2>9. Told(o, m, d)
    BY <2>7, <2>8, ReadTold
  <2>. QED
    BY <2>3, <2>9 DEF Keeps
<1>. QED
  BY <1>3, <1>4

\* A command has an effect of its operation, and its reply is read as the answer.
LEMMA AskedAgrees ==
    ASSUME KeyIsRead, ObjectOK(object), NEW o, NEW m, Asks(o, m), NEW e \in Effects(m)
    PROVE  Agrees(o, object, e)
<1>1. CASE e = Refused(object)
  <2>. DEFINE f == [object |-> object, answers |-> {Throw("redis_error")}]
  <2>1. e.object = object /\ e.reply = make_error("error")
    BY <1>1, Changed DEF Refused
  <2>2. Results(o, e.reply) = {Throw("redis_error")}
    BY <2>1, ErrorResults
  <2>3. f \in Apply(o, object) /\ f.object = e.object /\ Throw("redis_error") \in f.answers
    BY <2>1 DEF Apply
  <2>. HIDE DEF f
  <2>. QED
    BY <2>2, <2>3, OneAnswer
<1>2. ASSUME NEW d \in Execute(m, object), e = Change(d.object, d.taken, Reply(m, d.shown))
      PROVE  Agrees(o, object, e)
  <2>. DEFINE w == Answer(o, d.shown)
              f == [object |-> d.object, answers |-> {w}]
  <2>1. o.name \in {"xadd", "xrange", "xrevrange", "xread", "xreadgroup",
                    "xgroup_create", "xgroup_setid"} \cup Counts
    BY DEF Asks, StreamOps, Counts
  <2>2. Keeps(o, m, d)
    BY <2>1, AddKeeps, CountKeeps, DoneKeeps, RangeKeeps, ReadKeeps
  <2>3. e.object = d.object /\ e.reply = Reply(m, d.shown)
    BY <1>2, Changed
  <2>4. Results(o, e.reply) = {w} /\ ((\E v : w = Val(v)) \/ w = Throw("deserialize"))
    BY <2>2, <2>3 DEF Keeps, Told
  <2>5. f \in Apply(o, object)
    <3>1. Rejections(o) = {} /\ d \in StreamPromised(o, object)
      BY <2>2 DEF Asks, Keeps
    <3>. QED
      BY <3>1, Zenon DEF Apply
  <2>6. f.object = e.object /\ w \in f.answers
    BY <2>3
  <2>. HIDE DEF f, w
  <2>. QED
    BY <2>4, <2>5, <2>6, OneAnswer
<1>. QED
  BY <1>1, <1>2 DEF Effects

\* A call that ends at once is rejected, or has nothing to do.
LEMMA NothingListed ==
    ASSUME NEW x, ObjectOK(x), NEW o \in StreamOps, o.name \in {"xdel", "xack"}, o.ids = <<>>
    PROVE  Counting(x, 0) \in StreamPromised(o, x)
<1>1. Elems(o.ids) = {} /\ Cardinality({}) = 0
  <2>1. DOMAIN <<>> = {}
    OBVIOUS
  <2>. QED
    BY <2>1, FS_EmptySet DEF Elems
<1>2. CASE o.name = "xdel"
  <2>1. Deleting(x, {}) = {Counting(x, 0)}
    <3>1. \A S : {} \cap S = {}
      OBVIOUS
    <3>. QED
      BY <1>1, <3>1, Zenon DEF Deleting
  <2>. QED
    BY <1>1, <1>2, <2>1 DEF StreamPromised
<1>3. CASE o.name = "xack"
  <2>1. Counting(x, 0) \in Acknowledging(x, {})
    <3>1. CASE StreamOf(x).group = None
      BY <3>1 DEF Acknowledging
    <3>2. CASE StreamOf(x).group # None
      <4>. DEFINE s == x.stream
                  g == s.group[1]
      <4>1. x = [stream |-> s] /\ IsStream(s) /\ s.group = Some(g) /\ StreamOf(x) = s
        BY <3>2, WithGroupOK
      <4>2. g = [delivered |-> g.delivered, pending |-> g.pending]
        BY <3>2, <4>1 DEF IsStream, IsGroup, Some
      <4>3. s = [entries |-> s.entries, last |-> s.last, group |-> Some(g)]
        BY <4>1 DEF IsStream
      <4>4. Acknowledging(x, {}) = {Counting(Grouped(s, g.delivered, g.pending \ {}),
                                             Cardinality({} \cap g.pending))}
        BY <3>2, Zenon DEF Acknowledging, WithGroup
      <4>5. g.pending \ {} = g.pending /\ {} \cap g.pending = {}
        OBVIOUS
      <4>. HIDE DEF g
      <4>6. Grouped(s, g.delivered, g.pending) = x
        <5>. HIDE DEF s
        <5>1. [s EXCEPT !.group = Some(g)] = s
          BY <4>3
        <5>. QED
          BY <4>1, <4>2, <5>1 DEF Grouped
      <4>. QED
        BY <1>1, <4>4, <4>5, <4>6
    <3>. QED
      BY <3>1, <3>2
  <2>. QED
    BY <1>1, <1>3, <2>1 DEF StreamPromised
<1>. QED
  BY <1>2, <1>3

LEMMA EndsAtOnce ==
    ASSUME NEW x, ObjectOK(x), NEW o, NEW command, Sound(o, command), ~command.ok
    PROVE  OutcomeOf(command) \in AtOnce(o, x)
<1>1. CASE OutcomeOf(command) \in Rejections(o)
  BY <1>1 DEF AtOnce
<1>2. CASE o.name \in {"xdel", "xack"} /\ o.ids = <<>> /\ OutcomeOf(command) = Val(Count(0))
  <2>. DEFINE d == Counting(x, 0)
              f == [object |-> d.object, answers |-> {Answer(o, d.shown)}]
  <2>1. o \in StreamOps /\ Rejections(o) = {}
    <3>1. ~Wrong(o) /\ ~Unwritable(o)
      BY <1>2 DEF Wrong, Unwritable
    <3>. QED
      BY <3>1, Rejected DEF Sound
  <2>2. d \in StreamPromised(o, x)
    BY <1>2, <2>1, NothingListed
  <2>3. f \in Apply(o, x)
    <3>. HIDE DEF d
    <3>. QED
      BY <2>1, <2>2, Zenon DEF Apply
  <2>4. d.object = x /\ Answer(o, d.shown) = Val(Count(0))
    <3>1. d.object = x
      BY CountingOK
    <3>2. d.shown = [count |-> 0]
      BY CountingShows
    <3>3. o.name \notin {"xgroup_destroy", "xgroup_createconsumer"}
      BY <1>2
    <3>4. Answer(o, [count |-> 0]) = Val(Count(0))
      BY <3>3, ShownAnswers
    <3>. QED
      BY <3>1, <3>2, <3>4
  <2>. HIDE DEF d
  <2>5. f.object = x /\ Val(Count(0)) \in f.answers
    BY <2>4
  <2>. HIDE DEF f
  <2>. QED
    BY <1>2, <2>3, <2>5 DEF AtOnce
<1>. QED
  BY <1>1, <1>2 DEF Sound
-----------------------------------------------------------------------------
(* The mapping to LinearObject.                                             *)

AnswersOf(c) ==
    CASE ~busy[c] -> IdleAnswers
      [] busy[c] /\ rep[c] # NoMsg -> Results(op[c], rep[c])
      [] busy[c] /\ rep[c] = NoMsg /\ req[c] # NoMsg -> PendingAnswers
      [] OTHER -> LostAnswers

Answers == [c \in Client |-> AnswersOf(c)]

\* Markers are told apart from one another and from what a call returns.
LEMMA MarkersDiffer ==
    /\ IdleAnswers # PendingAnswers /\ IdleAnswers # LostAnswers
    /\ PendingAnswers # LostAnswers
    /\ \A R : Returnable(R) => R \notin {IdleAnswers, PendingAnswers, LostAnswers}
<1>1. /\ Throw("idle") # Throw("pending") /\ Throw("idle") # Throw("lost")
      /\ Throw("pending") # Throw("lost")
  <2>1. \A e, f : Throw(e) = Throw(f) => e = f
    BY DEF Throw
  <2>. QED
    BY <2>1
<1>. QED
  BY <1>1, Zenon DEF IdleAnswers, PendingAnswers, LostAnswers, Returnable, Markers

\* What a client shows of itself, when its call is idle, pending, lost or answered.
LEMMA AnswersAt ==
    ASSUME NEW c \in Client, ClientOK(c), Meaningful(c)
    PROVE  /\ ~busy[c] <=> AnswersOf(c) = IdleAnswers
           /\ busy[c] /\ req[c] # NoMsg <=> AnswersOf(c) = PendingAnswers
           /\ busy[c] /\ req[c] = NoMsg /\ rep[c] = NoMsg <=> AnswersOf(c) = LostAnswers
           /\ rep[c] # NoMsg => AnswersOf(c) = Results(op[c], rep[c])
<1>1. rep[c] # NoMsg => busy[c] /\ Returnable(Results(op[c], rep[c]))
  BY DEF ClientOK, Meaningful
<1>2. req[c] # NoMsg => busy[c] /\ rep[c] = NoMsg
  BY DEF ClientOK
<1>3. CASE ~busy[c]
  <2>1. AnswersOf(c) = IdleAnswers
    BY <1>3 DEF AnswersOf
  <2>. QED
    BY <2>1, <1>1, <1>2, <1>3, MarkersDiffer
<1>4. CASE rep[c] # NoMsg
  <2>1. AnswersOf(c) = Results(op[c], rep[c])
    BY <1>1, <1>4 DEF AnswersOf
  <2>. QED
    BY <2>1, <1>1, <1>2, <1>4, MarkersDiffer
<1>5. CASE busy[c] /\ rep[c] = NoMsg /\ req[c] # NoMsg
  <2>1. AnswersOf(c) = PendingAnswers
    BY <1>5 DEF AnswersOf
  <2>. QED
    BY <2>1, <1>1, <1>2, <1>5, MarkersDiffer
<1>6. CASE busy[c] /\ rep[c] = NoMsg /\ req[c] = NoMsg
  <2>1. AnswersOf(c) = LostAnswers
    BY <1>6 DEF AnswersOf
  <2>. QED
    BY <2>1, <1>1, <1>2, <1>6, MarkersDiffer
<1>. QED
  BY <1>3, <1>4, <1>5, <1>6
-----------------------------------------------------------------------------
(* The steps, as LinearObject sees them.                                    *)

\* The mapping, in short.
LEMMA Mapping ==
    Answers = [c \in Client |->
                   CASE ~busy[c] -> IdleAnswers
                     [] busy[c] /\ rep[c] # NoMsg -> Results(op[c], rep[c])
                     [] busy[c] /\ rep[c] = NoMsg /\ req[c] # NoMsg -> PendingAnswers
                     [] OTHER -> LostAnswers]
BY DEF Answers, AnswersOf

LEMMA MappingPrime ==
    Answers' = [c \in Client |->
                   CASE ~busy'[c] -> IdleAnswers
                     [] busy'[c] /\ rep'[c] # NoMsg -> Results(op'[c], rep'[c])
                     [] busy'[c] /\ rep'[c] = NoMsg /\ req'[c] # NoMsg -> PendingAnswers
                     [] OTHER -> LostAnswers]
BY DEF Answers, AnswersOf

\* A step leaves the other clients alone.
OnlyOf(c) ==
    \A d \in Client \ {c} :
        /\ busy'[d] = busy[d] /\ req'[d] = req[d] /\ rep'[d] = rep[d]
        /\ stray'[d] = stray[d] /\ op'[d] = op[d]

LEMMA OneClient ==
    ASSUME NEW c \in Client, OnlyOf(c)
    PROVE  /\ Answers' = [Answers EXCEPT ![c] = AnswersOf(c)']
           /\ AnswersOf(c)' = AnswersOf(c) => Answers' = Answers
           /\ Answers[c] = AnswersOf(c)
<1>1. \A d \in Client \ {c} : AnswersOf(d)' = AnswersOf(d)
  BY DEF OnlyOf, AnswersOf
<1>2. Answers' = [d \in Client |-> AnswersOf(d)'] /\ Answers = [d \in Client |-> AnswersOf(d)]
  BY DEF Answers
<1>3. Answers' = [Answers EXCEPT ![c] = AnswersOf(c)']
  BY <1>1, <1>2
<1>4. [Answers EXCEPT ![c] = AnswersOf(c)] = Answers
  BY DEF Answers
<1>. QED
  BY <1>2, <1>3, <1>4

\* What an operation may do on the object that is there.
Invokes(c, o) ==
    /\ o \in StreamOps
    /\ op' = [op EXCEPT ![c] = o] /\ Answers[c] = IdleAnswers
    /\ object' = object /\ stray' = stray
    /\ \E a \in {PendingAnswers, LostAnswers} : Answers' = [Answers EXCEPT ![c] = a]
    /\ outcome' = [outcome EXCEPT ![c] = Waiting]

Comes(c, o) ==
    /\ o \in StreamOps
    /\ op' = [op EXCEPT ![c] = o] /\ Answers[c] = IdleAnswers
    /\ object' = object /\ stray' = stray
    /\ \E r \in AtOnce(o, object) : outcome' = [outcome EXCEPT ![c] = r]
    /\ Answers' = Answers

Acts(c) ==
    /\ Answers[c] = PendingAnswers
    /\ \E f \in Apply(op[c], object) :
          /\ object' = f.object
          /\ Answers'[c] = LostAnswers \/ Answers'[c] \in (SUBSET f.answers) \ {{}}
    /\ Answers' = [Answers EXCEPT ![c] = Answers'[c]]
    /\ op' = op /\ outcome' = outcome /\ stray' = stray

Loses(c) ==
    /\ Answers[c] # IdleAnswers
    /\ Answers' = [Answers EXCEPT ![c] = LostAnswers]
    /\ object' = object /\ op' = op /\ outcome' = outcome /\ stray' = stray

Ended(c, result) ==
    /\ Answers' = [Answers EXCEPT ![c] = IdleAnswers]
    /\ outcome' = [outcome EXCEPT ![c] = result]
    /\ object' = object /\ op' = op

Returns(c) ==
    /\ Answers[c] \notin {IdleAnswers, PendingAnswers, LostAnswers}
    /\ \E result \in Answers[c] : Ended(c, result)
    /\ stray' = stray

GivesUp(c) ==
    /\ Answers[c] # IdleAnswers
    /\ Ended(c, Throw("transport"))
    /\ stray' = stray

Changes ==
    /\ object' \in OthersDo(object)
    /\ op' = op /\ Answers' = Answers /\ outcome' = outcome /\ stray' = stray

Stutters ==
    /\ object' = object
    /\ op' = op /\ Answers' = Answers /\ outcome' = outcome /\ stray' = stray

AbstractStep ==
    \/ Stutters \/ Changes
    \/ \E c \in Client :
          \/ \E o : Invokes(c, o) \/ Comes(c, o)
          \/ Acts(c) \/ Loses(c) \/ Returns(c) \/ GivesUp(c)

LEMMA Mapped ==
    ASSUME AbstractStep
    PROVE  [Promise!Next]_(Promise!vars)
<1>1. CASE Stutters
  BY <1>1, Mapping, MappingPrime DEF Stutters, Promise!vars
<1>2. CASE Changes
  <2>1. Promise!Others
    BY <1>2, Mapping, MappingPrime DEF Changes, Promise!Others
  <2>. QED
    BY <2>1 DEF Promise!Next
<1>3. ASSUME NEW c \in Client, NEW o, Invokes(c, o)
      PROVE  Promise!Next
  <2>1. Promise!Invoke(c, o) /\ o \in StreamOps
    BY <1>3, Mapping, MappingPrime DEF Invokes, Promise!Invoke, Promise!Start
  <2>. QED
    BY <2>1 DEF Promise!Next
<1>4. ASSUME NEW c \in Client, NEW o, Comes(c, o)
      PROVE  Promise!Next
  <2>1. Promise!CallAndReturn(c, o) /\ o \in StreamOps
    BY <1>4, Mapping, MappingPrime DEF Comes, AtOnce, Promise!CallAndReturn, Promise!Start
  <2>. QED
    BY <2>1 DEF Promise!Next
<1>5. ASSUME NEW c \in Client, Acts(c)
      PROVE  Promise!Next
  <2>1. Promise!TakeEffect(c)
    BY <1>5, Mapping, MappingPrime DEF Acts, Promise!TakeEffect
  <2>. QED
    BY <2>1 DEF Promise!Next
<1>6. ASSUME NEW c \in Client, Loses(c)
      PROVE  Promise!Next
  <2>1. Promise!Lose(c)
    BY <1>6, Mapping, MappingPrime DEF Loses, Promise!Lose
  <2>. QED
    BY <2>1 DEF Promise!Next
<1>7. ASSUME NEW c \in Client, Returns(c)
      PROVE  Promise!Next
  <2>1. Promise!Return(c)
    BY <1>7, Mapping, MappingPrime DEF Returns, Ended, Promise!Return, Promise!End
  <2>. QED
    BY <2>1 DEF Promise!Next
<1>8. ASSUME NEW c \in Client, GivesUp(c)
      PROVE  Promise!Next
  <2>1. Promise!Fail(c)
    BY <1>8, Mapping, MappingPrime DEF GivesUp, Ended, Promise!Fail, Promise!End
  <2>. QED
    BY <2>1 DEF Promise!Next
<1>. QED
  BY <1>1, <1>2, <1>3, <1>4, <1>5, <1>6, <1>7, <1>8 DEF AbstractStep
-----------------------------------------------------------------------------
(* The steps of the clients, the server and the network.                    *)

LEMMA SoundCallStep ==
    ASSUME IInv, MInv, NEW c \in Client, ~busy[c], SoundCall(c)
    PROVE  MInv' /\ AbstractStep
<1>1. PICK o, command : Sound(o, command) /\ Call(c, o, command)
  BY DEF SoundCall
<1>2. ClientOK(c) /\ Meaningful(c) /\ ObjectOK(object) /\ Shape
  BY DEF IInv, MInv
<1>3. req[c] = NoMsg /\ rep[c] = NoMsg
  BY <1>2 DEF ClientOK
<1>4. /\ op' = [op EXCEPT ![c] = o] /\ op'[c] = o
      /\ busy'[c] = command.ok
      /\ outcome' = [outcome EXCEPT ![c] = OutcomeOf(command)]
      /\ req'[c] = IF command.ok /\ link[c] = "up" THEN command.value ELSE NoMsg
      /\ rep'[c] = NoMsg /\ stray' = stray /\ object' = object
  BY <1>1, <1>2, <1>3 DEF Call, Shape
<1>5. OnlyOf(c)
  BY <1>1, <1>2 DEF OnlyOf, Call, Shape
<1>6. Meaningful(c)'
  BY <1>1, <1>2, <1>3, <1>4 DEF Meaningful, Sound
<1>7. MInv'
  BY <1>5, <1>6 DEF MInv, Meaningful, OnlyOf
<1>9. Answers[c] = IdleAnswers /\ stray' = stray
  BY <1>2, <1>4, <1>5, AnswersAt, OneClient
<1>10. CASE command.ok
  <2>1. AnswersOf(c)' \in {PendingAnswers, LostAnswers}
    BY <1>3, <1>4, <1>10 DEF AnswersOf
  <2>2. Answers' = [Answers EXCEPT ![c] = AnswersOf(c)']
    BY <1>5, OneClient
  <2>3. outcome' = [outcome EXCEPT ![c] = Waiting]
    BY <1>4, <1>10 DEF OutcomeOf
  <2>4. Invokes(c, o)
    BY <1>1, <1>4, <1>9, <2>1, <2>2, <2>3 DEF Invokes, Sound
  <2>. QED
    BY <1>7, <2>4 DEF AbstractStep
<1>11. CASE ~command.ok
  <2>1. AnswersOf(c)' = IdleAnswers /\ AnswersOf(c) = IdleAnswers
    BY <1>4, <1>11 DEF AnswersOf
  <2>2. Answers' = Answers
    BY <1>5, <2>1, OneClient
  <2>3. OutcomeOf(command) \in AtOnce(o, object)
    BY <1>1, <1>2, <1>11, EndsAtOnce
  <2>4. Comes(c, o)
    BY <1>1, <1>4, <1>9, <2>2, <2>3 DEF Comes, Sound
  <2>. QED
    BY <1>7, <2>4 DEF AbstractStep
<1>. QED
  BY <1>10, <1>11

LEMMA ReturnStep ==
    ASSUME IInv, MInv, NEW c \in Client, Return(c)
    PROVE  MInv' /\ AbstractStep
<1>1. PICK result \in Results(op[c], rep[c]) : Finish(c, result)
  BY DEF Return
<1>2. ClientOK(c) /\ Meaningful(c) /\ Shape /\ rep[c] # NoMsg
  BY DEF IInv, MInv, Return
<1>3. req[c] = NoMsg
  BY <1>2 DEF ClientOK
<1>4. /\ rep'[c] = NoMsg /\ busy'[c] = FALSE /\ req'[c] = NoMsg
      /\ outcome' = [outcome EXCEPT ![c] = result]
      /\ stray'[c] = stray[c] /\ object' = object /\ op' = op
  BY <1>1, <1>2, <1>3 DEF Finish, Shape
<1>5. OnlyOf(c)
  BY <1>1, <1>2 DEF OnlyOf, Finish, Shape
<1>6. Meaningful(c)'
  BY <1>2, <1>4 DEF Meaningful
<1>7. MInv'
  BY <1>5, <1>6 DEF MInv, Meaningful, OnlyOf
<1>8. AnswersOf(c) = Results(op[c], rep[c])
      /\ AnswersOf(c) \notin {IdleAnswers, PendingAnswers, LostAnswers}
  BY <1>2, AnswersAt, MarkersDiffer DEF Meaningful
<1>9. AnswersOf(c)' = IdleAnswers
  BY <1>4 DEF AnswersOf
<1>10. Returns(c)
  <2>1. Answers[c] = AnswersOf(c) /\ Answers' = [Answers EXCEPT ![c] = IdleAnswers]
    BY <1>5, <1>9, OneClient
  <2>2. Ended(c, result)
    BY <1>4, <2>1 DEF Ended
  <2>3. stray' = stray
    BY <1>1 DEF Finish
  <2>4. result \in Answers[c]
    BY <1>1, <1>8, <2>1
  <2>. QED
    BY <1>8, <2>1, <2>2, <2>3, <2>4 DEF Returns
<1>. QED
  BY <1>7, <1>10 DEF AbstractStep

LEMMA TransportErrorStep ==
    ASSUME NothingLate, IInv, MInv, NEW c \in Client, TransportError(c)
    PROVE  MInv' /\ AbstractStep
<1>1. ClientOK(c) /\ Meaningful(c) /\ Shape /\ rep[c] = NoMsg /\ busy[c]
  BY DEF IInv, MInv, TransportError
<1>2. /\ rep'[c] = NoMsg /\ busy'[c] = FALSE /\ req'[c] = NoMsg
      /\ outcome' = [outcome EXCEPT ![c] = Throw("transport")]
      /\ object' = object /\ op' = op
  BY <1>1 DEF TransportError, Shape
<1>3. OnlyOf(c)
  BY <1>1 DEF OnlyOf, TransportError, Shape
<1>4. AnswersOf(c)' = IdleAnswers
  BY <1>2 DEF AnswersOf
<1>5. Answers' = [Answers EXCEPT ![c] = IdleAnswers] /\ Answers[c] = AnswersOf(c)
      /\ Answers[c] # IdleAnswers
  BY <1>1, <1>3, <1>4, OneClient, AnswersAt
<1>6. Ended(c, Throw("transport"))
  BY <1>2, <1>5 DEF Ended
<1>7. stray' = stray
  <2>1. stray[c] = <<>> /\ ~(Len(<<>>) < MaxStray)
    BY <1>1 DEF Meaningful, NothingLate
  <2>. QED
    BY <2>1 DEF TransportError
<1>8. Meaningful(c)'
  BY <1>1, <1>2, <1>7 DEF Meaningful
<1>9. MInv'
  BY <1>3, <1>8 DEF MInv, Meaningful, OnlyOf
<1>10. GivesUp(c)
  BY <1>5, <1>6, <1>7 DEF GivesUp
<1>. QED
  BY <1>9, <1>10 DEF AbstractStep

LEMMA ReconnectStep ==
    ASSUME IInv, MInv, NEW c \in Client, Reconnect(c)
    PROVE  MInv' /\ AbstractStep
<1>1. UNCHANGED <<object, req, rep, stray, callVars>>
  BY DEF Reconnect
<1>2. MInv'
  BY <1>1 DEF MInv, Meaningful, callVars
<1>3. Answers' = Answers /\ stray' = stray
  BY <1>1 DEF Answers, AnswersOf, callVars
<1>4. Stutters
  BY <1>1, <1>3 DEF Stutters, callVars
<1>. QED
  BY <1>2, <1>4 DEF AbstractStep

LEMMA ServeCommandStep ==
    ASSUME KeyIsRead, IInv, MInv, NEW c \in Client, ServeCommand(c)
    PROVE  MInv' /\ AbstractStep
<1>1. PICK e \in Effects(req[c]) :
          /\ object' = e.object
          /\ rep' = IF link[c] = "up" THEN [rep EXCEPT ![c] = e.reply] ELSE rep
  BY DEF ServeCommand, Serve
<1>2. req[c] # NoMsg /\ req' = [req EXCEPT ![c] = NoMsg] /\ UNCHANGED <<link, stray, callVars>>
  BY DEF ServeCommand, Serve
<1>3. ClientOK(c) /\ Meaningful(c) /\ ObjectOK(object) /\ Shape
  BY DEF IInv, MInv
<1>4. busy[c] /\ rep[c] = NoMsg
  BY <1>2, <1>3 DEF ClientOK
<1>5. Agrees(op[c], object, e)
  BY <1>1, <1>2, <1>3, AskedAgrees DEF ClientOK
<1>6. PICK f \in Apply(op[c], object) :
          f.object = e.object /\ Results(op[c], e.reply) \subseteq f.answers
  BY <1>5 DEF Agrees
<1>7. /\ req'[c] = NoMsg /\ rep'[c] = (IF link[c] = "up" THEN e.reply ELSE NoMsg)
      /\ stray' = stray /\ busy'[c] = TRUE /\ op' = op /\ outcome' = outcome
  BY <1>1, <1>2, <1>3, <1>4 DEF Shape, callVars, ClientOK
<1>8. OnlyOf(c)
  BY <1>1, <1>2, <1>3 DEF OnlyOf, Shape, callVars
<1>9. Returnable(Results(op[c], e.reply))
  BY <1>5 DEF Agrees
<1>10. Meaningful(c)'
  BY <1>3, <1>4, <1>7, <1>9 DEF Meaningful
<1>11. MInv'
  BY <1>8, <1>10 DEF MInv, Meaningful, OnlyOf
<1>12. /\ Answers[c] = PendingAnswers /\ stray' = stray
       /\ Answers' = [Answers EXCEPT ![c] = AnswersOf(c)'] /\ Answers'[c] = AnswersOf(c)'
  <2>1. AnswersOf(c) = PendingAnswers
    BY <1>2, <1>3, <1>4, AnswersAt
  <2>2. Answers' = [Answers EXCEPT ![c] = AnswersOf(c)'] /\ DOMAIN Answers = Client
    BY <1>8, OneClient DEF Answers
  <2>. QED
    BY <1>7, <1>8, <2>1, <2>2, OneClient
<1>14. AnswersOf(c)' = LostAnswers \/ AnswersOf(c)' \in (SUBSET f.answers) \ {{}}
  <2>1. CASE link[c] = "up"
    <3>1. rep'[c] = e.reply
      BY <1>7, <2>1
    <3>2. CASE e.reply = NoMsg
      <4>1. AnswersOf(c)' = LostAnswers
        BY <1>7, <3>1, <3>2 DEF AnswersOf
      <4>. QED
        BY <4>1
    <3>3. CASE e.reply # NoMsg
      <4>1. AnswersOf(c)' = Results(op[c], e.reply)
        BY <1>7, <3>1, <3>3 DEF AnswersOf
      <4>2. \A R, A : R # {} /\ R \subseteq A => R \in (SUBSET A) \ {{}}
        OBVIOUS
      <4>3. Results(op[c], e.reply) # {}
        BY <1>9 DEF Returnable
      <4>4. Results(op[c], e.reply) \in (SUBSET f.answers) \ {{}}
        BY <1>6, <4>2, <4>3, Zenon
      <4>. QED
        BY <4>1, <4>4
    <3>. QED
      BY <3>2, <3>3
  <2>2. CASE link[c] # "up"
    <3>1. AnswersOf(c)' = LostAnswers
      BY <1>4, <1>7, <2>2 DEF AnswersOf
    <3>. QED
      BY <3>1
  <2>. QED
    BY <1>4, <2>1, <2>2
<1>15. Acts(c)
  BY <1>1, <1>6, <1>7, <1>12, <1>14 DEF Acts
<1>. QED
  BY <1>11, <1>15 DEF AbstractStep

LEMMA DropStep ==
    ASSUME IInv, MInv, NEW c \in Client, Drop(c)
    PROVE  MInv' /\ AbstractStep
<1>1. ClientOK(c) /\ Meaningful(c) /\ Shape
  BY DEF IInv, MInv
<1>2. /\ object' = object /\ stray' = stray /\ busy' = busy /\ op' = op /\ outcome' = outcome
      /\ \/ req' = req /\ rep' = rep
         \/ req'[c] = NoMsg /\ rep'[c] = NoMsg
  BY <1>1 DEF Drop, callVars, Shape
<1>3. OnlyOf(c)
  BY <1>1 DEF OnlyOf, Drop, callVars, Shape
<1>4. Meaningful(c)'
  BY <1>1, <1>2 DEF Meaningful
<1>5. MInv'
  BY <1>3, <1>4 DEF MInv, Meaningful, OnlyOf
<1>6. stray' = stray
  BY <1>2
<1>7. CASE AnswersOf(c)' = AnswersOf(c)
  <2>1. Answers' = Answers
    BY <1>3, <1>7, OneClient
  <2>2. Stutters
    BY <1>2, <1>6, <2>1 DEF Stutters
  <2>. QED
    BY <1>5, <2>2 DEF AbstractStep
<1>8. CASE AnswersOf(c)' # AnswersOf(c)
  <2>1. req'[c] = NoMsg /\ rep'[c] = NoMsg
    BY <1>2, <1>8 DEF AnswersOf
  <2>2. busy[c] /\ AnswersOf(c)' = LostAnswers
    BY <1>1, <1>2, <1>8, <2>1 DEF AnswersOf, ClientOK
  <2>3. Answers[c] # IdleAnswers /\ Answers' = [Answers EXCEPT ![c] = LostAnswers]
    BY <1>1, <1>3, <2>2, OneClient, AnswersAt
  <2>4. Loses(c)
    BY <1>2, <1>6, <2>3 DEF Loses
  <2>. QED
    BY <1>5, <2>4 DEF AbstractStep
<1>. QED
  BY <1>7, <1>8

LEMMA OthersStepMapped ==
    ASSUME IInv, MInv, OthersStep
    PROVE  MInv' /\ AbstractStep
<1>1. UNCHANGED <<req, rep, stray, busy, op, outcome>> /\ object' \in OthersDo(object)
  BY DEF OthersStep, netVars, callVars
<1>2. MInv'
  BY <1>1 DEF MInv, Meaningful
<1>3. Answers' = Answers
  BY <1>1 DEF Answers, AnswersOf
<1>4. Changes
  BY <1>1, <1>3 DEF Changes
<1>. QED
  BY <1>2, <1>4 DEF AbstractStep
-----------------------------------------------------------------------------
(* The view implements the linear object.                                   *)

LEMMA InitMapped == Init => MInv /\ Promise!Init
<1>. SUFFICES ASSUME Init PROVE MInv /\ Promise!Init
  OBVIOUS
<1>1. \A c \in Client : /\ req[c] = NoMsg /\ rep[c] = NoMsg /\ stray[c] = <<>>
                        /\ busy[c] = FALSE
  BY DEF Init
<1>2. MInv
  BY <1>1 DEF MInv, Meaningful
<1>3. Answers = [c \in Client |-> IdleAnswers]
  BY <1>1 DEF Answers, AnswersOf
<1>4. /\ op = [c \in Client |-> NoOp] /\ outcome = [c \in Client |-> Waiting]
      /\ stray = [c \in Client |-> <<>>] /\ object = NoObject
  BY DEF Init
<1>. QED
  BY <1>2, <1>3, <1>4, Mapping DEF Promise!Init

LEMMA UnchangedMapped ==
    ASSUME MInv, UNCHANGED vars
    PROVE  MInv' /\ AbstractStep
<1>1. UNCHANGED <<object, req, rep, stray, busy, op, outcome>>
  BY DEF vars, netVars, callVars
<1>2. MInv'
  BY <1>1 DEF MInv, Meaningful
<1>3. Answers' = Answers
  BY <1>1 DEF Answers, AnswersOf
<1>. QED
  BY <1>1, <1>2, <1>3 DEF AbstractStep, Stutters

LEMMA NextMapped ==
    ASSUME NothingLate, KeyIsRead
    PROVE  IInv /\ MInv /\ [Next]_vars =>
               IInv' /\ MInv' /\ [Promise!Next]_(Promise!vars)
<1>. SUFFICES ASSUME IInv, MInv, [Next]_vars PROVE MInv' /\ AbstractStep
  BY NextIInv, Mapped
<1>1. ASSUME NEW c \in Client, StreamCall(c)
      PROVE  MInv' /\ AbstractStep
  BY <1>1, StreamCallSound, SoundCallStep
<1>2. CASE UNCHANGED vars
  BY <1>2, UnchangedMapped
<1>. QED
  BY <1>1, <1>2, ReturnStep, TransportErrorStep, ReconnectStep, ServeCommandStep,
     DropStep, OthersStepMapped DEF Next

\* Every call of the stream view (default_stream_operations, redis_client) takes
\* effect at most once and at one moment, and gives what that effect answers with
\* every entry, field and order kept, or is rejected instead of sent; if the key
\* the program uses is one it can read, and no command comes late.
THEOREM StreamIsLinear ==
    ASSUME NothingLate, KeyIsRead
    PROVE  Spec => ImplementsStream
<1>1. Spec => Promise!Init /\ [][Promise!Next]_(Promise!vars)
  BY InitIInv, InitMapped, NextMapped, PTL DEF Spec
<1>. QED
  BY <1>1 DEF ImplementsStream, Promise!Spec
=============================================================================
