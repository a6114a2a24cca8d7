-------------------------- MODULE ConversionProofs --------------------------
(***************************************************************************)
(* Proofs about Conversions, for any replies, trees, numbers and URLs.     *)
(***************************************************************************)
EXTENDS Conversions, ReadingLemmas, FiniteSetTheorems, SequenceTheorems

-----------------------------------------------------------------------------
(* A behaviour is one conversion: of a reply, or of an input.               *)

OneConversion ==
    /\ input = None => raw \in Delivered /\ decoder \in Decoders
    /\ input # None => outcome = None

LEMMA InputsDiffer ==
    /\ None \notin Numbers \cup Urls
    /\ Numbers \cap Urls = {}
<1>1. DOMAIN None = {}
  BY DEF None
<1>2. \A n \in Numbers : DOMAIN n = {"type", "text"}
  BY InputsAssumption
<1>3. \A u \in Urls : DOMAIN u = {"url"}
  BY InputsAssumption
<1>. QED
  BY <1>1, <1>2, <1>3

LEMMA OneConversionHolds == ConversionSpec => []OneConversion
<1>1. ConvertsReply \/ ConvertsText => OneConversion
  <2>1. ASSUME ConvertsReply PROVE OneConversion
    <3>1. decoder \in Decoders /\ input = None
      BY <2>1 DEF ConvertsReply, Init
    <3>2. raw \in Delivered
      BY <2>1 DEF ConvertsReply, Init, Delivered
    <3>. QED
      BY <3>1, <3>2 DEF OneConversion
  <2>2. ASSUME ConvertsText PROVE OneConversion
    BY <2>2, InputsDiffer DEF ConvertsText, OneConversion
  <2>. QED
    BY <2>1, <2>2
<1>2. OneConversion /\ [ReceiveReply \/ ReadNumber \/ ReadUrl]_allVars => OneConversion'
  <2>. SUFFICES ASSUME OneConversion, [ReceiveReply \/ ReadNumber \/ ReadUrl]_allVars
                PROVE  OneConversion'
    OBVIOUS
  <2>1. CASE ReceiveReply
    BY <2>1 DEF ReceiveReply, Receive, OneConversion
  <2>2. CASE ReadNumber
    BY <2>2 DEF ReadNumber, OneConversion, vars
  <2>3. CASE ReadUrl
    BY <2>3 DEF ReadUrl, OneConversion, vars
  <2>4. CASE UNCHANGED allVars
    BY <2>4 DEF allVars, vars, OneConversion
  <2>. QED
    BY <2>1, <2>2, <2>3, <2>4
<1>. QED
  BY <1>1, <1>2, PTL DEF ConversionSpec

\* A text is read as the number it denotes, in every integer type.
THEOREM NumbersAreRead == ConversionSpec => []NumbersMeanWhatTheySay
<1>1. ConvertsReply \/ ConvertsText => NumbersMeanWhatTheySay
  BY DEF ConvertsReply, ConvertsText, NumbersMeanWhatTheySay
<1>2. /\ NumbersMeanWhatTheySay
      /\ [ReceiveReply \/ ReadNumber \/ ReadUrl]_allVars
      => NumbersMeanWhatTheySay'
  <2>. SUFFICES ASSUME NumbersMeanWhatTheySay,
                       [ReceiveReply \/ ReadNumber \/ ReadUrl]_allVars
                PROVE  NumbersMeanWhatTheySay'
    OBVIOUS
  <2>1. CASE ReceiveReply
    BY <2>1 DEF ReceiveReply, NumbersMeanWhatTheySay
  <2>2. CASE ReadNumber
    <3>1. input \in Numbers /\ input' = input
          /\ output' = from_string(input.type, input.text)
      BY <2>2 DEF ReadNumber
    <3>2. input.type \in IntegerTypes /\ input.text \in Texts
      BY <3>1, InputsAssumption
    <3>3. output' = MeansOf(input.type, input.text)
      BY <3>1, <3>2, FromStringMeans
    <3>. QED
      BY <3>1, <3>3 DEF NumbersMeanWhatTheySay
  <2>3. CASE ReadUrl
    BY <2>3, InputsDiffer DEF ReadUrl, NumbersMeanWhatTheySay
  <2>4. CASE UNCHANGED allVars
    BY <2>4 DEF allVars, NumbersMeanWhatTheySay
  <2>. QED
    BY <2>1, <2>2, <2>3, <2>4
<1>. QED
  BY <1>1, <1>2, PTL DEF ConversionSpec
-----------------------------------------------------------------------------
(* What hiredis delivered, converted: a tree is converted once its parts    *)
(* are, and there are finitely many.                                        *)

\* A tree has more parts than each of its elements.
LEMMA PartsOfParts ==
    ASSUME NEW tree \in Delivered, NEW r \in Parts(tree)
    PROVE  /\ Cardinality(Parts(r)) \in Nat
           /\ Cardinality(Parts(r)) <= Cardinality(Parts(tree))
           /\ IsArray(r) =>
                /\ r.items \in Seq(Parts(tree))
                /\ \A i \in DOMAIN r.items :
                      /\ r.items[i] \in Parts(tree)
                      /\ Cardinality(Parts(r.items[i])) < Cardinality(Parts(r))
<1>1. /\ IsFiniteSet(Parts(tree)) /\ r \in Parts(r) /\ Parts(r) \subseteq Parts(tree)
      /\ IsArray(r) =>
            /\ r.items \in Seq(Parts(r))
            /\ \A i \in DOMAIN r.items : Parts(r.items[i]) \subseteq Parts(r) \ {r}
  BY PartsAssumption DEF IsArray
<1>2. /\ IsFiniteSet(Parts(r)) /\ Cardinality(Parts(r)) \in Nat
      /\ Cardinality(Parts(r)) <= Cardinality(Parts(tree))
  BY <1>1, FS_Subset, FS_CardinalityType
<1>3. ASSUME IsArray(r)
      PROVE  /\ r.items \in Seq(Parts(tree))
             /\ \A i \in DOMAIN r.items :
                   /\ r.items[i] \in Parts(tree)
                   /\ Cardinality(Parts(r.items[i])) < Cardinality(Parts(r))
  <2>1. r.items \in Seq(Parts(tree))
    BY <1>1, <1>3
  <2>2. ASSUME NEW i \in DOMAIN r.items
        PROVE  Cardinality(Parts(r.items[i])) < Cardinality(Parts(r))
    <3>1. Parts(r.items[i]) \subseteq Parts(r) /\ Parts(r.items[i]) # Parts(r)
      BY <1>1, <1>3
    <3>. QED
      BY <3>1, <1>2, FS_Subset, FS_CardinalityType
  <2>. QED
    BY <2>1, <2>2
<1>. QED
  BY <1>2, <1>3

\* A conversion looks only at what the elements were converted to.
LEMMA ConversionLooksAtElements ==
    ASSUME NEW f, NEW g, NEW r,
           IsArray(r) => \A i \in DOMAIN r.items : f[r.items[i]] = g[r.items[i]]
    PROVE  Conversion(f, r) = Conversion(g, r)
<1>1. CASE r.type # "ARRAY"
  BY <1>1 DEF Conversion
<1>2. CASE r.type = "ARRAY" /\ "items" \notin DOMAIN r
  BY <1>2 DEF Conversion
<1>3. CASE IsArray(r)
  <2>. DEFINE element(h, e) == IF e.type = "NULL" THEN Malformed ELSE h[e]
              elements(h) == [i \in DOMAIN r.items |-> element(h, r.items[i])]
              array(h) == Bind(Collected(elements(h)), LAMBDA items : Val(make_array(items)))
  <2>1. \A h : Conversion(h, r) = array(h)
    BY <1>3 DEF IsArray, Conversion, DecodeAll, Once
  <2>2. elements(f) = elements(g)
    BY <1>3
  <2>. QED
    BY <2>1, <2>2
<1>. QED
  BY <1>1, <1>2, <1>3 DEF IsArray

\* There is a conversion of every tree: those of its parts, the smaller ones
\* first.
LEMMA EveryTreeIsConverted ==
    ASSUME NEW tree \in Delivered
    PROVE  \E f : f = [r \in Parts(tree) |-> Conversion(f, r)]
<1>. DEFINE Smaller(n) == {r \in Parts(tree) : Cardinality(Parts(r)) < n}
            Works(n) == \E f : f = [r \in Smaller(n) |-> Conversion(f, r)]
            bad == {n \in Nat : ~Works(n)}
<1>1. Works(0)
  <2>1. Smaller(0) = {}
    BY PartsOfParts
  <2>. DEFINE f == [r \in Smaller(0) |-> 0]
  <2>2. f = [r \in Smaller(0) |-> Conversion(f, r)]
    BY <2>1
  <2>. QED
    BY <2>2
<1>2. ASSUME NEW n \in Nat, n # 0, Works(n - 1)
      PROVE  Works(n)
  <2>1. PICK g : g = [r \in Smaller(n - 1) |-> Conversion(g, r)]
    BY <1>2
  <2>. DEFINE f == [r \in Smaller(n) |-> Conversion(g, r)]
  <2>2. \A r \in Smaller(n - 1) : f[r] = g[r]
    <3>. SUFFICES ASSUME NEW r \in Smaller(n - 1)
                  PROVE  f[r] = g[r]
      OBVIOUS
    <3>1. r \in Smaller(n)
      BY <1>2, PartsOfParts
    <3>2. g[r] = Conversion(g, r)
      BY <2>1
    <3>. QED
      BY <3>1, <3>2
  <2>3. \A r \in Smaller(n) : Conversion(g, r) = Conversion(f, r)
    <3>. SUFFICES ASSUME NEW r \in Smaller(n)
                  PROVE  Conversion(g, r) = Conversion(f, r)
      OBVIOUS
    <3>1. ASSUME IsArray(r), NEW i \in DOMAIN r.items
          PROVE  g[r.items[i]] = f[r.items[i]]
      <4>1. /\ r.items[i] \in Parts(tree)
            /\ Cardinality(Parts(r.items[i])) < Cardinality(Parts(r))
        BY <3>1, PartsOfParts
      <4>2. Cardinality(Parts(r.items[i])) \in Nat /\ Cardinality(Parts(r)) \in Nat
        BY <4>1, PartsOfParts
      <4>3. r.items[i] \in Smaller(n - 1)
        BY <4>1, <4>2, <1>2
      <4>. HIDE DEF f
      <4>. QED
        BY <4>3, <2>2
    <3>. HIDE DEF f
    <3>. QED
      BY <3>1, ConversionLooksAtElements
  <2>4. f = [r \in Smaller(n) |-> Conversion(f, r)]
    BY <2>3
  <2>. QED
    BY <2>4
<1>3. bad = {}
  <2>. HIDE DEF Works
  <2>1. SUFFICES ASSUME bad # {} PROVE FALSE
    OBVIOUS
  <2>2. PICK n \in bad : \A m \in bad : n <= m
    BY <2>1, LeastOf
  <2>3. n # 0 /\ n - 1 \in Nat /\ n - 1 \notin bad
    BY <2>2, <1>1
  <2>. QED
    BY <2>2, <2>3, <1>2
<1>4. Cardinality(Parts(tree)) \in Nat
  BY PartsAssumption, FS_CardinalityType
<1>5. Smaller(Cardinality(Parts(tree)) + 1) = Parts(tree)
  BY <1>4, PartsOfParts
<1>6. Works(Cardinality(Parts(tree)) + 1)
  <2>. HIDE DEF Works
  <2>. QED
    BY <1>3, <1>4
<1>. QED
  BY <1>5, <1>6

LEMMA ConvertReplyIsConversion ==
    ASSUME NEW tree \in Delivered
    PROVE  \E f : /\ f = [r \in Parts(tree) |-> Conversion(f, r)]
                  /\ convert_reply(tree) = f[tree]
<1>. DEFINE f == CHOOSE g : g = [r \in Parts(tree) |-> Conversion(g, r)]
<1>1. f = [r \in Parts(tree) |-> Conversion(f, r)]
  BY EveryTreeIsConverted
<1>2. convert_reply(tree) = f[tree]
  BY DEF convert_reply
<1>. QED
  BY <1>1, <1>2
-----------------------------------------------------------------------------
(* What a conversion gives: a value, or one of the exceptions the code      *)
(* throws; and every reply in it has the member that goes with its type.    *)

Fine(x) == (\E v : x = Val(v)) \/ (\E e \in Errors : x = Throw(e))

\* All the elements that the replies in S have are in S themselves.
WellBuilt(S) ==
    \A r \in S :
        /\ r.type \in {"STRING", "STATUS", "ERROR"} => "str" \in DOMAIN r
        /\ r.type = "INTEGER" => "int" \in DOMAIN r
        /\ r.type = "ARRAY" => "items" \in DOMAIN r /\ r.items \in Seq(S)

LEMMA FineCases ==
    /\ \A v : Fine(Val(v))
    /\ \A e \in Errors : Fine(Throw(e))
    /\ \A x : Fine(x) => x = Val(x.value) \/ ~x.ok
    /\ Fine(Malformed) /\ Fine(Unexpected) /\ ~Malformed.ok /\ ~Unexpected.ok
BY Outcomes DEF Fine, Errors, Malformed, Unexpected

\* A loop whose steps are fine is fine; it has a value if all of them have.
LEMMA CollectedFine ==
    ASSUME NEW n \in Nat, NEW results, DOMAIN results = 1 .. n,
           \A i \in 1 .. n : Fine(results[i])
    PROVE  /\ Fine(Collected(results))
           /\ Collected(results).ok =>
                /\ Collected(results) = Val([i \in 1 .. n |-> results[i].value])
                /\ \A i \in 1 .. n : results[i] = Val(results[i].value)
<1>1. CASE /\ \A i \in 1 .. n : results[i].ok
           /\ Collected(results) = Val([i \in 1 .. n |-> results[i].value])
  <2>1. \A i \in 1 .. n : results[i] = Val(results[i].value)
    BY <1>1, FineCases
  <2>. QED
    BY <1>1, <2>1, FineCases
<1>2. ASSUME NEW i \in 1 .. n, ~results[i].ok, Collected(results) = results[i]
      PROVE  Fine(Collected(results)) /\ ~Collected(results).ok
  BY <1>2
<1>. QED
  BY <1>1, <1>2, CollectedResult

LEMMA ConversionGives ==
    ASSUME NEW f, NEW r,
           IsArray(r) => /\ Len(r.items) \in Nat /\ DOMAIN r.items = 1 .. Len(r.items)
                         /\ \A i \in DOMAIN r.items : Fine(f[r.items[i]])
    PROVE  /\ Fine(Conversion(f, r))
           /\ Conversion(f, r).ok =>
                LET v == Conversion(f, r).value
                IN  /\ v.type \in {"STRING", "STATUS", "ERROR"} => "str" \in DOMAIN v
                    /\ v.type = "INTEGER" => "int" \in DOMAIN v
                    /\ v.type = "ARRAY" =>
                        /\ IsArray(r)
                        /\ v = make_array([i \in DOMAIN r.items |-> f[r.items[i]].value])
                        /\ \A i \in DOMAIN r.items : f[r.items[i]].ok
<1>1. CASE r.type \in {"STRING", "STATUS", "ERROR"}
  <2>1. Conversion(f, r) = IF "str" \in DOMAIN r THEN Val(r) ELSE Malformed
    BY <1>1 DEF Conversion
  <2>. QED
    BY <1>1, <2>1, FineCases, Outcomes
<1>2. CASE r.type = "INTEGER"
  <2>1. Conversion(f, r) = Val(make_integer(r.int))
    BY <1>2 DEF Conversion
  <2>2. make_integer(r.int).type = "INTEGER" /\ "int" \in DOMAIN make_integer(r.int)
    BY DEF make_integer
  <2>. QED
    BY <2>1, <2>2, FineCases, Outcomes
<1>3. CASE r.type = "NIL"
  <2>1. Conversion(f, r) = Val(make_nil)
    BY <1>3 DEF Conversion
  <2>2. make_nil.type = "NIL"
    BY DEF make_nil
  <2>. QED
    BY <2>1, <2>2, FineCases, Outcomes
<1>4. CASE r.type = "ARRAY" /\ "items" \notin DOMAIN r
  <2>1. Conversion(f, r) = Malformed
    BY <1>4 DEF Conversion
  <2>. QED
    BY <2>1, FineCases
<1>5. CASE IsArray(r)
  <2>. DEFINE element(e) == IF e.type = "NULL" THEN Malformed ELSE f[e]
              elements == [i \in DOMAIN r.items |-> element(r.items[i])]
              all == Collected(elements)
  <2>1. Conversion(f, r) = Bind(all, LAMBDA items : Val(make_array(items)))
    BY <1>5 DEF IsArray, Conversion, DecodeAll, Once
  <2>2. \A i \in 1 .. Len(r.items) : Fine(elements[i])
    BY <1>5, FineCases
  <2>3. /\ Fine(all)
        /\ all.ok => /\ all = Val([i \in DOMAIN r.items |-> elements[i].value])
                     /\ \A i \in DOMAIN r.items : elements[i] = Val(elements[i].value)
    <3>1. Len(r.items) \in Nat /\ DOMAIN elements = 1 .. Len(r.items)
      BY <1>5
    <3>. HIDE DEF elements
    <3>. QED
      BY <1>5, <2>2, <3>1, CollectedFine
  <2>4. Conversion(f, r) = IF all.ok THEN Val(make_array(all.value)) ELSE all
    <3>. HIDE DEF all
    <3>. QED
      BY <2>1 DEF Bind, Once
  <2>5. CASE ~all.ok
    <3>. HIDE DEF all
    <3>. QED
      BY <2>3, <2>4, <2>5
  <2>6. CASE all.ok
    <3>1. \A i \in DOMAIN r.items : elements[i].ok
      <4>. HIDE DEF elements
      <4>. QED
        BY <2>3, <2>6, Outcomes
    <3>2. \A i \in DOMAIN r.items : elements[i] = f[r.items[i]]
      BY <3>1, FineCases
    <3>3. Conversion(f, r) = Val(make_array([i \in DOMAIN r.items |-> elements[i].value]))
      <4>. HIDE DEF elements
      <4>. QED
        BY <2>3, <2>4, <2>6, Outcomes
    <3>4. [i \in DOMAIN r.items |-> elements[i].value] = [i \in DOMAIN r.items |-> f[r.items[i]].value]
      <4>. HIDE DEF elements
      <4>. QED
        BY <3>2
    <3>5. \A i \in DOMAIN r.items : f[r.items[i]].ok
      <4>. HIDE DEF elements
      <4>. QED
        BY <3>1, <3>2
    <3>6. \A x : make_array(x).type = "ARRAY"
      BY DEF make_array
    <3>. HIDE DEF elements, make_array
    <3>. QED
      BY <1>5, <3>3, <3>4, <3>5, <3>6, FineCases, Outcomes
  <2>. QED
    BY <2>5, <2>6
<1>6. CASE r.type \notin {"STRING", "STATUS", "ERROR", "INTEGER", "NIL", "ARRAY"}
  <2>1. Conversion(f, r) = Val(make_error("Unknown reply type"))
    BY <1>6 DEF Conversion
  <2>2. /\ make_error("Unknown reply type").type = "ERROR"
        /\ "str" \in DOMAIN make_error("Unknown reply type")
    BY DEF make_error
  <2>. QED
    BY <2>1, <2>2, FineCases, Outcomes
<1>. QED
  BY <1>1, <1>2, <1>3, <1>4, <1>5, <1>6 DEF IsArray

\* Each part is, the smaller ones first.
LEMMA PartsAreFine ==
    ASSUME NEW tree \in Delivered, NEW f, f = [r \in Parts(tree) |-> Conversion(f, r)]
    PROVE  \A p \in Parts(tree) : Fine(f[p])
<1>. DEFINE bad == {p \in Parts(tree) : ~Fine(f[p])}
            sizes == {Cardinality(Parts(p)) : p \in bad}
<1>0. \A p \in Parts(tree) : IsArray(p) =>
         Len(p.items) \in Nat /\ DOMAIN p.items = 1 .. Len(p.items)
  BY PartsOfParts
<1>1. SUFFICES ASSUME bad # {} PROVE FALSE
  OBVIOUS
<1>2. PICK n \in sizes : \A m \in sizes : n <= m
  <2>1. sizes \subseteq Nat /\ sizes # {}
    BY <1>1, PartsOfParts
  <2>. HIDE DEF sizes
  <2>. QED
    BY <2>1, LeastOf
<1>3. PICK p \in bad : Cardinality(Parts(p)) = n
  BY <1>2
<1>4. ASSUME IsArray(p), NEW i \in DOMAIN p.items
      PROVE  Fine(f[p.items[i]])
  <2>1. p.items[i] \in Parts(tree) /\ Cardinality(Parts(p.items[i])) < n
    BY <1>3, <1>4, PartsOfParts
  <2>2. Cardinality(Parts(p.items[i])) \in Nat /\ n \in Nat
    BY <2>1, <1>3, PartsOfParts
  <2>3. p.items[i] \notin bad
    BY <2>1, <2>2, <1>2
  <2>. QED
    BY <2>1, <2>3
<1>5. Fine(Conversion(f, p))
  BY <1>3, <1>4, <1>0, ConversionGives
<1>. QED
  BY <1>3, <1>5

\* All the replies that are made of one tree, in one set.
LEMMA RepliesAreWellBuilt ==
    ASSUME NEW tree \in Delivered
    PROVE  /\ Fine(convert_reply(tree))
           /\ \E S : /\ WellBuilt(S)
                     /\ convert_reply(tree).ok => convert_reply(tree).value \in S
<1>1. PICK f : /\ f = [r \in Parts(tree) |-> Conversion(f, r)]
               /\ convert_reply(tree) = f[tree]
  BY ConvertReplyIsConversion
<1>2. \A p \in Parts(tree) : f[p] = Conversion(f, p)
  BY <1>1
<1>3. \A p \in Parts(tree) : IsArray(p) =>
         Len(p.items) \in Nat /\ DOMAIN p.items = 1 .. Len(p.items)
  BY PartsOfParts
<1>4. \A p \in Parts(tree) : Fine(f[p])
  BY <1>1, PartsAreFine
<1>. DEFINE S == {f[p].value : p \in {q \in Parts(tree) : f[q].ok}}
<1>5. WellBuilt(S)
  <2>. SUFFICES ASSUME NEW p \in Parts(tree), f[p].ok, NEW r, r = f[p].value
                PROVE  /\ r.type \in {"STRING", "STATUS", "ERROR"} => "str" \in DOMAIN r
                       /\ r.type = "INTEGER" => "int" \in DOMAIN r
                       /\ r.type = "ARRAY" => "items" \in DOMAIN r /\ r.items \in Seq(S)
    BY DEF WellBuilt
  <2>1. \A i \in DOMAIN p.items : IsArray(p) => p.items[i] \in Parts(tree)
    BY PartsOfParts
  <2>2. /\ r.type \in {"STRING", "STATUS", "ERROR"} => "str" \in DOMAIN r
        /\ r.type = "INTEGER" => "int" \in DOMAIN r
        /\ r.type = "ARRAY" =>
             /\ IsArray(p)
             /\ r = make_array([i \in DOMAIN p.items |-> f[p.items[i]].value])
             /\ \A i \in DOMAIN p.items : f[p.items[i]].ok
    BY <1>2, <1>3, <1>4, <2>1, ConversionGives
  <2>3. ASSUME r.type = "ARRAY"
        PROVE  "items" \in DOMAIN r /\ r.items \in Seq(S)
    <3>. DEFINE items == [i \in DOMAIN p.items |-> f[p.items[i]].value]
    <3>1. "items" \in DOMAIN r /\ r.items = items
      BY <2>2, <2>3 DEF make_array
    <3>2. DOMAIN p.items = 1 .. Len(p.items) /\ Len(p.items) \in Nat
      BY <2>2, <2>3, <1>3
    <3>3. \A i \in DOMAIN p.items : f[p.items[i]].value \in S
      BY <2>1, <2>2, <2>3
    <3>4. items \in Seq(S)
      <4>. HIDE DEF S
      <4>. QED
        BY <3>2, <3>3
    <3>. QED
      BY <3>1, <3>4
  <2>. QED
    BY <2>2, <2>3
<1>. QED
  BY <1>1, <1>4, <1>5, PartsAssumption
-----------------------------------------------------------------------------
(* The decoders: what they read is there.                                   *)

LEMMA TextsAreFine ==
    ASSUME NEW r
    PROVE  /\ Fine(as_text(r)) /\ Fine(as_string(r)) /\ Fine(as_status(r))
           /\ Fine(status_is_ok(r)) /\ Fine(optional_string(r))
<1>1. Fine(as_text(r)) /\ Fine(as_string(r)) /\ Fine(as_status(r))
  BY FineCases DEF as_text, as_string, as_status
<1>2. status_is_ok(r) = IF as_status(r).ok THEN Val(as_status(r).value = "OK") ELSE as_status(r)
  BY DEF status_is_ok, Bind, Once
<1>3. optional_string(r) = IF is_nil(r) THEN Val(None)
                           ELSE IF as_string(r).ok THEN Val(Some(as_string(r).value))
                           ELSE as_string(r)
  BY DEF optional_string, Bind, Once
<1>. QED
  BY <1>1, <1>2, <1>3, FineCases

LEMMA ScoresAreFine ==
    ASSUME NEW r
    PROVE  Fine(optional_score(r)) /\ Fine(score_value(r)) /\ Fine(zincrby_result(r))
<1>. DEFINE text == optional_string(r)
            score == optional_score(r)
<1>1. score = IF ~text.ok THEN text
              ELSE IF text.value = None THEN Val(None)
              ELSE IF text.value[1] \in DOMAIN ScoreOf THEN Val(Some(ScoreOf[text.value[1]]))
              ELSE Malformed
  BY DEF optional_score, Bind, Once
<1>2. Fine(score)
  <2>1. Fine(text)
    BY TextsAreFine
  <2>. HIDE DEF text, score
  <2>. QED
    BY <1>1, <2>1, FineCases
<1>3. score_value(r) = IF ~score.ok THEN score
                       ELSE IF score.value = None THEN Throw("bad_optional_access")
                       ELSE Val(score.value[1])
  BY DEF score_value, Bind, Once
<1>4. zincrby_result(r) = IF ~score.ok THEN score
                          ELSE IF score.value = None THEN Unexpected
                          ELSE Val(score.value[1])
  BY DEF zincrby_result, Bind, Once
<1>5. "bad_optional_access" \in Errors
  BY DEF Errors
<1>. HIDE DEF score
<1>. QED
  BY <1>2, <1>3, <1>4, <1>5, FineCases DEF score

LEMMA ArraysAreThere ==
    ASSUME NEW S, WellBuilt(S), NEW r \in S
    PROVE  \/ as_array(r) = Unexpected
           \/ /\ as_array(r) = Val(r.items) /\ r.type = "ARRAY"
              /\ r.items \in Seq(S)
BY DEF WellBuilt, as_array

LEMMA IntegersAreThere ==
    ASSUME NEW S, WellBuilt(S), NEW r \in S
    PROVE  Fine(as_integer(r))
BY FineCases DEF WellBuilt, as_integer

\* A list that is NIL or an array; the loop over its elements is fine when
\* each step is.
LEMMA StringsAreFine ==
    ASSUME NEW S, WellBuilt(S), NEW r \in S
    PROVE  Fine(strings(r))
<1>. DEFINE results(items) == [i \in DOMAIN items |-> as_string(items[i])]
<1>1. strings(r) = IF is_nil(r) THEN Val(<<>>)
                   ELSE IF as_array(r).ok THEN DecodeAll(as_array(r).value, as_string)
                   ELSE as_array(r)
  BY DEF strings, Bind, Once
<1>3. \A items : DecodeAll(items, as_string) = Collected(results(items))
  BY DEF DecodeAll, Once
<1>2. ASSUME NEW items \in Seq(S) PROVE Fine(Collected(results(items)))
  <2>1. Len(items) \in Nat /\ DOMAIN results(items) = 1 .. Len(items)
    OBVIOUS
  <2>2. \A i \in 1 .. Len(items) : Fine(results(items)[i])
    BY TextsAreFine
  <2>. HIDE DEF results
  <2>. QED
    BY <2>1, <2>2, CollectedFine
<1>. HIDE DEF results
<1>. QED
  BY <1>1, <1>2, <1>3, ArraysAreThere, FineCases, Outcomes

\* A flat array of pairs has one exception of its own, an odd length.
LEMMA StringPairsAreFine ==
    ASSUME NEW S, NEW items \in Seq(S)
    PROVE  Fine(StringPairs(items))
<1>. DEFINE results == [i \in DOMAIN items |-> as_string(items[i])]
            flat == Collected(results)
<1>1. StringPairs(items) =
        IF Len(items) % 2 # 0 THEN Malformed
        ELSE IF flat.ok THEN Paired(flat.value) ELSE flat
  <2>1. StringPairs(items) = IF Len(items) % 2 # 0 THEN Malformed
                            ELSE Bind(Once(results, Collected), Paired)
    BY DEF StringPairs, Pairs
  <2>2. Once(results, Collected) = flat
    <3>. HIDE DEF results
    <3>. QED
      BY DEF Once
  <2>3. Bind(flat, Paired) = IF flat.ok THEN Paired(flat.value) ELSE flat
    <3>. HIDE DEF flat
    <3>. QED
      BY DEF Bind, Once
  <2>. HIDE DEF results, flat
  <2>. QED
    BY <2>1, <2>2, <2>3
<1>2. Fine(flat)
  <2>1. Len(items) \in Nat /\ DOMAIN results = 1 .. Len(items)
    OBVIOUS
  <2>2. \A i \in 1 .. Len(items) : Fine(results[i])
    BY TextsAreFine
  <2>. HIDE DEF results
  <2>. QED
    BY <2>1, <2>2, CollectedFine
<1>. HIDE DEF flat
<1>. QED
  BY <1>1, <1>2, FineCases DEF Paired

LEMMA ScoredMembersAreFine ==
    ASSUME NEW S, NEW items \in Seq(S)
    PROVE  Fine(ScoredMembers(items))
<1>. DEFINE results == [i \in DOMAIN items |-> member_or_score(i % 2, items[i])]
            flat == Collected(results)
<1>1. ScoredMembers(items) =
        IF Len(items) % 2 # 0 THEN Malformed
        ELSE IF flat.ok THEN Paired(flat.value) ELSE flat
  <2>1. ScoredMembers(items) = IF Len(items) % 2 # 0 THEN Malformed
                            ELSE Bind(Once(results, Collected), Paired)
    BY DEF ScoredMembers, Pairs
  <2>2. Once(results, Collected) = flat
    <3>. HIDE DEF results
    <3>. QED
      BY DEF Once
  <2>3. Bind(flat, Paired) = IF flat.ok THEN Paired(flat.value) ELSE flat
    <3>. HIDE DEF flat
    <3>. QED
      BY DEF Bind, Once
  <2>. HIDE DEF results, flat
  <2>. QED
    BY <2>1, <2>2, <2>3
<1>2. Fine(flat)
  <2>1. Len(items) \in Nat /\ DOMAIN results = 1 .. Len(items)
    OBVIOUS
  <2>2. \A i \in 1 .. Len(items) : Fine(results[i])
    BY TextsAreFine, ScoresAreFine DEF member_or_score
  <2>. HIDE DEF results
  <2>. QED
    BY <2>1, <2>2, CollectedFine
<1>. HIDE DEF flat
<1>. QED
  BY <1>1, <1>2, FineCases DEF Paired

LEMMA ScoreListsAreFine ==
    ASSUME NEW S, WellBuilt(S), NEW r \in S
    PROVE  Fine(scores(r))
<1>1. scores(r) = IF is_nil(r) THEN Val(<<>>)
                  ELSE IF as_array(r).ok THEN ScoredMembers(as_array(r).value)
                  ELSE as_array(r)
  BY DEF scores, Bind, Once
<1>. QED
  BY <1>1, ScoredMembersAreFine, ArraysAreThere, FineCases, Outcomes

LEMMA HashesAreFine ==
    ASSUME NEW S, WellBuilt(S), NEW r \in S
    PROVE  Fine(hash(r))
<1>. DEFINE pairs(items) == StringPairs(items)
<1>1. hash(r) = IF as_array(r).ok
                THEN IF pairs(as_array(r).value).ok
                     THEN Val(EmplacedPairs(pairs(as_array(r).value).value))
                     ELSE pairs(as_array(r).value)
                ELSE as_array(r)
  BY DEF hash, Bind, Once
<1>2. ASSUME NEW items \in Seq(S) PROVE Fine(pairs(items))
  BY StringPairsAreFine
<1>. HIDE DEF pairs
<1>. QED
  BY <1>1, <1>2, ArraysAreThere, FineCases, Outcomes

LEMMA HgetIsFine ==
    ASSUME NEW S, WellBuilt(S), NEW r \in S
    PROVE  Fine(hget_result(r, BatchSize))
<1>. DEFINE results(items) == [i \in DOMAIN items |-> optional_string(items[i])]
<1>1. hget_result(r, BatchSize) =
        IF as_array(r).ok
        THEN IF Len(as_array(r).value) # BatchSize THEN Malformed
             ELSE Collected(results(as_array(r).value))
        ELSE as_array(r)
  BY DEF hget_result, Bind, DecodeAll, Once
<1>2. ASSUME NEW items \in Seq(S) PROVE Fine(Collected(results(items)))
  <2>1. Len(items) \in Nat /\ DOMAIN results(items) = 1 .. Len(items)
    OBVIOUS
  <2>2. \A i \in 1 .. Len(items) : Fine(results(items)[i])
    BY TextsAreFine
  <2>. HIDE DEF results
  <2>. QED
    BY <2>1, <2>2, CollectedFine
<1>. HIDE DEF results
<1>. QED
  BY <1>1, <1>2, ArraysAreThere, FineCases, Outcomes

\* The cursor of a page is read only if the page is there to be read next.
\* A cursor's text is a number of 64 bits, or an exception says that it is none.
LEMMA CursorTextIsRead ==
    /\ \A t : Fine(to_cursor(t))
    /\ \A t : to_cursor(t).ok => t \in CursorTexts /\ to_cursor(t).value = CursorOf[t]
    /\ \A t \in CursorTexts : to_cursor(t) = Val(CursorOf[t])
<1>1. ASSUME NEW t, t \in CursorTexts
      PROVE  to_cursor(t) = Val(CursorOf[t])
  BY <1>1 DEF to_cursor
<1>2. ASSUME NEW t, t \notin CursorTexts
      PROVE  \E e \in Errors : to_cursor(t) = Throw(e)
  BY <1>2 DEF to_cursor, Errors
<1>3. \A t : Fine(to_cursor(t))
  BY <1>1, <1>2, FineCases
<1>4. \A t : to_cursor(t).ok => t \in CursorTexts /\ to_cursor(t).value = CursorOf[t]
  BY <1>1, <1>2, Outcomes
<1>. QED
  BY <1>1, <1>3, <1>4

LEMMA CursorsAreFine ==
    ASSUME NEW S, WellBuilt(S), NEW r \in S
    PROVE  /\ Fine(scan_cursor(r))
           /\ scan_cursor(r).ok => 1 < Len(r.items) /\ r.items[2] \in S
<1>. DEFINE parts == as_array(r).value
            text == as_string(parts[1])
<1>1. scan_cursor(r) =
        IF ~as_array(r).ok THEN as_array(r)
        ELSE IF Len(parts) # 2 THEN Malformed
        ELSE IF ~as_array(parts[2]).ok THEN as_array(parts[2])
        ELSE IF ~text.ok THEN text
        ELSE to_cursor(text.value)
  BY DEF scan_cursor, Bind, Once
<1>2. Fine(to_cursor(text.value))
  BY CursorTextIsRead
<1>3. CASE as_array(r) = Unexpected
  BY <1>1, <1>3, FineCases
<1>4. CASE as_array(r) = Val(r.items) /\ r.items \in Seq(S)
  <2>1. as_array(r).ok /\ parts = r.items
    BY <1>4, Outcomes
  <2>2. CASE Len(r.items) # 2
    BY <1>1, <2>1, <2>2, FineCases
  <2>3. CASE Len(r.items) = 2
    <3>1. r.items[2] \in S
      BY <1>4, <2>3
    <3>2. Fine(as_array(r.items[2])) /\ Fine(text)
      BY <3>1, ArraysAreThere, TextsAreFine, FineCases
    <3>3. Fine(scan_cursor(r))
      <4>. HIDE DEF text
      <4>. QED
        BY <1>1, <1>2, <2>1, <2>3, <3>2, FineCases
    <3>. QED
      BY <2>3, <3>1, <3>3
  <2>. QED
    BY <2>2, <2>3
<1>. QED
  BY <1>3, <1>4, ArraysAreThere

LEMMA PagesAreFine ==
    ASSUME NEW S, WellBuilt(S), NEW r \in S
    PROVE  Fine(scan_result(r)) /\ Fine(hscan_result(r))
<1>. DEFINE cursor == scan_cursor(r)
            second == ItemAt(r.items, 1)
            made(page) == IF ~cursor.ok THEN cursor
                          ELSE IF ~second.ok THEN second
                          ELSE IF ~page.ok THEN page
                          ELSE Val([cursor |-> cursor.value, page |-> page.value])
<1>1. scan_result(r) = made(strings(second.value))
  BY DEF scan_result, ScanPage, Bind, Once
<1>2. hscan_result(r) = made(hash(second.value))
  BY DEF hscan_result, ScanPage, Bind, Once
<1>3. Fine(cursor) /\ (cursor.ok => second = Val(r.items[2]) /\ r.items[2] \in S)
  BY CursorsAreFine DEF ItemAt
<1>4. cursor.ok => Fine(strings(second.value)) /\ Fine(hash(second.value))
  BY <1>3, StringsAreFine, HashesAreFine, Outcomes
<1>5. ASSUME NEW page, cursor.ok => Fine(page) PROVE Fine(made(page))
  <2>. HIDE DEF cursor, second
  <2>. QED
    BY <1>3, <1>5, FineCases, Outcomes
<1>. HIDE DEF made, cursor, second
<1>. QED
  BY <1>1, <1>2, <1>4, <1>5

LEMMA EntriesAreFine ==
    ASSUME NEW S, WellBuilt(S), NEW r \in S
    PROVE  Fine(stream_entry(r))
<1>. DEFINE Fields(p) == IF is_nil(p) THEN Val(<<>>) ELSE Bind(as_array(p), StringPairs)
            Made(i, fields) == Val([id |-> i, fields |-> fields])
            Last(ps, i) == Bind(Fields(ps[2]), LAMBDA fields : Made(i, fields))
            Inner(ps) == Bind(as_string(ps[1]), LAMBDA i : Last(ps, i))
            Outer(ps) == IF Len(ps) # 2 THEN Malformed ELSE Inner(ps)
<1>1. stream_entry(r) = IF as_array(r).ok THEN Outer(as_array(r).value) ELSE as_array(r)
  <2>1. stream_entry(r) = Bind(as_array(r), LAMBDA ps : Outer(ps))
    BY DEF stream_entry
  <2>. HIDE DEF Outer
  <2>. QED
    BY <2>1 DEF Bind, Once
<1>2. ASSUME NEW ps \in Seq(S), Len(ps) = 2
      PROVE  Fine(Inner(ps))
  <2>1. Inner(ps) = IF as_string(ps[1]).ok THEN Last(ps, as_string(ps[1]).value)
                    ELSE as_string(ps[1])
    <3>. HIDE DEF Last
    <3>. QED
      BY DEF Bind, Once
  <2>2. \A i : Last(ps, i) = IF Fields(ps[2]).ok THEN Made(i, Fields(ps[2]).value)
                             ELSE Fields(ps[2])
    <3>. HIDE DEF Fields, Made
    <3>. QED
      BY DEF Bind, Once
  <2>3. ps[2] \in S
    BY <1>2
  <2>4. Fields(ps[2]) = IF is_nil(ps[2]) THEN Val(<<>>)
                        ELSE IF as_array(ps[2]).ok THEN StringPairs(as_array(ps[2]).value)
                        ELSE as_array(ps[2])
    BY DEF Bind, Once
  <2>. HIDE DEF Inner, Last, Fields
  <2>5. Fine(Fields(ps[2]))
    BY <2>3, <2>4, ArraysAreThere, StringPairsAreFine, FineCases, Outcomes
  <2>. QED
    BY <2>1, <2>2, <2>5, TextsAreFine, FineCases
<1>. HIDE DEF Inner
<1>. QED
  BY <1>1, <1>2, ArraysAreThere, FineCases, Outcomes

LEMMA EntryListsAreFine ==
    ASSUME NEW S, WellBuilt(S), NEW r \in S
    PROVE  Fine(stream_entries(r))
<1>. DEFINE results(items) == [i \in DOMAIN items |-> stream_entry(items[i])]
<1>1. stream_entries(r) = IF is_nil(r) THEN Val(<<>>)
                          ELSE IF as_array(r).ok THEN DecodeAll(as_array(r).value, stream_entry)
                          ELSE as_array(r)
  BY DEF stream_entries, Bind, Once
<1>2. \A items : DecodeAll(items, stream_entry) = Collected(results(items))
  BY DEF DecodeAll, Once
<1>3. ASSUME NEW items \in Seq(S) PROVE Fine(Collected(results(items)))
  <2>1. Len(items) \in Nat /\ DOMAIN results(items) = 1 .. Len(items)
    OBVIOUS
  <2>2. \A i \in 1 .. Len(items) : Fine(results(items)[i])
    BY EntriesAreFine
  <2>. HIDE DEF results
  <2>. QED
    BY <2>1, <2>2, CollectedFine
<1>. HIDE DEF results
<1>. QED
  BY <1>1, <1>2, <1>3, ArraysAreThere, FineCases, Outcomes

LEMMA BatchesAreFine ==
    ASSUME NEW S, WellBuilt(S), NEW r \in S
    PROVE  Fine(stream_batch(r))
<1>. DEFINE Made(k, entries) == Val([key |-> k, entries |-> entries])
            Last(ps, k) == Bind(stream_entries(ps[2]), LAMBDA entries : Made(k, entries))
            Inner(ps) == Bind(as_string(ps[1]), LAMBDA k : Last(ps, k))
            Outer(ps) == IF Len(ps) # 2 THEN Malformed ELSE Inner(ps)
<1>1. stream_batch(r) = IF as_array(r).ok THEN Outer(as_array(r).value) ELSE as_array(r)
  <2>1. stream_batch(r) = Bind(as_array(r), LAMBDA ps : Outer(ps))
    BY DEF stream_batch
  <2>. HIDE DEF Outer
  <2>. QED
    BY <2>1 DEF Bind, Once
<1>2. ASSUME NEW ps \in Seq(S), Len(ps) = 2
      PROVE  Fine(Inner(ps))
  <2>1. Inner(ps) = IF as_string(ps[1]).ok THEN Last(ps, as_string(ps[1]).value)
                    ELSE as_string(ps[1])
    <3>. HIDE DEF Last
    <3>. QED
      BY DEF Bind, Once
  <2>2. \A k : Last(ps, k) = IF stream_entries(ps[2]).ok
                             THEN Made(k, stream_entries(ps[2]).value)
                             ELSE stream_entries(ps[2])
    <3>. HIDE DEF Made
    <3>. QED
      BY DEF Bind, Once
  <2>3. Fine(stream_entries(ps[2]))
    BY <1>2, EntryListsAreFine
  <2>. HIDE DEF Inner, Last
  <2>. QED
    BY <2>1, <2>2, <2>3, TextsAreFine, FineCases
<1>. HIDE DEF Inner
<1>. QED
  BY <1>1, <1>2, ArraysAreThere, FineCases, Outcomes

LEMMA BatchListsAreFine ==
    ASSUME NEW S, WellBuilt(S), NEW r \in S
    PROVE  Fine(stream_batches(r))
<1>. DEFINE results(items) == [i \in DOMAIN items |-> stream_batch(items[i])]
<1>1. stream_batches(r) = IF is_nil(r) THEN Val(<<>>)
                          ELSE IF as_array(r).ok THEN DecodeAll(as_array(r).value, stream_batch)
                          ELSE as_array(r)
  BY DEF stream_batches, Bind, Once
<1>2. \A items : DecodeAll(items, stream_batch) = Collected(results(items))
  BY DEF DecodeAll, Once
<1>3. ASSUME NEW items \in Seq(S) PROVE Fine(Collected(results(items)))
  <2>1. Len(items) \in Nat /\ DOMAIN results(items) = 1 .. Len(items)
    OBVIOUS
  <2>2. \A i \in 1 .. Len(items) : Fine(results(items)[i])
    BY BatchesAreFine
  <2>. HIDE DEF results
  <2>. QED
    BY <2>1, <2>2, CollectedFine
<1>. HIDE DEF results
<1>. QED
  BY <1>1, <1>2, <1>3, ArraysAreThere, FineCases, Outcomes

\* SET and HSET read only a reply of the type they ask for.
LEMMA FlagsAreFine ==
    ASSUME NEW S, WellBuilt(S), NEW r \in S
    PROVE  /\ Fine(set_result(r)) /\ Fine(hset_result(r))
           /\ Fine(Bind(as_integer(r), LAMBDA n : Val(n = 1)))
<1>1. Fine(set_result(r))
  BY TextsAreFine, FineCases DEF set_result
<1>. DEFINE is_one(n) == Val(n = 1)
            is_count(n) == Val(n >= 0)
<1>2. hset_result(r) = IF r.type = "INTEGER" THEN Bind(as_integer(r), is_count)
                                             ELSE Val(FALSE)
  BY DEF hset_result
<1>3. /\ Bind(as_integer(r), is_one) =
           IF as_integer(r).ok THEN is_one(as_integer(r).value) ELSE as_integer(r)
      /\ Bind(as_integer(r), is_count) =
           IF as_integer(r).ok THEN is_count(as_integer(r).value) ELSE as_integer(r)
  <2>. HIDE DEF is_one, is_count
  <2>. QED
    BY DEF Bind, Once
<1>4. Fine(hset_result(r))
  <2>1. Fine(IF as_integer(r).ok THEN is_count(as_integer(r).value) ELSE as_integer(r))
    BY IntegersAreThere, FineCases
  <2>. HIDE DEF is_count
  <2>. QED
    BY <1>2, <1>3, <2>1, FineCases
<1>5. Fine(IF as_integer(r).ok THEN Val(as_integer(r).value = 1) ELSE as_integer(r))
  BY IntegersAreThere, FineCases
<1>. QED
  BY <1>1, <1>3, <1>4, <1>5

LEMMA DecodersAreFine ==
    ASSUME NEW S, WellBuilt(S), NEW r \in S, NEW d \in Decoders
    PROVE  Fine(Decode(d, r))
<1>1. CASE d \in {"text", "status", "status_is_ok", "optional_string"}
  BY <1>1, TextsAreFine DEF Decode
<1>2. CASE d \in {"optional_score", "zincrby"}
  BY <1>2, ScoresAreFine DEF Decode
<1>3. CASE d \in {"set", "hset", "flag"}
  <2>1. Decode("flag", r) = Bind(as_integer(r), LAMBDA n : Val(n = 1))
    BY DEF Decode
  <2>2. Decode("set", r) = set_result(r) /\ Decode("hset", r) = hset_result(r)
    BY DEF Decode
  <2>3. Fine(Decode("flag", r))
    BY <2>1, FlagsAreFine, Zenon
  <2>. QED
    BY <1>3, <2>2, <2>3, FlagsAreFine
<1>4. CASE d = "integer"
  BY <1>4, IntegersAreThere DEF Decode
<1>5. CASE d \in {"strings", "hash", "hget_batch", "scores"}
  BY <1>5, StringsAreFine, HashesAreFine, HgetIsFine, ScoreListsAreFine DEF Decode
<1>6. CASE d \in {"scan", "hscan"}
  BY <1>6, PagesAreFine DEF Decode
<1>7. CASE d \in {"stream_entries", "stream_batches"}
  BY <1>7, EntryListsAreFine, BatchListsAreFine DEF Decode
<1>. QED
  BY <1>1, <1>2, <1>3, <1>4, <1>5, <1>6, <1>7 DEF Decoders

\* The whole of what a caller gets for a tree that was delivered.
LEMMA RepliesAreFine ==
    ASSUME NEW tree \in Delivered, NEW d \in Decoders
    PROVE  Fine(Bind(convert_reply(tree), LAMBDA r :
                    Bind(or_throw(r), LAMBDA s : Decode(d, s))))
<1>. DEFINE decoded(s) == Decode(d, s)
            answer(r) == Bind(or_throw(r), LAMBDA s : decoded(s))
            all == Bind(convert_reply(tree), LAMBDA r : answer(r))
<1>1. PICK S : /\ WellBuilt(S)
               /\ convert_reply(tree).ok => convert_reply(tree).value \in S
  BY RepliesAreWellBuilt
<1>2. Fine(convert_reply(tree))
  BY RepliesAreWellBuilt
<1>3. all = IF convert_reply(tree).ok THEN answer(convert_reply(tree).value)
            ELSE convert_reply(tree)
  <2>. HIDE DEF answer
  <2>. QED
    BY DEF Bind, Once
<1>4. ASSUME NEW r \in S PROVE Fine(answer(r))
  <2>1. answer(r) = IF or_throw(r).ok THEN decoded(or_throw(r).value) ELSE or_throw(r)
    <3>. HIDE DEF decoded
    <3>. QED
      BY DEF Bind, Once
  <2>2. CASE is_error(r)
    <3>1. as_text(r) = Val(r.str)
      BY <1>1, <2>2 DEF WellBuilt, is_error, as_text
    <3>2. or_throw(r) = Throw("redis_error")
      BY <2>2, <3>1, Outcomes DEF or_throw, Bind, Once
    <3>3. "redis_error" \in Errors
      BY DEF Errors
    <3>. HIDE DEF answer, decoded
    <3>. QED
      BY <2>1, <3>2, <3>3, FineCases, Outcomes
  <2>3. CASE ~is_error(r)
    <3>1. or_throw(r) = Val(r)
      BY <2>3 DEF or_throw
    <3>2. Fine(decoded(r))
      BY <1>1, DecodersAreFine
    <3>. HIDE DEF answer, decoded
    <3>. QED
      BY <2>1, <3>1, <3>2, Outcomes
  <2>. QED
    BY <2>2, <2>3
<1>5. Fine(all)
  <2>. HIDE DEF all, answer
  <2>. QED
    BY <1>1, <1>2, <1>3, <1>4
<1>. QED
  BY <1>5, Zenon

\* Whatever tree of replies hiredis delivers to whichever decoder, however
\* large, nothing is read that is not there: the caller has a value or one of
\* the exceptions that the code throws.
THEOREM NothingMissingIsRead == ConversionSpec => []NoUndefinedBehaviour
<1>1. ConvertsReply \/ ConvertsText => NoUndefinedBehaviour
  BY DEF ConvertsReply, ConvertsText, Init, NoUndefinedBehaviour
<1>2. /\ OneConversion /\ NoUndefinedBehaviour
      /\ [ReceiveReply \/ ReadNumber \/ ReadUrl]_allVars
      => NoUndefinedBehaviour'
  <2>. SUFFICES ASSUME OneConversion, NoUndefinedBehaviour,
                       [ReceiveReply \/ ReadNumber \/ ReadUrl]_allVars
                PROVE  NoUndefinedBehaviour'
    OBVIOUS
  <2>1. CASE ReceiveReply
    <3>. DEFINE answer == Bind(convert_reply(raw), LAMBDA r :
                              Bind(or_throw(r), LAMBDA s : Decode(decoder, s)))
    <3>1. outcome' = Some(answer)
      BY <2>1, Zenon DEF ReceiveReply, Receive
    <3>2. raw \in Delivered /\ decoder \in Decoders
      BY <2>1 DEF ReceiveReply, OneConversion
    <3>3. Fine(answer)
      BY <3>2, RepliesAreFine, Zenon
    <3>4. outcome'[1] = answer
      <4>. HIDE DEF answer
      <4>. QED
        BY <3>1 DEF Some
    <3>. HIDE DEF answer
    <3>. QED
      BY <3>3, <3>4, Outcomes DEF Fine, NoUndefinedBehaviour
  <2>2. CASE ReadNumber
    BY <2>2 DEF ReadNumber, vars, NoUndefinedBehaviour
  <2>3. CASE ReadUrl
    BY <2>3 DEF ReadUrl, vars, NoUndefinedBehaviour
  <2>4. CASE UNCHANGED allVars
    BY <2>4 DEF allVars, vars, NoUndefinedBehaviour
  <2>. QED
    BY <2>1, <2>2, <2>3, <2>4
<1>. QED
  BY <1>1, <1>2, OneConversionHolds, PTL DEF ConversionSpec
-----------------------------------------------------------------------------
(* The decoders: the value stands for what hiredis delivered.               *)

\* One array per element of the other.
SameLength(a, b) ==
    /\ Len(a) \in Nat /\ Len(b) = Len(a)
    /\ DOMAIN a = 1 .. Len(a) /\ DOMAIN b = 1 .. Len(a)

\* What a tree was converted to has its type, its text, its integer and as
\* many elements.  A type that is not known became an ERROR.
Converted(S, p, r) ==
    /\ r.type \in {"STRING", "STATUS"} => IsText(p, r.type, r.str)
    /\ "str" \in DOMAIN r => r.type \in {"STRING", "STATUS", "ERROR"}
    /\ r.type = "INTEGER" => p.type = "INTEGER" /\ p.int \in Int64 /\ r = make_integer(p.int)
    /\ r.type = "NIL" <=> p.type = "NIL"
    /\ p.type \in {"STATUS", "INTEGER"} => r.type = p.type
    /\ r.type = "ARRAY" =>
          /\ IsArray(p) /\ SameLength(p.items, r.items)
          /\ \A i \in DOMAIN p.items : <<p.items[i], r.items[i]>> \in S

\* All the trees of S with what they were converted to.
Faithful(S) == \A p, r : <<p, r>> \in S => Converted(S, p, r)

\* A loop that got to its end has the value of each step.
LEMMA AllCollected ==
    ASSUME NEW n \in Nat, NEW results, DOMAIN results = 1 .. n, Collected(results).ok
    PROVE  LET all == Collected(results).value
           IN  /\ Len(all) = n /\ DOMAIN all = 1 .. n
               /\ \A i \in 1 .. n : results[i].ok /\ all[i] = results[i].value
<1>. DEFINE all == [i \in 1 .. n |-> results[i].value]
<1>1. (\A i \in 1 .. n : results[i].ok) /\ Collected(results) = Val(all)
  BY CollectedResult
<1>2. Collected(results).value = all
  <2>. HIDE DEF all
  <2>. QED
    BY <1>1, Outcomes
<1>3. Len(all) = n /\ DOMAIN all = 1 .. n
  OBVIOUS
<1>. QED
  BY <1>1, <1>2, <1>3

LEMMA TextsStand ==
    ASSUME NEW S, Faithful(S), NEW p, NEW r, <<p, r>> \in S
    PROVE  /\ as_string(r).ok => IsString(p, as_string(r).value)
           /\ as_status(r).ok => IsStatus(p, as_status(r).value)
           /\ as_text(r).ok /\ ~is_error(r) =>
                 IsString(p, as_text(r).value) \/ IsStatus(p, as_text(r).value)
           /\ optional_string(r).ok => IsOptional(p, optional_string(r).value)
<1>1. Converted(S, p, r)
  BY DEF Faithful
<1>2. ~Unexpected.ok
  BY FineCases
<1>3. as_text(r).ok => as_text(r).value = r.str /\ "str" \in DOMAIN r
  BY <1>2, Outcomes DEF as_text
<1>4. as_string(r).ok => IsString(p, as_string(r).value)
  BY <1>1, <1>2, <1>3 DEF as_string, Converted, IsString
<1>5. as_status(r).ok => IsStatus(p, as_status(r).value)
  BY <1>1, <1>2, <1>3 DEF as_status, Converted, IsStatus
<1>6. as_text(r).ok /\ ~is_error(r) =>
         IsString(p, as_text(r).value) \/ IsStatus(p, as_text(r).value)
  BY <1>1, <1>3 DEF is_error, Converted, IsString, IsStatus
<1>7. optional_string(r) = IF is_nil(r) THEN Val(None)
                           ELSE IF as_string(r).ok THEN Val(Some(as_string(r).value))
                           ELSE as_string(r)
  BY DEF optional_string, Bind, Once
<1>8. \A t : Some(t) # None /\ Some(t)[1] = t
  BY DEF Some, None
<1>9. is_nil(r) <=> is_nil(p)
  BY <1>1 DEF Converted, is_nil
<1>. QED
  BY <1>4, <1>5, <1>6, <1>7, <1>8, <1>9, Outcomes DEF IsOptional

LEMMA IntegersStand ==
    ASSUME NEW S, Faithful(S), NEW p, NEW r, <<p, r>> \in S, as_integer(r).ok
    PROVE  IsInteger(p, as_integer(r).value)
<1>1. Converted(S, p, r)
  BY DEF Faithful
<1>2. r.type = "INTEGER" /\ as_integer(r) = Val(get_signed_integer(r.int))
  BY FineCases, Outcomes DEF as_integer, Undefined
<1>3. p.type = "INTEGER" /\ p.int \in Int64 /\ r.int = make_signed_integer(p.int)
  BY <1>1, <1>2 DEF Converted, make_integer
<1>. QED
  BY <1>2, <1>3, SignedRoundTrip, Outcomes DEF IsInteger

LEMMA ScoresStand ==
    ASSUME NEW S, Faithful(S), NEW p, NEW r, <<p, r>> \in S
    PROVE  /\ optional_score(r).ok =>
                 LET v == optional_score(r).value
                 IN  IF v = None THEN is_nil(p) ELSE IsScore(p, v[1])
           /\ score_value(r).ok => IsScore(p, score_value(r).value)
           /\ zincrby_result(r).ok => IsScore(p, zincrby_result(r).value)
<1>. DEFINE text == optional_string(r)
            score == optional_score(r)
<1>1. score = IF ~text.ok THEN text
              ELSE IF text.value = None THEN Val(None)
              ELSE IF text.value[1] \in DOMAIN ScoreOf THEN Val(Some(ScoreOf[text.value[1]]))
              ELSE Malformed
  BY DEF optional_score, Bind, Once
<1>2. \A t : Some(t) # None /\ Some(t)[1] = t
  BY DEF Some, None
<1>3. text.ok => IsOptional(p, text.value)
  BY TextsStand
<1>4. score.ok => IF score.value = None THEN is_nil(p) ELSE IsScore(p, score.value[1])
  <2>. HIDE DEF text, score
  <2>. QED
    BY <1>1, <1>2, <1>3, FineCases, Outcomes DEF IsOptional, IsScore
<1>5. score_value(r) = IF ~score.ok THEN score
                       ELSE IF score.value = None THEN Throw("bad_optional_access")
                       ELSE Val(score.value[1])
  BY DEF score_value, Bind, Once
<1>6. zincrby_result(r) = IF ~score.ok THEN score
                          ELSE IF score.value = None THEN Unexpected
                          ELSE Val(score.value[1])
  BY DEF zincrby_result, Bind, Once
<1>. HIDE DEF score
<1>7. score_value(r).ok => IsScore(p, score_value(r).value)
  BY <1>4, <1>5, Outcomes
<1>8. zincrby_result(r).ok => IsScore(p, zincrby_result(r).value)
  BY <1>4, <1>6, FineCases, Outcomes
<1>. QED
  BY <1>4, <1>7, <1>8 DEF score

LEMMA ArraysStand ==
    ASSUME NEW S, Faithful(S), NEW p, NEW r, <<p, r>> \in S, as_array(r).ok
    PROVE  /\ as_array(r) = Val(r.items) /\ IsArray(p) /\ ~is_nil(p)
           /\ SameLength(p.items, r.items)
           /\ \A i \in DOMAIN p.items : <<p.items[i], r.items[i]>> \in S
<1>1. Converted(S, p, r)
  BY DEF Faithful
<1>2. r.type = "ARRAY" /\ as_array(r) = Val(r.items)
  BY FineCases, Outcomes DEF as_array, Undefined
<1>. QED
  BY <1>1, <1>2 DEF Converted, IsArray, is_nil

LEMMA NilsStand ==
    ASSUME NEW S, Faithful(S), NEW p, NEW r, <<p, r>> \in S
    PROVE  is_nil(r) <=> is_nil(p)
BY DEF Faithful, Converted, is_nil

\* An empty list, or NIL.
LEMMA EmptyLists ==
    ASSUME NEW p, is_nil(p)
    PROVE  /\ IsArrayOrNil(p) /\ ItemsOf(p) = <<>> /\ Len(<<>>) = 0 /\ DOMAIN <<>> = {}
BY DEF IsArrayOrNil, ItemsOf

LEMMA StringsStand ==
    ASSUME NEW S, Faithful(S), NEW p, NEW r, <<p, r>> \in S, strings(r).ok
    PROVE  IsStrings(p, strings(r).value)
<1>. DEFINE results(items) == [i \in DOMAIN items |-> as_string(items[i])]
<1>1. strings(r) = IF is_nil(r) THEN Val(<<>>)
                   ELSE IF as_array(r).ok THEN DecodeAll(as_array(r).value, as_string)
                   ELSE as_array(r)
  BY DEF strings, Bind, Once
<1>2. \A items : DecodeAll(items, as_string) = Collected(results(items))
  BY DEF DecodeAll, Once
<1>3. CASE is_nil(r)
  <2>1. strings(r).value = <<>> /\ is_nil(p)
    BY <1>1, <1>3, NilsStand, Outcomes
  <2>. QED
    BY <2>1, EmptyLists DEF IsStrings, Each
<1>4. CASE ~is_nil(r)
  <2>1. as_array(r).ok
    BY <1>1, <1>4
  <2>2. /\ as_array(r) = Val(r.items) /\ IsArray(p) /\ ~is_nil(p)
        /\ SameLength(p.items, r.items)
        /\ \A i \in DOMAIN p.items : <<p.items[i], r.items[i]>> \in S
    BY <2>1, ArraysStand
  <2>. DEFINE n == Len(p.items)
              all == Collected(results(r.items))
  <2>3. strings(r) = all
    <3>. HIDE DEF results
    <3>. QED
      BY <1>1, <1>2, <1>4, <2>1, <2>2, Outcomes
  <2>4. n \in Nat /\ DOMAIN results(r.items) = 1 .. n /\ DOMAIN p.items = 1 .. n
    BY <2>2 DEF SameLength
  <2>5. \A i \in 1 .. n : results(r.items)[i] = as_string(r.items[i])
    BY <2>4
  <2>6. /\ Len(all.value) = n /\ DOMAIN all.value = 1 .. n
        /\ \A i \in 1 .. n : results(r.items)[i].ok /\ all.value[i] = results(r.items)[i].value
    <3>. HIDE DEF results
    <3>. QED
      BY <2>3, <2>4, AllCollected
  <2>. HIDE DEF results, all
  <2>7. \A i \in 1 .. n : IsString(p.items[i], all.value[i])
    BY <2>2, <2>4, <2>5, <2>6, TextsStand
  <2>. QED
    BY <2>2, <2>3, <2>6, <2>7 DEF IsStrings, Each, ItemsOf, IsArrayOrNil
<1>. QED
  BY <1>3, <1>4

\* The elements come in pairs; their places are odd and even.
LEMMA HalvesOf ==
    ASSUME NEW n \in Nat, n % 2 = 0
    PROVE  /\ n \div 2 \in Nat /\ n = 2 * (n \div 2)
           /\ \A i \in 1 .. n \div 2 : /\ 2 * i - 1 \in 1 .. n /\ 2 * i \in 1 .. n
                                       /\ (2 * i - 1) % 2 = 1 /\ (2 * i) % 2 = 0
OBVIOUS

LEMMA EveryPlaceIsInAPair ==
    ASSUME NEW h \in Nat, NEW k \in 1 .. 2 * h
    PROVE  \E i \in 1 .. h : k = 2 * i - 1 \/ k = 2 * i
<1>. DEFINE q == k \div 2
<1>1. q \in Int /\ (k = 2 * q \/ k = 2 * q + 1)
  OBVIOUS
<1>. HIDE DEF q
<1>2. CASE k = 2 * q
  <2>1. q \in 1 .. h
    BY <1>1, <1>2
  <2>. QED
    BY <1>2, <2>1
<1>3. CASE k = 2 * q + 1
  <2>1. q + 1 \in 1 .. h /\ k = 2 * (q + 1) - 1
    BY <1>1, <1>3
  <2>. QED
    BY <2>1
<1>. QED
  BY <1>1, <1>2, <1>3

LEMMA PlacesBefore ==
    ASSUME NEW h \in Nat, NEW i \in 1 .. h
    PROVE  \A j \in 1 .. i - 1 : j \in 1 .. h
OBVIOUS

LEMMA PairedValues ==
    ASSUME NEW n \in Nat, n % 2 = 0, NEW flat, Len(flat) = n
    PROVE  LET pairs == Paired(flat).value
           IN  /\ Paired(flat).ok /\ Len(pairs) = n \div 2 /\ DOMAIN pairs = 1 .. n \div 2
               /\ \A i \in 1 .. n \div 2 : pairs[i] = <<flat[2 * i - 1], flat[2 * i]>>
<1>. DEFINE pairs == [i \in 1 .. n \div 2 |-> <<flat[2 * i - 1], flat[2 * i]>>]
<1>1. Paired(flat) = Val(pairs)
  BY DEF Paired
<1>2. Len(pairs) = n \div 2 /\ DOMAIN pairs = 1 .. n \div 2
  BY HalvesOf
<1>3. \A i \in 1 .. n \div 2 : pairs[i] = <<flat[2 * i - 1], flat[2 * i]>>
  OBVIOUS
<1>4. Paired(flat).ok /\ Paired(flat).value = pairs
  <2>. HIDE DEF pairs
  <2>. QED
    BY <1>1, Outcomes
<1>. QED
  BY <1>2, <1>3, <1>4

LEMMA StringPairsStand ==
    ASSUME NEW S, Faithful(S), NEW a, NEW b, SameLength(a, b),
           \A i \in DOMAIN a : <<a[i], b[i]>> \in S, StringPairs(b).ok
    PROVE  /\ Flattened(a, StringPairs(b).value, IsString)
           /\ Len(a) % 2 = 0 /\ DOMAIN StringPairs(b).value = 1 .. Len(a) \div 2
<1>. DEFINE results == [i \in DOMAIN b |-> as_string(b[i])]
            flat == Collected(results)
            n == Len(a)
<1>1. StringPairs(b) = IF Len(b) % 2 # 0 THEN Malformed
                       ELSE IF flat.ok THEN Paired(flat.value) ELSE flat
  <2>1. StringPairs(b) = IF Len(b) % 2 # 0 THEN Malformed
                         ELSE Bind(Once(results, Collected), Paired)
    BY DEF StringPairs, Pairs
  <2>2. Once(results, Collected) = flat
    <3>. HIDE DEF results
    <3>. QED
      BY DEF Once
  <2>3. Bind(flat, Paired) = IF flat.ok THEN Paired(flat.value) ELSE flat
    <3>. HIDE DEF flat
    <3>. QED
      BY DEF Bind, Once
  <2>. HIDE DEF results, flat
  <2>. QED
    BY <2>1, <2>2, <2>3
<1>2. n \in Nat /\ Len(b) = n /\ DOMAIN results = 1 .. n /\ DOMAIN a = 1 .. n
  BY DEF SameLength
<1>3. \A i \in 1 .. n : results[i] = as_string(b[i])
  BY <1>2
<1>4. n % 2 = 0 /\ flat.ok /\ StringPairs(b) = Paired(flat.value)
  <2>. HIDE DEF results, flat
  <2>. QED
    BY <1>1, <1>2, FineCases
<1>5. /\ Len(flat.value) = n
      /\ \A i \in 1 .. n : results[i].ok /\ flat.value[i] = results[i].value
  <2>. HIDE DEF results
  <2>. QED
    BY <1>2, <1>4, AllCollected
<1>. HIDE DEF results, flat
<1>6. \A i \in 1 .. n : IsString(a[i], flat.value[i])
  BY <1>2, <1>3, <1>5, TextsStand
<1>. DEFINE pairs == Paired(flat.value).value
<1>7. /\ Len(pairs) = n \div 2 /\ DOMAIN pairs = 1 .. n \div 2
      /\ \A i \in 1 .. n \div 2 : pairs[i] = <<flat.value[2 * i - 1], flat.value[2 * i]>>
  BY <1>2, <1>4, <1>5, PairedValues
<1>. HIDE DEF pairs
<1>8. ASSUME NEW i \in DOMAIN pairs
      PROVE  IsString(a[2 * i - 1], pairs[i][1]) /\ IsString(a[2 * i], pairs[i][2])
  <2>. DEFINE first == 2 * i - 1
              second == 2 * i
  <2>1. first \in 1 .. n /\ second \in 1 .. n
    BY <1>2, <1>4, <1>7, <1>8, HalvesOf
  <2>2. pairs[i][1] = flat.value[first] /\ pairs[i][2] = flat.value[second]
    BY <1>7, <1>8
  <2>. HIDE DEF first, second
  <2>3. IsString(a[first], flat.value[first]) /\ IsString(a[second], flat.value[second])
    BY <1>6, <2>1
  <2>. QED
    BY <2>2, <2>3 DEF first, second
<1>9. Flattened(a, pairs, IsString)
  BY <1>2, <1>4, <1>7, <1>8, HalvesOf DEF Flattened
<1>. QED
  BY <1>4, <1>7, <1>9 DEF pairs

LEMMA ScoredMembersStand ==
    ASSUME NEW S, Faithful(S), NEW a, NEW b, SameLength(a, b),
           \A i \in DOMAIN a : <<a[i], b[i]>> \in S, ScoredMembers(b).ok
    PROVE  Flattened(a, ScoredMembers(b).value, IsScore)
<1>. DEFINE results == [i \in DOMAIN b |-> member_or_score(i % 2, b[i])]
            flat == Collected(results)
            n == Len(a)
<1>1. ScoredMembers(b) = IF Len(b) % 2 # 0 THEN Malformed
                         ELSE IF flat.ok THEN Paired(flat.value) ELSE flat
  <2>1. ScoredMembers(b) = IF Len(b) % 2 # 0 THEN Malformed
                           ELSE Bind(Once(results, Collected), Paired)
    BY DEF ScoredMembers, Pairs
  <2>2. Once(results, Collected) = flat
    <3>. HIDE DEF results
    <3>. QED
      BY DEF Once
  <2>3. Bind(flat, Paired) = IF flat.ok THEN Paired(flat.value) ELSE flat
    <3>. HIDE DEF flat
    <3>. QED
      BY DEF Bind, Once
  <2>. HIDE DEF results, flat
  <2>. QED
    BY <2>1, <2>2, <2>3
<1>2. n \in Nat /\ Len(b) = n /\ DOMAIN results = 1 .. n /\ DOMAIN a = 1 .. n
  BY DEF SameLength
<1>3. \A i \in 1 .. n : results[i] = IF i % 2 = 1 THEN as_string(b[i]) ELSE score_value(b[i])
  BY <1>2 DEF member_or_score
<1>4. n % 2 = 0 /\ flat.ok /\ ScoredMembers(b) = Paired(flat.value)
  <2>. HIDE DEF results, flat
  <2>. QED
    BY <1>1, <1>2, FineCases
<1>5. /\ Len(flat.value) = n
      /\ \A i \in 1 .. n : results[i].ok /\ flat.value[i] = results[i].value
  <2>. HIDE DEF results
  <2>. QED
    BY <1>2, <1>4, AllCollected
<1>. HIDE DEF results, flat
<1>6. \A i \in 1 .. n : IF i % 2 = 1 THEN IsString(a[i], flat.value[i])
                                     ELSE IsScore(a[i], flat.value[i])
  BY <1>2, <1>3, <1>5, TextsStand, ScoresStand
<1>. DEFINE pairs == Paired(flat.value).value
<1>7. /\ Len(pairs) = n \div 2 /\ DOMAIN pairs = 1 .. n \div 2
      /\ \A i \in 1 .. n \div 2 : pairs[i] = <<flat.value[2 * i - 1], flat.value[2 * i]>>
  BY <1>2, <1>4, <1>5, PairedValues
<1>. HIDE DEF pairs
<1>8. ASSUME NEW i \in DOMAIN pairs
      PROVE  IsString(a[2 * i - 1], pairs[i][1]) /\ IsScore(a[2 * i], pairs[i][2])
  <2>. DEFINE first == 2 * i - 1
              second == 2 * i
  <2>1. first \in 1 .. n /\ second \in 1 .. n /\ first % 2 = 1 /\ second % 2 = 0
    BY <1>2, <1>4, <1>7, <1>8, HalvesOf
  <2>2. pairs[i][1] = flat.value[first] /\ pairs[i][2] = flat.value[second]
    BY <1>7, <1>8
  <2>. HIDE DEF first, second
  <2>3. IsString(a[first], flat.value[first]) /\ IsScore(a[second], flat.value[second])
    BY <1>6, <2>1
  <2>. QED
    BY <2>2, <2>3 DEF first, second
<1>9. Flattened(a, pairs, IsScore)
  BY <1>2, <1>4, <1>7, <1>8, HalvesOf DEF Flattened
<1>. QED
  BY <1>4, <1>9 DEF pairs

LEMMA ScoreListsStand ==
    ASSUME NEW S, Faithful(S), NEW p, NEW r, <<p, r>> \in S, scores(r).ok
    PROVE  IsScores(p, scores(r).value)
<1>1. scores(r) = IF is_nil(r) THEN Val(<<>>)
                  ELSE IF as_array(r).ok THEN ScoredMembers(as_array(r).value)
                  ELSE as_array(r)
  BY DEF scores, Bind, Once
<1>2. CASE is_nil(r)
  <2>1. scores(r).value = <<>> /\ is_nil(p)
    BY <1>1, <1>2, NilsStand, Outcomes
  <2>. QED
    BY <2>1, EmptyLists DEF IsScores, Flattened
<1>3. CASE ~is_nil(r)
  <2>1. as_array(r).ok
    BY <1>1, <1>3
  <2>2. /\ as_array(r) = Val(r.items) /\ IsArray(p) /\ ~is_nil(p)
        /\ SameLength(p.items, r.items)
        /\ \A i \in DOMAIN p.items : <<p.items[i], r.items[i]>> \in S
    BY <2>1, ArraysStand
  <2>3. scores(r) = ScoredMembers(r.items)
    BY <1>1, <1>3, <2>1, <2>2, Outcomes
  <2>4. Flattened(p.items, scores(r).value, IsScore)
    BY <2>2, <2>3, ScoredMembersStand
  <2>. QED
    BY <2>2, <2>4 DEF IsScores, IsArrayOrNil, ItemsOf
<1>. QED
  BY <1>2, <1>3

\* The first value of a field stays.
LEMMA HashesStand ==
    ASSUME NEW S, Faithful(S), NEW p, NEW r, <<p, r>> \in S, hash(r).ok
    PROVE  IsHash(p, hash(r).value)
<1>. DEFINE Pairwise(items) == StringPairs(items)
<1>1. hash(r) = IF as_array(r).ok
                THEN IF Pairwise(as_array(r).value).ok
                     THEN Val(EmplacedPairs(Pairwise(as_array(r).value).value))
                     ELSE Pairwise(as_array(r).value)
                ELSE as_array(r)
  BY DEF hash, Bind, Once
<1>. HIDE DEF Pairwise
<1>2. as_array(r).ok
  BY <1>1
<1>3. /\ as_array(r) = Val(r.items) /\ IsArray(p)
      /\ SameLength(p.items, r.items)
      /\ \A i \in DOMAIN p.items : <<p.items[i], r.items[i]>> \in S
  BY <1>2, ArraysStand
<1>. DEFINE a == p.items
            n == Len(a)
            pairs == Pairwise(r.items).value
<1>4. Pairwise(r.items).ok /\ hash(r) = Val(EmplacedPairs(pairs))
  BY <1>1, <1>3, Outcomes
<1>5. Flattened(a, pairs, IsString) /\ n % 2 = 0 /\ DOMAIN pairs = 1 .. n \div 2
  BY <1>3, <1>4, StringPairsStand DEF Pairwise
<1>6. n \in Nat /\ DOMAIN a = 1 .. n
  BY <1>3 DEF SameLength
<1>. HIDE DEF pairs
<1>. DEFINE map == EmplacedPairs(pairs)
<1>7. \A i \in 1 .. n \div 2 :
         IsString(a[2 * i - 1], pairs[i][1]) /\ IsString(a[2 * i], pairs[i][2])
  BY <1>5 DEF Flattened
<1>8. \A i \in 1 .. n \div 2 :
         a[2 * i - 1].str = pairs[i][1] /\ a[2 * i].str = pairs[i][2]
  BY <1>7 DEF IsString, IsText
<1>9. \A k \in DOMAIN a : IsString(a[k], a[k].str)
  <2>. SUFFICES ASSUME NEW k \in 1 .. n PROVE IsString(a[k], a[k].str)
    BY <1>6
  <2>1. \E i \in 1 .. n \div 2 : k = 2 * i - 1 \/ k = 2 * i
    <3>. DEFINE h == n \div 2
    <3>1. h \in Nat /\ k \in 1 .. 2 * h
      BY <1>5, <1>6, HalvesOf
    <3>. HIDE DEF h
    <3>2. \E i \in 1 .. h : k = 2 * i - 1 \/ k = 2 * i
      BY <3>1, EveryPlaceIsInAPair
    <3>. QED
      BY <3>2 DEF h
  <2>. QED
    BY <1>7, <2>1 DEF IsString, IsText
<1>10. DOMAIN map = {pairs[i][1] : i \in 1 .. n \div 2}
  BY <1>5 DEF EmplacedPairs
<1>11. \A i \in 1 .. n \div 2 : (\A j \in 1 .. i - 1 : pairs[j][1] # pairs[i][1])
                                  => map[pairs[i][1]] = pairs[i][2]
  <2>. SUFFICES ASSUME NEW i \in 1 .. n \div 2, \A j \in 1 .. i - 1 : pairs[j][1] # pairs[i][1]
                PROVE  map[pairs[i][1]] = pairs[i][2]
    OBVIOUS
  <2>. DEFINE f == pairs[i][1]
              First(k) == /\ pairs[k][1] = f
                          /\ \A j \in DOMAIN pairs : pairs[j][1] = f => k <= j
  <2>1. n \div 2 \in Nat
    BY <1>5, <1>6, HalvesOf
  <2>. DEFINE half == n \div 2
  <2>2. DOMAIN pairs = 1 .. half /\ half \in Nat /\ i \in 1 .. half
    BY <1>5, <2>1
  <2>. HIDE DEF half
  <2>3. First(i)
    BY <2>2
  <2>6. \A k \in DOMAIN pairs : First(k) => k = i
    BY <2>2, <2>3
  <2>4. map[f] = pairs[CHOOSE k \in DOMAIN pairs : First(k)][2]
    BY <1>5, <1>10 DEF EmplacedPairs
  <2>5. (CHOOSE k \in DOMAIN pairs : First(k)) = i
    <3>. HIDE DEF First
    <3>. QED
      BY <2>2, <2>3, <2>6
  <2>. QED
    BY <2>4, <2>5
<1>. HIDE DEF map
<1>12. hash(r).value = map
  BY <1>4, Outcomes DEF map
<1>13. IsHash(p, map)
  <2>1. {a[2 * i - 1].str : i \in 1 .. n \div 2} = DOMAIN map
    BY <1>8, <1>10
  <2>2. \A i \in 1 .. n \div 2 : (\A j \in 1 .. i - 1 : a[2 * j - 1].str # a[2 * i - 1].str)
                                    => a[2 * i].str = map[a[2 * i - 1].str]
    <3>. SUFFICES ASSUME NEW i \in 1 .. n \div 2,
                         \A j \in 1 .. i - 1 : a[2 * j - 1].str # a[2 * i - 1].str
                  PROVE  a[2 * i].str = map[a[2 * i - 1].str]
      OBVIOUS
    <3>1. \A j \in 1 .. i - 1 : j \in 1 .. n \div 2
      <4>. DEFINE h == n \div 2
      <4>1. h \in Nat /\ i \in 1 .. h
        BY <1>5, <1>6, HalvesOf
      <4>. HIDE DEF h
      <4>2. \A j \in 1 .. i - 1 : j \in 1 .. h
        BY <4>1, PlacesBefore
      <4>. QED
        BY <4>2 DEF h
    <3>2. \A j \in 1 .. i - 1 : pairs[j][1] # pairs[i][1]
      BY <1>8, <3>1
    <3>. QED
      BY <1>8, <1>11, <3>2
  <2>. QED
    BY <1>3, <1>5, <1>9, <2>1, <2>2 DEF IsHash
<1>. QED
  BY <1>12, <1>13

LEMMA HgetStands ==
    ASSUME NEW S, Faithful(S), NEW p, NEW r, <<p, r>> \in S, hget_result(r, BatchSize).ok
    PROVE  LET v == hget_result(r, BatchSize).value
           IN  IsArray(p) /\ Len(v) = BatchSize /\ Each(p.items, v, IsOptional)
<1>. DEFINE results(items) == [i \in DOMAIN items |-> optional_string(items[i])]
<1>1. hget_result(r, BatchSize) =
        IF as_array(r).ok
        THEN IF Len(as_array(r).value) # BatchSize THEN Malformed
             ELSE Collected(results(as_array(r).value))
        ELSE as_array(r)
  BY DEF hget_result, Bind, DecodeAll, Once
<1>2. as_array(r).ok
  <2>. HIDE DEF results
  <2>. QED
    BY <1>1
<1>3. /\ as_array(r) = Val(r.items) /\ IsArray(p)
      /\ SameLength(p.items, r.items)
      /\ \A i \in DOMAIN p.items : <<p.items[i], r.items[i]>> \in S
  BY <1>2, ArraysStand
<1>. DEFINE n == Len(p.items)
            all == Collected(results(r.items))
<1>4. Len(r.items) = BatchSize /\ hget_result(r, BatchSize) = all
  <2>. HIDE DEF results
  <2>. QED
    BY <1>1, <1>2, <1>3, FineCases, Outcomes
<1>5. /\ n \in Nat /\ DOMAIN results(r.items) = 1 .. n /\ DOMAIN p.items = 1 .. n
      /\ n = BatchSize
  BY <1>3, <1>4 DEF SameLength
<1>6. \A i \in 1 .. n : results(r.items)[i] = optional_string(r.items[i])
  BY <1>5
<1>7. /\ Len(all.value) = n /\ DOMAIN all.value = 1 .. n
      /\ \A i \in 1 .. n : results(r.items)[i].ok /\ all.value[i] = results(r.items)[i].value
  <2>. HIDE DEF results
  <2>. QED
    BY <1>4, <1>5, AllCollected
<1>. HIDE DEF results, all
<1>8. \A i \in 1 .. n : IsOptional(p.items[i], all.value[i])
  BY <1>3, <1>5, <1>6, <1>7, TextsStand
<1>. QED
  BY <1>3, <1>4, <1>5, <1>7, <1>8 DEF Each

\* The shape of a page is checked before its second element is used.
LEMMA CursorsStand ==
    ASSUME NEW S, Faithful(S), NEW p, NEW r, <<p, r>> \in S, scan_cursor(r).ok
    PROVE  /\ IsTwo(p) /\ IsCursor(p.items[1], scan_cursor(r).value)
           /\ IsArray(p.items[2]) /\ <<p.items[2], r.items[2]>> \in S
           /\ ItemAt(r.items, 1) = Val(r.items[2])
<1>. DEFINE parts == as_array(r).value
            text == as_string(parts[1])
<1>1. scan_cursor(r) =
        IF ~as_array(r).ok THEN as_array(r)
        ELSE IF Len(parts) # 2 THEN Malformed
        ELSE IF ~as_array(parts[2]).ok THEN as_array(parts[2])
        ELSE IF ~text.ok THEN text
        ELSE to_cursor(text.value)
  BY DEF scan_cursor, Bind, Once
<1>. HIDE DEF text
<1>2. as_array(r).ok /\ Len(parts) = 2 /\ as_array(parts[2]).ok /\ text.ok
      /\ text.value \in CursorTexts /\ scan_cursor(r).value = CursorOf[text.value]
  BY <1>1, FineCases, CursorTextIsRead
<1>3. /\ as_array(r) = Val(r.items) /\ IsArray(p)
      /\ SameLength(p.items, r.items)
      /\ \A i \in DOMAIN p.items : <<p.items[i], r.items[i]>> \in S
  BY <1>2, ArraysStand
<1>4. parts = r.items
  BY <1>3, Outcomes
<1>5. Len(p.items) = 2 /\ DOMAIN p.items = 1 .. 2
  BY <1>2, <1>3, <1>4 DEF SameLength
<1>6. <<p.items[1], r.items[1]>> \in S /\ <<p.items[2], r.items[2]>> \in S
  BY <1>3, <1>5
<1>7. IsArray(p.items[2])
  BY <1>2, <1>4, <1>6, ArraysStand
<1>8. IsString(p.items[1], text.value)
  BY <1>2, <1>4, <1>6, TextsStand DEF text
<1>9. ItemAt(r.items, 1) = Val(r.items[2])
  BY <1>2, <1>4 DEF ItemAt
<1>. QED
  BY <1>2, <1>3, <1>5, <1>6, <1>7, <1>8, <1>9 DEF IsTwo, IsCursor

LEMMA PagesStand ==
    ASSUME NEW S, Faithful(S), NEW p, NEW r, <<p, r>> \in S
    PROVE  /\ scan_result(r).ok =>
                 LET v == scan_result(r).value
                 IN  IsPage(p, v) /\ IsStrings(p.items[2], v.page)
           /\ hscan_result(r).ok =>
                 LET v == hscan_result(r).value
                 IN  IsPage(p, v) /\ IsHash(p.items[2], v.page)
<1>. DEFINE cursor == scan_cursor(r)
            second == ItemAt(r.items, 1)
            made(page) == IF ~cursor.ok THEN cursor
                          ELSE IF ~second.ok THEN second
                          ELSE IF ~page.ok THEN page
                          ELSE Val([cursor |-> cursor.value, page |-> page.value])
<1>1. scan_result(r) = made(strings(second.value))
  BY DEF scan_result, ScanPage, Bind, Once
<1>2. hscan_result(r) = made(hash(second.value))
  BY DEF hscan_result, ScanPage, Bind, Once
<1>3. cursor.ok => /\ IsTwo(p) /\ IsCursor(p.items[1], cursor.value)
                   /\ IsArray(p.items[2]) /\ <<p.items[2], r.items[2]>> \in S
                   /\ second = Val(r.items[2])
  BY CursorsStand
<1>4. \A page : made(page).ok =>
         /\ cursor.ok /\ page.ok /\ made(page).value.cursor = cursor.value
         /\ made(page).value.page = page.value
  <2>. SUFFICES ASSUME NEW page, made(page).ok
                PROVE  /\ cursor.ok /\ page.ok /\ made(page).value.cursor = cursor.value
                       /\ made(page).value.page = page.value
    OBVIOUS
  <2>. DEFINE v == [cursor |-> cursor.value, page |-> page.value]
  <2>1. v.cursor = cursor.value /\ v.page = page.value
    OBVIOUS
  <2>. HIDE DEF v, cursor, second
  <2>2. cursor.ok /\ page.ok /\ made(page) = Val(v)
    BY DEF v
  <2>. QED
    BY <2>1, <2>2, Outcomes
<1>. HIDE DEF made, cursor, second
<1>5. ASSUME scan_result(r).ok
      PROVE  LET v == scan_result(r).value
             IN  IsPage(p, v) /\ IsStrings(p.items[2], v.page)
  <2>. DEFINE page == strings(second.value)
  <2>1. /\ cursor.ok /\ page.ok /\ scan_result(r).value.cursor = cursor.value
        /\ scan_result(r).value.page = page.value
    BY <1>1, <1>4, <1>5
  <2>2. page = strings(r.items[2])
    BY <1>3, <2>1, Outcomes
  <2>3. IsStrings(p.items[2], page.value)
    BY <1>3, <2>1, <2>2, StringsStand
  <2>. HIDE DEF page
  <2>. QED
    BY <1>3, <2>1, <2>3 DEF IsPage
<1>6. ASSUME hscan_result(r).ok
      PROVE  LET v == hscan_result(r).value
             IN  IsPage(p, v) /\ IsHash(p.items[2], v.page)
  <2>. DEFINE page == hash(second.value)
  <2>1. /\ cursor.ok /\ page.ok /\ hscan_result(r).value.cursor = cursor.value
        /\ hscan_result(r).value.page = page.value
    BY <1>2, <1>4, <1>6
  <2>2. page = hash(r.items[2])
    BY <1>3, <2>1, Outcomes
  <2>3. IsHash(p.items[2], page.value)
    BY <1>3, <2>1, <2>2, HashesStand
  <2>. HIDE DEF page
  <2>. QED
    BY <1>3, <2>1, <2>3 DEF IsPage
<1>. QED
  BY <1>5, <1>6

LEMMA EntriesStand ==
    ASSUME NEW S, Faithful(S), NEW p, NEW r, <<p, r>> \in S, stream_entry(r).ok
    PROVE  IsEntry(p, stream_entry(r).value)
<1>. DEFINE Fields(q) == IF is_nil(q) THEN Val(<<>>) ELSE Bind(as_array(q), StringPairs)
            Made(i, fields) == Val([id |-> i, fields |-> fields])
            Last(ps, i) == Bind(Fields(ps[2]), LAMBDA fields : Made(i, fields))
            Inner(ps) == Bind(as_string(ps[1]), LAMBDA i : Last(ps, i))
            Outer(ps) == IF Len(ps) # 2 THEN Malformed ELSE Inner(ps)
<1>1. stream_entry(r) = IF as_array(r).ok THEN Outer(as_array(r).value) ELSE as_array(r)
  <2>1. stream_entry(r) = Bind(as_array(r), LAMBDA ps : Outer(ps))
    BY DEF stream_entry
  <2>. HIDE DEF Outer
  <2>. QED
    BY <2>1 DEF Bind, Once
<1>2. \A ps : Inner(ps) = IF as_string(ps[1]).ok THEN Last(ps, as_string(ps[1]).value)
                          ELSE as_string(ps[1])
  <2>. HIDE DEF Last
  <2>. QED
    BY DEF Bind, Once
<1>3. \A ps, i : Last(ps, i) = IF Fields(ps[2]).ok THEN Made(i, Fields(ps[2]).value)
                               ELSE Fields(ps[2])
  <2>. HIDE DEF Fields, Made
  <2>. QED
    BY DEF Bind, Once
<1>4. \A q : Fields(q) = IF is_nil(q) THEN Val(<<>>)
                         ELSE IF as_array(q).ok THEN StringPairs(as_array(q).value)
                         ELSE as_array(q)
  BY DEF Bind, Once
<1>5. \A i, fields : Made(i, fields).value.id = i /\ Made(i, fields).value.fields = fields
  BY DEF Val
<1>. HIDE DEF Inner, Last, Fields, Made
<1>6. as_array(r).ok /\ stream_entry(r) = Outer(as_array(r).value)
  BY <1>1
<1>7. /\ as_array(r) = Val(r.items) /\ IsArray(p)
      /\ SameLength(p.items, r.items)
      /\ \A i \in DOMAIN p.items : <<p.items[i], r.items[i]>> \in S
  BY <1>6, ArraysStand
<1>8. Len(r.items) = 2 /\ stream_entry(r) = Inner(r.items)
  BY <1>6, <1>7, FineCases, Outcomes
<1>9. Len(p.items) = 2 /\ DOMAIN p.items = 1 .. 2
  BY <1>7, <1>8 DEF SameLength
<1>10. <<p.items[1], r.items[1]>> \in S /\ <<p.items[2], r.items[2]>> \in S
  BY <1>7, <1>9
<1>. DEFINE i == as_string(r.items[1])
            fields == Fields(r.items[2])
<1>11. i.ok /\ fields.ok /\ stream_entry(r) = Made(i.value, fields.value)
  BY <1>2, <1>3, <1>8
<1>12. IsString(p.items[1], i.value)
  BY <1>10, <1>11, TextsStand
<1>. DEFINE q == p.items[2]
            e == r.items[2]
<1>13. <<q, e>> \in S /\ Fields(e).ok
  BY <1>10, <1>11
<1>. HIDE DEF q, e
<1>14. IsArrayOrNil(q) /\ Flattened(ItemsOf(q), Fields(e).value, IsString)
  <2>1. CASE is_nil(e)
    <3>1. Fields(e).value = <<>> /\ is_nil(q)
      BY <1>4, <1>13, <2>1, NilsStand, Outcomes
    <3>. QED
      BY <3>1, EmptyLists DEF Flattened
  <2>2. CASE ~is_nil(e)
    <3>1. as_array(e).ok
      BY <1>4, <1>13, <2>2
    <3>2. /\ as_array(e) = Val(e.items) /\ IsArray(q) /\ ~is_nil(q)
          /\ SameLength(q.items, e.items)
          /\ \A k \in DOMAIN q.items : <<q.items[k], e.items[k]>> \in S
      BY <1>13, <3>1, ArraysStand
    <3>3. Fields(e) = StringPairs(e.items)
      BY <1>4, <2>2, <3>1, <3>2, Outcomes
    <3>4. Flattened(q.items, Fields(e).value, IsString)
      BY <1>13, <3>2, <3>3, StringPairsStand
    <3>. QED
      BY <3>2, <3>4 DEF IsArrayOrNil, ItemsOf
  <2>. QED
    BY <2>1, <2>2
<1>. HIDE DEF i
<1>15. IsArrayOrNil(p.items[2]) /\ Flattened(ItemsOf(p.items[2]), fields.value, IsString)
  BY <1>14 DEF q, e
<1>. HIDE DEF fields
<1>16. stream_entry(r).value.id = i.value /\ stream_entry(r).value.fields = fields.value
  BY <1>5, <1>11
<1>. DEFINE entry == stream_entry(r).value
<1>. HIDE DEF entry
<1>17. IsString(p.items[1], entry.id) /\ Flattened(ItemsOf(p.items[2]), entry.fields, IsString)
  BY <1>12, <1>15, <1>16 DEF entry
<1>18. IsEntry(p, entry)
  BY <1>7, <1>9, <1>15, <1>17 DEF IsEntry, IsTwo
<1>. QED
  BY <1>18 DEF entry

LEMMA EntryListsStand ==
    ASSUME NEW S, Faithful(S), NEW p, NEW r, <<p, r>> \in S, stream_entries(r).ok
    PROVE  IsEntries(p, stream_entries(r).value)
<1>. DEFINE results(items) == [i \in DOMAIN items |-> stream_entry(items[i])]
<1>1. stream_entries(r) = IF is_nil(r) THEN Val(<<>>)
                   ELSE IF as_array(r).ok THEN DecodeAll(as_array(r).value, stream_entry)
                   ELSE as_array(r)
  BY DEF stream_entries, Bind, Once
<1>2. \A items : DecodeAll(items, stream_entry) = Collected(results(items))
  BY DEF DecodeAll, Once
<1>3. CASE is_nil(r)
  <2>1. stream_entries(r).value = <<>> /\ is_nil(p)
    BY <1>1, <1>3, NilsStand, Outcomes
  <2>. QED
    BY <2>1, EmptyLists DEF IsEntries, Each
<1>4. CASE ~is_nil(r)
  <2>1. as_array(r).ok
    BY <1>1, <1>4
  <2>2. /\ as_array(r) = Val(r.items) /\ IsArray(p) /\ ~is_nil(p)
        /\ SameLength(p.items, r.items)
        /\ \A i \in DOMAIN p.items : <<p.items[i], r.items[i]>> \in S
    BY <2>1, ArraysStand
  <2>. DEFINE n == Len(p.items)
              all == Collected(results(r.items))
  <2>3. stream_entries(r) = all
    <3>. HIDE DEF results
    <3>. QED
      BY <1>1, <1>2, <1>4, <2>1, <2>2, Outcomes
  <2>4. n \in Nat /\ DOMAIN results(r.items) = 1 .. n /\ DOMAIN p.items = 1 .. n
    BY <2>2 DEF SameLength
  <2>5. \A i \in 1 .. n : results(r.items)[i] = stream_entry(r.items[i])
    BY <2>4
  <2>6. /\ Len(all.value) = n /\ DOMAIN all.value = 1 .. n
        /\ \A i \in 1 .. n : results(r.items)[i].ok /\ all.value[i] = results(r.items)[i].value
    <3>. HIDE DEF results
    <3>. QED
      BY <2>3, <2>4, AllCollected
  <2>. HIDE DEF results, all
  <2>7. \A i \in 1 .. n : IsEntry(p.items[i], all.value[i])
    BY <2>2, <2>4, <2>5, <2>6, EntriesStand
  <2>. QED
    BY <2>2, <2>3, <2>6, <2>7 DEF IsEntries, Each, ItemsOf, IsArrayOrNil
<1>. QED
  BY <1>3, <1>4

LEMMA BatchesStand ==
    ASSUME NEW S, Faithful(S), NEW p, NEW r, <<p, r>> \in S, stream_batch(r).ok
    PROVE  IsBatch(p, stream_batch(r).value)
<1>. DEFINE Made(k, entries) == Val([key |-> k, entries |-> entries])
            Last(ps, k) == Bind(stream_entries(ps[2]), LAMBDA entries : Made(k, entries))
            Inner(ps) == Bind(as_string(ps[1]), LAMBDA k : Last(ps, k))
            Outer(ps) == IF Len(ps) # 2 THEN Malformed ELSE Inner(ps)
<1>1. stream_batch(r) = IF as_array(r).ok THEN Outer(as_array(r).value) ELSE as_array(r)
  <2>1. stream_batch(r) = Bind(as_array(r), LAMBDA ps : Outer(ps))
    BY DEF stream_batch
  <2>. HIDE DEF Outer
  <2>. QED
    BY <2>1 DEF Bind, Once
<1>2. \A ps : Inner(ps) = IF as_string(ps[1]).ok THEN Last(ps, as_string(ps[1]).value)
                          ELSE as_string(ps[1])
  <2>. HIDE DEF Last
  <2>. QED
    BY DEF Bind, Once
<1>3. \A ps, k : Last(ps, k) = IF stream_entries(ps[2]).ok
                               THEN Made(k, stream_entries(ps[2]).value)
                               ELSE stream_entries(ps[2])
  <2>. HIDE DEF Made
  <2>. QED
    BY DEF Bind, Once
<1>4. \A k, entries : Made(k, entries).value.key = k /\ Made(k, entries).value.entries = entries
  BY DEF Val
<1>. HIDE DEF Inner, Last, Made
<1>5. as_array(r).ok /\ stream_batch(r) = Outer(as_array(r).value)
  BY <1>1
<1>6. /\ as_array(r) = Val(r.items) /\ IsArray(p)
      /\ SameLength(p.items, r.items)
      /\ \A i \in DOMAIN p.items : <<p.items[i], r.items[i]>> \in S
  BY <1>5, ArraysStand
<1>7. Len(r.items) = 2 /\ stream_batch(r) = Inner(r.items)
  BY <1>5, <1>6, FineCases, Outcomes
<1>8. Len(p.items) = 2 /\ DOMAIN p.items = 1 .. 2
  BY <1>6, <1>7 DEF SameLength
<1>9. <<p.items[1], r.items[1]>> \in S /\ <<p.items[2], r.items[2]>> \in S
  BY <1>6, <1>8
<1>. DEFINE key == as_string(r.items[1])
            entries == stream_entries(r.items[2])
<1>10. key.ok /\ entries.ok /\ stream_batch(r) = Made(key.value, entries.value)
  BY <1>2, <1>3, <1>7
<1>11. IsString(p.items[1], key.value)
  BY <1>9, <1>10, TextsStand
<1>12. IsEntries(p.items[2], entries.value)
  BY <1>9, <1>10, EntryListsStand
<1>. HIDE DEF key, entries
<1>13. stream_batch(r).value.key = key.value /\ stream_batch(r).value.entries = entries.value
  BY <1>4, <1>10
<1>. DEFINE batch == stream_batch(r).value
<1>. HIDE DEF batch
<1>14. IsString(p.items[1], batch.key) /\ IsEntries(p.items[2], batch.entries)
  BY <1>11, <1>12, <1>13 DEF batch
<1>15. IsBatch(p, batch)
  BY <1>6, <1>8, <1>14 DEF IsBatch, IsTwo
<1>. QED
  BY <1>15 DEF batch

LEMMA BatchListsStand ==
    ASSUME NEW S, Faithful(S), NEW p, NEW r, <<p, r>> \in S, stream_batches(r).ok
    PROVE  IsBatches(p, stream_batches(r).value)
<1>. DEFINE results(items) == [i \in DOMAIN items |-> stream_batch(items[i])]
<1>1. stream_batches(r) = IF is_nil(r) THEN Val(<<>>)
                   ELSE IF as_array(r).ok THEN DecodeAll(as_array(r).value, stream_batch)
                   ELSE as_array(r)
  BY DEF stream_batches, Bind, Once
<1>2. \A items : DecodeAll(items, stream_batch) = Collected(results(items))
  BY DEF DecodeAll, Once
<1>3. CASE is_nil(r)
  <2>1. stream_batches(r).value = <<>> /\ is_nil(p)
    BY <1>1, <1>3, NilsStand, Outcomes
  <2>. QED
    BY <2>1, EmptyLists DEF IsBatches, Each
<1>4. CASE ~is_nil(r)
  <2>1. as_array(r).ok
    BY <1>1, <1>4
  <2>2. /\ as_array(r) = Val(r.items) /\ IsArray(p) /\ ~is_nil(p)
        /\ SameLength(p.items, r.items)
        /\ \A i \in DOMAIN p.items : <<p.items[i], r.items[i]>> \in S
    BY <2>1, ArraysStand
  <2>. DEFINE n == Len(p.items)
              all == Collected(results(r.items))
  <2>3. stream_batches(r) = all
    <3>. HIDE DEF results
    <3>. QED
      BY <1>1, <1>2, <1>4, <2>1, <2>2, Outcomes
  <2>4. n \in Nat /\ DOMAIN results(r.items) = 1 .. n /\ DOMAIN p.items = 1 .. n
    BY <2>2 DEF SameLength
  <2>5. \A i \in 1 .. n : results(r.items)[i] = stream_batch(r.items[i])
    BY <2>4
  <2>6. /\ Len(all.value) = n /\ DOMAIN all.value = 1 .. n
        /\ \A i \in 1 .. n : results(r.items)[i].ok /\ all.value[i] = results(r.items)[i].value
    <3>. HIDE DEF results
    <3>. QED
      BY <2>3, <2>4, AllCollected
  <2>. HIDE DEF results, all
  <2>7. \A i \in 1 .. n : IsBatch(p.items[i], all.value[i])
    BY <2>2, <2>4, <2>5, <2>6, BatchesStand
  <2>. QED
    BY <2>2, <2>3, <2>6, <2>7 DEF IsBatches, Each, ItemsOf, IsArrayOrNil
<1>. QED
  BY <1>3, <1>4

\* A flag is TRUE for the one reply that says so.
LEMMA FlagsStand ==
    ASSUME NEW S, Faithful(S), NEW p, NEW r, <<p, r>> \in S, ~is_error(r)
    PROVE  /\ status_is_ok(r).ok => /\ p.type = "STATUS"
                                    /\ status_is_ok(r).value <=> IsStatus(p, "OK")
           /\ set_result(r).ok => (set_result(r).value <=> IsStatus(p, "OK"))
           /\ hset_result(r).ok => (hset_result(r).value <=> p.type = "INTEGER" /\ p.int >= 0)
           /\ Bind(as_integer(r), LAMBDA n : Val(n = 1)).ok =>
                 /\ p.type = "INTEGER"
                 /\ Bind(as_integer(r), LAMBDA n : Val(n = 1)).value <=> p.int = 1
<1>1. Converted(S, p, r)
  BY DEF Faithful
<1>2. status_is_ok(r).ok => /\ p.type = "STATUS"
                            /\ status_is_ok(r).value <=> IsStatus(p, "OK")
  <2>1. status_is_ok(r) = IF as_status(r).ok THEN Val(as_status(r).value = "OK")
                          ELSE as_status(r)
    BY DEF status_is_ok, Bind, Once
  <2>2. as_status(r).ok => IsStatus(p, as_status(r).value)
    BY TextsStand
  <2>. QED
    BY <2>1, <2>2, Outcomes DEF IsStatus, IsText
<1>3. set_result(r).ok => (set_result(r).value <=> IsStatus(p, "OK"))
  <2>1. CASE r.type = "STATUS"
    BY <1>2, <2>1 DEF set_result
  <2>2. CASE r.type # "STATUS"
    <3>1. ~IsStatus(p, "OK")
      BY <1>1, <2>2 DEF Converted, IsStatus, IsText
    <3>2. set_result(r) = Val(FALSE)
      BY <2>2 DEF set_result
    <3>. QED
      BY <3>1, <3>2, Outcomes
  <2>. QED
    BY <2>1, <2>2
<1>. DEFINE is_one(n) == Val(n = 1)
            is_count(n) == Val(n >= 0)
<1>4. /\ Bind(as_integer(r), is_one) =
           IF as_integer(r).ok THEN is_one(as_integer(r).value) ELSE as_integer(r)
      /\ Bind(as_integer(r), is_count) =
           IF as_integer(r).ok THEN is_count(as_integer(r).value) ELSE as_integer(r)
  <2>. HIDE DEF is_one, is_count
  <2>. QED
    BY DEF Bind, Once
<1>5. as_integer(r).ok => p.type = "INTEGER" /\ as_integer(r).value = p.int
  BY IntegersStand DEF IsInteger
<1>6. \A n : /\ is_one(n).ok /\ (is_one(n).value <=> n = 1)
             /\ is_count(n).ok /\ (is_count(n).value <=> n >= 0)
  BY DEF Val
<1>7. hset_result(r).ok => (hset_result(r).value <=> p.type = "INTEGER" /\ p.int >= 0)
  <2>1. CASE r.type = "INTEGER"
    <3>1. hset_result(r) = Bind(as_integer(r), is_count)
      BY <2>1 DEF hset_result
    <3>. HIDE DEF is_count
    <3>. QED
      BY <1>4, <1>5, <1>6, <3>1
  <2>2. CASE r.type # "INTEGER"
    <3>1. p.type # "INTEGER"
      BY <1>1, <2>2 DEF Converted
    <3>2. hset_result(r) = Val(FALSE)
      BY <2>2 DEF hset_result
    <3>. QED
      BY <3>1, <3>2, Outcomes
  <2>. QED
    BY <2>1, <2>2
<1>. DEFINE flag == Bind(as_integer(r), is_one)
<1>8. flag.ok => p.type = "INTEGER" /\ (flag.value <=> p.int = 1)
  <2>. HIDE DEF is_one
  <2>. QED
    BY <1>4, <1>5, <1>6
<1>. QED
  BY <1>2, <1>3, <1>7, <1>8, Zenon

LEMMA DecodersStand ==
    ASSUME NEW S, Faithful(S), NEW p, NEW r, <<p, r>> \in S, ~is_error(r),
           NEW d \in Decoders, Decode(d, r).ok
    PROVE  StandsFor(d, p, Decode(d, r).value)
<1>1. CASE d \in {"text", "status", "optional_string"}
  BY <1>1, TextsStand DEF Decode, StandsFor
<1>2. CASE d \in {"optional_score", "zincrby"}
  BY <1>2, ScoresStand DEF Decode, StandsFor
<1>3. CASE d \in {"status_is_ok", "set", "hset"}
  <2>1. /\ status_is_ok(r).ok => /\ p.type = "STATUS"
                                 /\ status_is_ok(r).value <=> IsStatus(p, "OK")
        /\ set_result(r).ok => (set_result(r).value <=> IsStatus(p, "OK"))
        /\ hset_result(r).ok => (hset_result(r).value <=> p.type = "INTEGER" /\ p.int >= 0)
    BY FlagsStand, Zenon
  <2>2. CASE d = "status_is_ok"
    <3>1. Decode(d, r) = status_is_ok(r)
      BY <2>2 DEF Decode
    <3>. DEFINE w == status_is_ok(r).value
    <3>2. status_is_ok(r).ok
      BY <3>1
    <3>3. p.type = "STATUS" /\ (w <=> IsStatus(p, "OK"))
      BY <2>1, <3>2, Zenon
    <3>. HIDE DEF w
    <3>4. StandsFor("status_is_ok", p, w)
      BY <3>3 DEF StandsFor
    <3>. QED
      BY <2>2, <3>1, <3>4, Zenon DEF w
  <2>3. CASE d = "set"
    <3>1. Decode(d, r) = set_result(r)
      BY <2>3 DEF Decode
    <3>. QED
      BY <2>1, <2>3, <3>1 DEF StandsFor
  <2>4. CASE d = "hset"
    <3>1. Decode(d, r) = hset_result(r)
      BY <2>4 DEF Decode
    <3>. QED
      BY <2>1, <2>4, <3>1 DEF StandsFor
  <2>. QED
    BY <1>3, <2>2, <2>3, <2>4
<1>4. CASE d = "flag"
  <2>. DEFINE flag == Bind(as_integer(r), LAMBDA n : Val(n = 1))
  <2>1. Decode("flag", r) = flag
    BY DEF Decode
  <2>2. flag.ok => p.type = "INTEGER" /\ (flag.value <=> p.int = 1)
    BY FlagsStand, Zenon
  <2>. HIDE DEF flag
  <2>. QED
    BY <1>4, <2>1, <2>2 DEF StandsFor
<1>5. CASE d = "integer"
  BY <1>5, IntegersStand DEF Decode, StandsFor
<1>6. CASE d \in {"strings", "hash", "scores"}
  BY <1>6, StringsStand, HashesStand, ScoreListsStand DEF Decode, StandsFor
<1>7. CASE d = "hget_batch"
  BY <1>7, HgetStands DEF Decode, StandsFor
<1>8. CASE d \in {"scan", "hscan"}
  BY <1>8, PagesStand DEF Decode, StandsFor
<1>9. CASE d \in {"stream_entries", "stream_batches"}
  BY <1>9, EntryListsStand, BatchListsStand DEF Decode, StandsFor
<1>. QED
  BY <1>1, <1>2, <1>3, <1>4, <1>5, <1>6, <1>7, <1>8, <1>9 DEF Decoders
-----------------------------------------------------------------------------
(* What a tree is converted to is faithful to it, and so is what the caller *)
(* gets.                                                                    *)

LEMMA ArraysBecomeArrays ==
    ASSUME NEW f, NEW p, IsArray(p), Conversion(f, p).ok
    PROVE  Conversion(f, p).value.type = "ARRAY" /\ "str" \notin DOMAIN Conversion(f, p).value
<1>. DEFINE element(e) == IF e.type = "NULL" THEN Malformed ELSE f[e]
            all == Collected([i \in DOMAIN p.items |-> element(p.items[i])])
            Made(items) == Val(make_array(items))
<1>1. Conversion(f, p) = Bind(all, LAMBDA items : Made(items))
  BY DEF IsArray, Conversion, DecodeAll, Once
<1>2. Conversion(f, p) = IF all.ok THEN Made(all.value) ELSE all
  <2>. HIDE DEF all, Made
  <2>. QED
    BY <1>1 DEF Bind, Once
<1>3. \A items : make_array(items).type = "ARRAY" /\ "str" \notin DOMAIN make_array(items)
  BY DEF make_array
<1>. HIDE DEF all
<1>. QED
  BY <1>2, <1>3, Outcomes

\* Each type of a tree.
LEMMA PartsAreConverted ==
    ASSUME NEW S, NEW f, NEW p,
           IsArray(p) => /\ Len(p.items) \in Nat /\ DOMAIN p.items = 1 .. Len(p.items)
                         /\ \A i \in DOMAIN p.items :
                               /\ Fine(f[p.items[i]])
                               /\ f[p.items[i]].ok => <<p.items[i], f[p.items[i]].value>> \in S,
           p.type = "INTEGER" => p.int \in Int64,
           Conversion(f, p).ok
    PROVE  Converted(S, p, Conversion(f, p).value)
<1>. DEFINE c == Conversion(f, p)
            r == c.value
<1>1. CASE p.type \in {"STRING", "STATUS", "ERROR"}
  <2>1. c = IF "str" \in DOMAIN p THEN Val(p) ELSE Malformed
    BY <1>1 DEF Conversion
  <2>2. c.ok
    OBVIOUS
  <2>. HIDE DEF c
  <2>3. "str" \in DOMAIN p /\ r = p
    BY <2>1, <2>2, FineCases, Outcomes
  <2>. QED
    BY <1>1, <2>3 DEF Converted, IsText, c
<1>2. CASE p.type = "INTEGER"
  <2>1. c = Val(make_integer(p.int))
    BY <1>2 DEF Conversion
  <2>2. r = make_integer(p.int)
    <3>. HIDE DEF c
    <3>. QED
      BY <2>1, Outcomes
  <2>3. make_integer(p.int).type = "INTEGER" /\ "str" \notin DOMAIN make_integer(p.int)
    BY DEF make_integer
  <2>. HIDE DEF c
  <2>. QED
    BY <1>2, <2>2, <2>3 DEF Converted, c
<1>3. CASE p.type = "NIL"
  <2>1. c = Val(make_nil)
    BY <1>3 DEF Conversion
  <2>2. make_nil.type = "NIL" /\ "str" \notin DOMAIN make_nil
    BY DEF make_nil
  <2>. HIDE DEF c
  <2>. QED
    BY <1>3, <2>1, <2>2, Outcomes DEF Converted, c
<1>4. CASE p.type = "ARRAY"
  <2>1. c.ok
    OBVIOUS
  <2>2. IsArray(p)
    <3>1. "items" \notin DOMAIN p => c = Malformed
      BY <1>4 DEF Conversion
    <3>. HIDE DEF c
    <3>. QED
      BY <1>4, <2>1, <3>1, FineCases DEF IsArray
  <2>3. r.type = "ARRAY" /\ "str" \notin DOMAIN r
    BY <2>2, ArraysBecomeArrays
  <2>. DEFINE items == [i \in DOMAIN p.items |-> f[p.items[i]].value]
  <2>4. r = make_array(items) /\ \A i \in DOMAIN p.items : f[p.items[i]].ok
    BY <2>2, <2>3, ConversionGives
  <2>5. r.items = items
    BY <2>4 DEF make_array
  <2>6. SameLength(p.items, items)
    BY <2>2 DEF SameLength
  <2>7. \A i \in DOMAIN p.items : <<p.items[i], items[i]>> \in S
    BY <2>2, <2>4
  <2>. HIDE DEF c, items
  <2>. QED
    BY <1>4, <2>2, <2>3, <2>5, <2>6, <2>7 DEF Converted, c
<1>5. CASE p.type \notin {"STRING", "STATUS", "ERROR", "INTEGER", "NIL", "ARRAY"}
  <2>1. c = Val(make_error("Unknown reply type"))
    BY <1>5 DEF Conversion
  <2>2. make_error("Unknown reply type").type = "ERROR"
    BY DEF make_error
  <2>3. r = make_error("Unknown reply type")
    <3>. HIDE DEF c
    <3>. QED
      BY <2>1, Outcomes
  <2>4. r.type = "ERROR"
    BY <2>2, <2>3
  <2>. HIDE DEF c
  <2>. QED
    BY <1>5, <2>4 DEF Converted, c
<1>. QED
  BY <1>1, <1>2, <1>3, <1>4, <1>5

LEMMA RepliesAreFaithful ==
    ASSUME NEW tree \in Delivered, convert_reply(tree).ok
    PROVE  \E S : Faithful(S) /\ <<tree, convert_reply(tree).value>> \in S
<1>1. PICK f : /\ f = [r \in Parts(tree) |-> Conversion(f, r)]
               /\ convert_reply(tree) = f[tree]
  BY ConvertReplyIsConversion
<1>2. \A p \in Parts(tree) : f[p] = Conversion(f, p)
  BY <1>1
<1>3. \A p \in Parts(tree) : Fine(f[p])
  BY <1>1, PartsAreFine
<1>. DEFINE ok == {p \in Parts(tree) : f[p].ok}
            S == {<<p, f[p].value>> : p \in ok}
<1>4. ASSUME NEW p \in ok PROVE Converted(S, p, f[p].value)
  <2>1. ASSUME IsArray(p)
        PROVE  /\ Len(p.items) \in Nat /\ DOMAIN p.items = 1 .. Len(p.items)
               /\ \A i \in DOMAIN p.items :
                     /\ Fine(f[p.items[i]])
                     /\ f[p.items[i]].ok => <<p.items[i], f[p.items[i]].value>> \in S
    <3>1. Len(p.items) \in Nat /\ DOMAIN p.items = 1 .. Len(p.items)
          /\ \A i \in DOMAIN p.items : p.items[i] \in Parts(tree)
      BY <2>1, PartsOfParts
    <3>2. \A q \in Parts(tree) : f[q].ok => <<q, f[q].value>> \in S
      OBVIOUS
    <3>. HIDE DEF S
    <3>. QED
      BY <1>3, <3>1, <3>2
  <2>2. p.type = "INTEGER" => p.int \in Int64
    BY LongLongAssumption
  <2>3. f[p] = Conversion(f, p) /\ Conversion(f, p).ok
    BY <1>2
  <2>. HIDE DEF S
  <2>. QED
    BY <2>1, <2>2, <2>3, PartsAreConverted
<1>5. Faithful(S)
  <2>. SUFFICES ASSUME NEW p, NEW r, <<p, r>> \in S PROVE Converted(S, p, r)
    BY DEF Faithful
  <2>1. p \in ok /\ r = f[p].value
    OBVIOUS
  <2>. HIDE DEF S, ok
  <2>. QED
    BY <1>4, <2>1
<1>6. tree \in ok
  BY <1>1, PartsAssumption
<1>7. <<tree, convert_reply(tree).value>> \in S
  BY <1>1, <1>6
<1>. HIDE DEF S
<1>. QED
  BY <1>5, <1>7

LEMMA AnswersStand ==
    ASSUME NEW tree \in Delivered, NEW d \in Decoders, NEW answer,
           answer = Bind(convert_reply(tree), LAMBDA r :
                        Bind(or_throw(r), LAMBDA s : Decode(d, s))),
           answer.ok
    PROVE  StandsFor(d, tree, answer.value)
<1>. DEFINE decoded(s) == Decode(d, s)
            thrown(r) == Bind(or_throw(r), LAMBDA s : decoded(s))
            r == convert_reply(tree).value
<1>1. answer = Bind(convert_reply(tree), LAMBDA x : thrown(x))
  BY Zenon
<1>2. answer = IF convert_reply(tree).ok THEN thrown(r) ELSE convert_reply(tree)
  <2>. HIDE DEF thrown
  <2>. QED
    BY <1>1 DEF Bind, Once
<1>3. thrown(r) = IF or_throw(r).ok THEN decoded(or_throw(r).value) ELSE or_throw(r)
  <2>. HIDE DEF decoded, r
  <2>. QED
    BY DEF Bind, Once
<1>. HIDE DEF thrown, decoded
<1>4. convert_reply(tree).ok /\ or_throw(r).ok
  BY <1>2, <1>3
<1>5. ~is_error(r) /\ or_throw(r) = Val(r)
  <2>. HIDE DEF r
  <2>1. CASE is_error(r)
    <3>1. or_throw(r) = Bind(as_text(r), LAMBDA t : Throw("redis_error"))
      BY <2>1 DEF or_throw
    <3>2. or_throw(r) = IF as_text(r).ok THEN Throw("redis_error") ELSE as_text(r)
      BY <3>1 DEF Bind, Once
    <3>. QED
      BY <1>4, <3>2, Outcomes
  <2>2. CASE ~is_error(r)
    BY <2>2 DEF or_throw
  <2>. QED
    BY <2>1, <2>2
<1>6. answer = Decode(d, r)
  BY <1>2, <1>3, <1>4, <1>5, Outcomes DEF decoded
<1>7. PICK S : Faithful(S) /\ <<tree, r>> \in S
  BY <1>4, RepliesAreFaithful
<1>. HIDE DEF r
<1>. QED
  BY <1>5, <1>6, <1>7, DecodersStand

\* A value accounts for every element of the reply it was read from, and for
\* nothing else, whatever tree hiredis delivers to whichever decoder.
THEOREM NothingIsMadeUp == ConversionSpec => []NothingDroppedOrInvented
<1>1. ConvertsReply \/ ConvertsText => NothingDroppedOrInvented
  BY DEF ConvertsReply, ConvertsText, Init, NothingDroppedOrInvented, Got
<1>2. /\ OneConversion /\ NothingDroppedOrInvented
      /\ [ReceiveReply \/ ReadNumber \/ ReadUrl]_allVars
      => NothingDroppedOrInvented'
  <2>. SUFFICES ASSUME OneConversion, NothingDroppedOrInvented,
                       [ReceiveReply \/ ReadNumber \/ ReadUrl]_allVars
                PROVE  NothingDroppedOrInvented'
    OBVIOUS
  <2>1. CASE ReceiveReply
    <3>. DEFINE answer == Bind(convert_reply(raw), LAMBDA r :
                              Bind(or_throw(r), LAMBDA s : Decode(decoder, s)))
    <3>1. outcome' = Some(answer)
      BY <2>1, Zenon DEF ReceiveReply, Receive
    <3>2. raw \in Delivered /\ decoder \in Decoders
      BY <2>1 DEF ReceiveReply, OneConversion
    <3>3. answer.ok => StandsFor(decoder, raw, answer.value)
      BY <3>2, AnswersStand, Zenon
    <3>4. outcome'[1] = answer
      <4>. HIDE DEF answer
      <4>. QED
        BY <3>1 DEF Some
    <3>5. raw' = raw /\ decoder' = decoder
      BY <2>1 DEF ReceiveReply, Receive
    <3>. HIDE DEF answer
    <3>. QED
      BY <3>3, <3>4, <3>5, Zenon DEF NothingDroppedOrInvented, Got
  <2>2. CASE ReadNumber
    BY <2>2 DEF ReadNumber, vars, NothingDroppedOrInvented, Got
  <2>3. CASE ReadUrl
    BY <2>3 DEF ReadUrl, vars, NothingDroppedOrInvented, Got
  <2>4. CASE UNCHANGED allVars
    BY <2>4 DEF allVars, vars, NothingDroppedOrInvented, Got
  <2>. QED
    BY <2>1, <2>2, <2>3, <2>4
<1>. QED
  BY <1>1, <1>2, OneConversionHolds, PTL DEF ConversionSpec
-----------------------------------------------------------------------------
(* The decoders: a well-formed reply gives the value it stands for.         *)

\* What a sound tree was converted to.
Carried(S, p, r) ==
    \/ p.type \in {"STRING", "STATUS"} /\ "str" \in DOMAIN p /\ r = p
    \/ p.type = "INTEGER" /\ p.int \in Int64 /\ r = make_integer(p.int)
    \/ p.type = "NIL" /\ r = make_nil
    \/ /\ IsArray(p) /\ r = make_array(r.items) /\ SameLength(p.items, r.items)
       /\ \A i \in DOMAIN p.items : <<p.items[i], r.items[i]>> \in S

Exact(S) == \A p, r : <<p, r>> \in S => Carried(S, p, r)

\* The members of the replies that are made.
LEMMA RepliesMade ==
    /\ \A n : make_integer(n).type = "INTEGER" /\ "str" \notin DOMAIN make_integer(n)
              /\ "int" \in DOMAIN make_integer(n) /\ make_integer(n).int = make_signed_integer(n)
    /\ make_nil.type = "NIL" /\ "str" \notin DOMAIN make_nil
    /\ \A items : /\ make_array(items).type = "ARRAY" /\ make_array(items).items = items
                  /\ "str" \notin DOMAIN make_array(items)
                  /\ "items" \in DOMAIN make_array(items)
BY DEF make_integer, make_nil, make_array

LEMMA ExactIsFaithful ==
    ASSUME NEW S, Exact(S)
    PROVE  Faithful(S)
<1>. SUFFICES ASSUME NEW p, NEW r, <<p, r>> \in S PROVE Converted(S, p, r)
  BY DEF Faithful
<1>1. Carried(S, p, r)
  BY DEF Exact
<1>2. CASE p.type \in {"STRING", "STATUS"} /\ "str" \in DOMAIN p /\ r = p
  BY <1>2 DEF Converted, IsText
<1>3. CASE p.type = "INTEGER" /\ p.int \in Int64 /\ r = make_integer(p.int)
  BY <1>3, RepliesMade DEF Converted
<1>4. CASE p.type = "NIL" /\ r = make_nil
  BY <1>4, RepliesMade DEF Converted
<1>5. CASE /\ IsArray(p) /\ r = make_array(r.items) /\ SameLength(p.items, r.items)
           /\ \A i \in DOMAIN p.items : <<p.items[i], r.items[i]>> \in S
  <2>1. r.type = "ARRAY" /\ "str" \notin DOMAIN r
    BY <1>5, RepliesMade
  <2>. QED
    BY <1>5, <2>1 DEF Converted, IsArray
<1>. QED
  BY <1>1, <1>2, <1>3, <1>4, <1>5 DEF Carried

LEMMA TextsAreRead ==
    ASSUME NEW S, Exact(S), NEW p, NEW r, <<p, r>> \in S
    PROVE  /\ \A t : IsString(p, t) => as_string(r) = Val(t)
           /\ \A t : IsStatus(p, t) => as_status(r) = Val(t)
           /\ \A t : IsString(p, t) \/ IsStatus(p, t) => as_text(r) = Val(t)
           /\ \A t : IsString(p, t) => optional_string(r) = Val(Some(t))
           /\ is_nil(p) => optional_string(r) = Val(None)
<1>1. \A t : IsString(p, t) \/ IsStatus(p, t) => r = p /\ "str" \in DOMAIN p /\ p.str = t
  BY DEF Exact, Carried, IsString, IsStatus, IsText, IsArray
<1>2. \A t : IsString(p, t) \/ IsStatus(p, t) => as_text(r) = Val(t)
  BY <1>1 DEF as_text
<1>3. \A t : IsString(p, t) => as_string(r) = Val(t)
  BY <1>1, <1>2 DEF as_string, IsString, IsText
<1>4. \A t : IsStatus(p, t) => as_status(r) = Val(t)
  BY <1>1, <1>2 DEF as_status, IsStatus, IsText
<1>5. is_nil(r) <=> is_nil(p)
  BY ExactIsFaithful, NilsStand
<1>6. optional_string(r) = IF is_nil(r) THEN Val(None)
                           ELSE IF as_string(r).ok THEN Val(Some(as_string(r).value))
                           ELSE as_string(r)
  BY DEF optional_string, Bind, Once
<1>7. \A t : IsString(p, t) => optional_string(r) = Val(Some(t))
  <2>1. \A t : IsString(p, t) => ~is_nil(p)
    BY DEF IsString, IsText, is_nil
  <2>. QED
    BY <1>3, <1>5, <1>6, <2>1, Outcomes
<1>. QED
  BY <1>2, <1>3, <1>4, <1>5, <1>6, <1>7

LEMMA StringIsRead ==
    ASSUME NEW S, Exact(S), NEW p, NEW r, <<p, r>> \in S, NEW t, IsString(p, t)
    PROVE  as_string(r) = Val(t)
BY TextsAreRead

LEMMA IntegersAreRead ==
    ASSUME NEW S, Exact(S), NEW p, NEW r, <<p, r>> \in S, p.type = "INTEGER"
    PROVE  r.type = "INTEGER" /\ as_integer(r) = Val(p.int)
<1>1. p.int \in Int64 /\ r = make_integer(p.int)
  BY DEF Exact, Carried, IsArray
<1>2. as_integer(r) = Val(get_signed_integer(make_signed_integer(p.int)))
  BY <1>1, RepliesMade DEF as_integer
<1>. QED
  BY <1>1, <1>2, RepliesMade, SignedRoundTrip

LEMMA ScoresAreRead ==
    ASSUME NEW S, Exact(S), NEW p, NEW r, <<p, r>> \in S
    PROVE  /\ is_nil(p) => optional_score(r) = Val(None)
           /\ \A x : IsScore(p, x) => /\ optional_score(r) = Val(Some(x))
                                      /\ score_value(r) = Val(x)
                                      /\ zincrby_result(r) = Val(x)
<1>. DEFINE text == optional_string(r)
            score == optional_score(r)
<1>1. score = IF ~text.ok THEN text
              ELSE IF text.value = None THEN Val(None)
              ELSE IF text.value[1] \in DOMAIN ScoreOf THEN Val(Some(ScoreOf[text.value[1]]))
              ELSE Malformed
  BY DEF optional_score, Bind, Once
<1>2. \A t : Some(t) # None /\ Some(t)[1] = t
  BY DEF Some, None
<1>3. \A t : IsString(p, t) => text = Val(Some(t))
  BY TextsAreRead
<1>4. is_nil(p) => text = Val(None)
  BY TextsAreRead
<1>. HIDE DEF text
<1>5. is_nil(p) => score = Val(None)
  <2>. HIDE DEF score
  <2>1. is_nil(p) => text.ok /\ text.value = None
    BY <1>4, Outcomes
  <2>. QED
    BY <1>1, <2>1, Zenon
<1>6. score_value(r) = IF ~score.ok THEN score
                       ELSE IF score.value = None THEN Throw("bad_optional_access")
                       ELSE Val(score.value[1])
  BY DEF score_value, Bind, Once
<1>7. zincrby_result(r) = IF ~score.ok THEN score
                          ELSE IF score.value = None THEN Unexpected
                          ELSE Val(score.value[1])
  BY DEF zincrby_result, Bind, Once
<1>. HIDE DEF score
<1>8. ASSUME NEW x, IsScore(p, x)
      PROVE  score = Val(Some(x)) /\ score_value(r) = Val(x) /\ zincrby_result(r) = Val(x)
  <2>1. PICK t \in DOMAIN ScoreOf : IsString(p, t) /\ ScoreOf[t] = x
    BY <1>8 DEF IsScore
  <2>2. score = Val(Some(x))
    BY <1>1, <1>2, <1>3, <2>1, Outcomes
  <2>. QED
    BY <1>2, <1>6, <1>7, <2>2, Outcomes
<1>. QED
  BY <1>5, <1>8 DEF score

LEMMA ArraysAreRead ==
    ASSUME NEW S, Exact(S), NEW p, NEW r, <<p, r>> \in S, IsArray(p)
    PROVE  /\ as_array(r) = Val(r.items) /\ ~is_nil(r) /\ ~is_nil(p)
           /\ SameLength(p.items, r.items)
           /\ \A i \in DOMAIN p.items : <<p.items[i], r.items[i]>> \in S
<1>1. /\ r = make_array(r.items) /\ SameLength(p.items, r.items)
      /\ \A i \in DOMAIN p.items : <<p.items[i], r.items[i]>> \in S
  BY DEF Exact, Carried, IsArray
<1>2. r.type = "ARRAY" /\ "items" \in DOMAIN r
  BY <1>1, RepliesMade
<1>. QED
  BY <1>1, <1>2 DEF as_array, is_nil, IsArray

LEMMA ScoreIsRead ==
    ASSUME NEW S, Exact(S), NEW p, NEW r, <<p, r>> \in S, NEW x, IsScore(p, x)
    PROVE  score_value(r) = Val(x)
BY ScoresAreRead

\* A loop all of whose steps give a value.
LEMMA AllRead ==
    ASSUME NEW T, NEW v \in Seq(T), NEW results, DOMAIN results = 1 .. Len(v),
           \A i \in 1 .. Len(v) : results[i] = Val(v[i])
    PROVE  Collected(results) = Val(v)
<1>. DEFINE n == Len(v)
            all == [i \in 1 .. n |-> results[i].value]
<1>1. n \in Nat /\ v = [i \in 1 .. n |-> v[i]]
  OBVIOUS
<1>2. \A i \in 1 .. n : results[i].ok /\ results[i].value = v[i]
  BY Outcomes
<1>3. all = v
  BY <1>1, <1>2
<1>4. Collected(results) = Val(all)
  <2>. HIDE DEF all, n
  <2>1. /\ n \in Nat /\ DOMAIN results = 1 .. n /\ \A i \in 1 .. n : results[i].ok
    BY <1>1, <1>2 DEF n
  <2>. QED
    BY <2>1, CollectedResult DEF all
<1>. QED
  BY <1>3, <1>4

LEMMA StringsAreRead ==
    ASSUME NEW S, Exact(S), NEW p, NEW r, <<p, r>> \in S,
           NEW T, NEW v \in Seq(T), IsStrings(p, v)
    PROVE  strings(r) = Val(v)
<1>. DEFINE results(items) == [i \in DOMAIN items |-> as_string(items[i])]
<1>1. strings(r) = IF is_nil(r) THEN Val(<<>>)
                   ELSE IF as_array(r).ok THEN DecodeAll(as_array(r).value, as_string)
                   ELSE as_array(r)
  BY DEF strings, Bind, Once
<1>2. \A items : DecodeAll(items, as_string) = Collected(results(items))
  BY DEF DecodeAll, Once
<1>3. CASE is_nil(p)
  <2>1. is_nil(r)
    BY <1>3, ExactIsFaithful, NilsStand
  <2>2. v = <<>>
    BY <1>3, EmptyLists DEF IsStrings, Each
  <2>. QED
    BY <1>1, <2>1, <2>2
<1>4. CASE ~is_nil(p)
  <2>1. IsArray(p) /\ Len(p.items) = Len(v) /\ \A i \in DOMAIN v : IsString(p.items[i], v[i])
    BY <1>4 DEF IsStrings, IsArrayOrNil, ItemsOf, Each
  <2>2. /\ as_array(r) = Val(r.items) /\ ~is_nil(r)
        /\ SameLength(p.items, r.items)
        /\ \A i \in DOMAIN p.items : <<p.items[i], r.items[i]>> \in S
    BY <2>1, ArraysAreRead
  <2>3. strings(r) = Collected(results(r.items))
    <3>. HIDE DEF results
    <3>. QED
      BY <1>1, <1>2, <2>2, Outcomes
  <2>4. DOMAIN r.items = 1 .. Len(v) /\ DOMAIN p.items = 1 .. Len(v) /\ DOMAIN v = 1 .. Len(v)
    BY <2>1, <2>2 DEF SameLength
  <2>5. DOMAIN results(r.items) = 1 .. Len(v)
        /\ \A i \in 1 .. Len(v) : results(r.items)[i] = as_string(r.items[i])
    BY <2>4
  <2>. HIDE DEF results
  <2>6. ASSUME NEW i \in 1 .. Len(v) PROVE as_string(r.items[i]) = Val(v[i])
    <3>1. IsString(p.items[i], v[i]) /\ <<p.items[i], r.items[i]>> \in S
      BY <2>1, <2>2, <2>4
    <3>. QED
      BY <3>1, StringIsRead
  <2>. QED
    BY <2>3, <2>5, <2>6, AllRead
<1>. QED
  BY <1>3, <1>4

LEMMA HgetIsRead ==
    ASSUME NEW S, Exact(S), NEW p, NEW r, <<p, r>> \in S,
           NEW T, NEW v \in Seq({None} \cup {Some(t) : t \in T}), Len(v) = BatchSize,
           IsArray(p), Each(p.items, v, IsOptional)
    PROVE  hget_result(r, BatchSize) = Val(v)
<1>. DEFINE results(items) == [i \in DOMAIN items |-> optional_string(items[i])]
            Optionals == {None} \cup {Some(t) : t \in T}
<1>1. hget_result(r, BatchSize) =
        IF as_array(r).ok
        THEN IF Len(as_array(r).value) # BatchSize THEN Malformed
             ELSE Collected(results(as_array(r).value))
        ELSE as_array(r)
  BY DEF hget_result, Bind, DecodeAll, Once
<1>2. /\ as_array(r) = Val(r.items)
      /\ SameLength(p.items, r.items)
      /\ \A i \in DOMAIN p.items : <<p.items[i], r.items[i]>> \in S
  BY ArraysAreRead
<1>3. Len(p.items) = Len(v) /\ \A i \in DOMAIN v : IsOptional(p.items[i], v[i])
  BY DEF Each
<1>4. DOMAIN r.items = 1 .. Len(v) /\ DOMAIN p.items = 1 .. Len(v) /\ DOMAIN v = 1 .. Len(v)
      /\ Len(r.items) = BatchSize
  BY <1>2, <1>3 DEF SameLength
<1>5. hget_result(r, BatchSize) = Collected(results(r.items))
  <2>. HIDE DEF results
  <2>. QED
    BY <1>1, <1>2, <1>4, Outcomes
<1>6. DOMAIN results(r.items) = 1 .. Len(v)
      /\ \A i \in 1 .. Len(v) : results(r.items)[i] = optional_string(r.items[i])
  BY <1>4
<1>. HIDE DEF results
<1>7. ASSUME NEW i \in 1 .. Len(v)
      PROVE  optional_string(r.items[i]) = Val(v[i])
  <2>1. v[i] \in Optionals /\ IsOptional(p.items[i], v[i]) /\ <<p.items[i], r.items[i]>> \in S
    BY <1>2, <1>3, <1>4
  <2>2. CASE v[i] = None
    <3>1. is_nil(p.items[i])
      BY <2>1, <2>2 DEF IsOptional
    <3>2. optional_string(r.items[i]) = Val(None)
      BY <2>1, <3>1, TextsAreRead
    <3>. QED
      BY <2>2, <3>2
  <2>3. ASSUME NEW t \in T, v[i] = Some(t) PROVE optional_string(r.items[i]) = Val(v[i])
    <3>1. Some(t) # None /\ Some(t)[1] = t
      BY DEF Some, None
    <3>2. IsString(p.items[i], t)
      BY <2>1, <2>3, <3>1 DEF IsOptional
    <3>. QED
      BY <2>1, <2>3, <3>2, TextsAreRead
  <2>. QED
    BY <2>1, <2>2, <2>3
<1>. QED
  BY <1>5, <1>6, <1>7, AllRead

\* Pairs of which each half gives a value.
LEMMA PairsAreRead ==
    ASSUME NEW A, NEW B, NEW v \in Seq(A \X B), NEW n \in Nat, n = 2 * Len(v),
           NEW results, DOMAIN results = 1 .. n,
           \A i \in 1 .. Len(v) : /\ results[2 * i - 1] = Val(v[i][1])
                                  /\ results[2 * i] = Val(v[i][2])
    PROVE  Collected(results).ok /\ Paired(Collected(results).value) = Val(v)
<1>. DEFINE h == Len(v)
            all == [i \in 1 .. n |-> results[i].value]
            made == [i \in 1 .. n \div 2 |-> <<all[2 * i - 1], all[2 * i]>>]
<1>1. h \in Nat /\ n = 2 * h /\ n \div 2 = h
  OBVIOUS
<1>. HIDE DEF h
<1>2. ASSUME NEW k \in 1 .. n PROVE results[k].ok
  <2>1. k \in 1 .. 2 * h
    BY <1>1
  <2>2. \E i \in 1 .. h : k = 2 * i - 1 \/ k = 2 * i
    BY <1>1, <2>1, EveryPlaceIsInAPair
  <2>3. PICK i \in 1 .. Len(v) : k = 2 * i - 1 \/ k = 2 * i
    BY <2>2 DEF h
  <2>4. results[2 * i - 1].ok /\ results[2 * i].ok
    BY Outcomes
  <2>. QED
    BY <2>3, <2>4
<1>3. Collected(results) = Val(all)
  <2>. HIDE DEF all
  <2>. QED
    BY <1>2, CollectedResult DEF all
<1>4. Len(all) = n
  OBVIOUS
<1>5. ASSUME NEW i \in 1 .. h
      PROVE  <<all[2 * i - 1], all[2 * i]>> = v[i]
  <2>1. 2 * i - 1 \in 1 .. n /\ 2 * i \in 1 .. n
    BY <1>1
  <2>2. all[2 * i - 1] = results[2 * i - 1].value /\ all[2 * i] = results[2 * i].value
    BY <2>1
  <2>. HIDE DEF all
  <2>3. all[2 * i - 1] = v[i][1] /\ all[2 * i] = v[i][2]
    BY <2>2, Outcomes DEF h
  <2>4. v[i] \in A \X B
    BY DEF h
  <2>. QED
    BY <2>3, <2>4
<1>6. made = v
  <2>1. v = [i \in 1 .. h |-> v[i]]
    BY DEF h
  <2>. HIDE DEF all
  <2>. QED
    BY <1>1, <1>5, <2>1
<1>. HIDE DEF all
<1>7. Collected(results).value = all
  BY <1>3, Outcomes
<1>8. Paired(all) = Val(v)
  BY <1>4, <1>6 DEF Paired
<1>. QED
  BY <1>3, <1>7, <1>8, Outcomes

LEMMA StringPairsAreRead ==
    ASSUME NEW S, Exact(S), NEW a, NEW b, SameLength(a, b),
           \A i \in DOMAIN a : <<a[i], b[i]>> \in S,
           NEW A, NEW B, NEW v \in Seq(A \X B), Flattened(a, v, IsString)
    PROVE  StringPairs(b) = Val(v)
<1>. DEFINE results == [i \in DOMAIN b |-> as_string(b[i])]
            flat == Collected(results)
            n == Len(a)
            h == Len(v)
<1>1. StringPairs(b) = IF Len(b) % 2 # 0 THEN Malformed
                       ELSE IF flat.ok THEN Paired(flat.value) ELSE flat
  <2>1. StringPairs(b) = IF Len(b) % 2 # 0 THEN Malformed
                         ELSE Bind(Once(results, Collected), Paired)
    BY DEF StringPairs, Pairs
  <2>2. Once(results, Collected) = flat
    <3>. HIDE DEF results
    <3>. QED
      BY DEF Once
  <2>3. Bind(flat, Paired) = IF flat.ok THEN Paired(flat.value) ELSE flat
    <3>. HIDE DEF flat
    <3>. QED
      BY DEF Bind, Once
  <2>. HIDE DEF results, flat
  <2>. QED
    BY <2>1, <2>2, <2>3
<1>2. n \in Nat /\ Len(b) = n /\ DOMAIN results = 1 .. n /\ DOMAIN a = 1 .. n
  BY DEF SameLength
<1>3. n = 2 * h /\ h \in Nat /\ DOMAIN v = 1 .. h
  BY DEF Flattened
<1>4. \A i \in 1 .. n : results[i] = as_string(b[i])
  BY <1>2
<1>. HIDE DEF results, flat, h
<1>5. ASSUME NEW i \in 1 .. h
      PROVE  results[2 * i - 1] = Val(v[i][1]) /\ results[2 * i] = Val(v[i][2])
  <2>. DEFINE first == 2 * i - 1
              second == 2 * i
  <2>1. first \in 1 .. n /\ second \in 1 .. n
    BY <1>3
  <2>2. IsString(a[first], v[i][1]) /\ IsString(a[second], v[i][2])
    BY <1>3 DEF Flattened
  <2>. HIDE DEF first, second
  <2>3. <<a[first], b[first]>> \in S /\ <<a[second], b[second]>> \in S
    BY <1>2, <2>1
  <2>4. as_string(b[first]) = Val(v[i][1]) /\ as_string(b[second]) = Val(v[i][2])
    BY <2>2, <2>3, StringIsRead
  <2>5. results[first] = Val(v[i][1]) /\ results[second] = Val(v[i][2])
    BY <1>4, <2>1, <2>4
  <2>. QED
    BY <2>5 DEF first, second
<1>6. flat.ok /\ Paired(flat.value) = Val(v)
  BY <1>2, <1>3, <1>5, PairsAreRead DEF h, flat
<1>7. Len(b) % 2 = 0
  BY <1>2, <1>3
<1>. QED
  BY <1>1, <1>6, <1>7

LEMMA ScoredMembersAreRead ==
    ASSUME NEW S, Exact(S), NEW a, NEW b, SameLength(a, b),
           \A i \in DOMAIN a : <<a[i], b[i]>> \in S,
           NEW A, NEW B, NEW v \in Seq(A \X B), Flattened(a, v, IsScore)
    PROVE  ScoredMembers(b) = Val(v)
<1>. DEFINE results == [i \in DOMAIN b |-> member_or_score(i % 2, b[i])]
            flat == Collected(results)
            n == Len(a)
            h == Len(v)
<1>1. ScoredMembers(b) = IF Len(b) % 2 # 0 THEN Malformed
                         ELSE IF flat.ok THEN Paired(flat.value) ELSE flat
  <2>1. ScoredMembers(b) = IF Len(b) % 2 # 0 THEN Malformed
                           ELSE Bind(Once(results, Collected), Paired)
    BY DEF ScoredMembers, Pairs
  <2>2. Once(results, Collected) = flat
    <3>. HIDE DEF results
    <3>. QED
      BY DEF Once
  <2>3. Bind(flat, Paired) = IF flat.ok THEN Paired(flat.value) ELSE flat
    <3>. HIDE DEF flat
    <3>. QED
      BY DEF Bind, Once
  <2>. HIDE DEF results, flat
  <2>. QED
    BY <2>1, <2>2, <2>3
<1>2. n \in Nat /\ Len(b) = n /\ DOMAIN results = 1 .. n /\ DOMAIN a = 1 .. n
  BY DEF SameLength
<1>3. n = 2 * h /\ h \in Nat /\ DOMAIN v = 1 .. h
  BY DEF Flattened
<1>4. \A i \in 1 .. n : results[i] = IF i % 2 = 1 THEN as_string(b[i]) ELSE score_value(b[i])
  BY <1>2 DEF member_or_score
<1>. HIDE DEF results, flat, h
<1>5. ASSUME NEW i \in 1 .. h
      PROVE  results[2 * i - 1] = Val(v[i][1]) /\ results[2 * i] = Val(v[i][2])
  <2>. DEFINE first == 2 * i - 1
              second == 2 * i
  <2>1. first \in 1 .. n /\ second \in 1 .. n /\ first % 2 = 1 /\ second % 2 = 0
    BY <1>3
  <2>2. IsString(a[first], v[i][1]) /\ IsScore(a[second], v[i][2])
    BY <1>3 DEF Flattened
  <2>. HIDE DEF first, second
  <2>3. <<a[first], b[first]>> \in S /\ <<a[second], b[second]>> \in S
    BY <1>2, <2>1
  <2>4. as_string(b[first]) = Val(v[i][1])
    BY <2>2, <2>3, StringIsRead
  <2>5. score_value(b[second]) = Val(v[i][2])
    BY <2>2, <2>3, ScoreIsRead
  <2>6. results[first] = Val(v[i][1]) /\ results[second] = Val(v[i][2])
    BY <1>4, <2>1, <2>4, <2>5
  <2>. QED
    BY <2>6 DEF first, second
<1>6. flat.ok /\ Paired(flat.value) = Val(v)
  BY <1>2, <1>3, <1>5, PairsAreRead DEF h, flat
<1>7. Len(b) % 2 = 0
  BY <1>2, <1>3
<1>. QED
  BY <1>1, <1>6, <1>7

LEMMA ScoreListsAreRead ==
    ASSUME NEW S, Exact(S), NEW p, NEW r, <<p, r>> \in S,
           NEW A, NEW B, NEW v \in Seq(A \X B), IsScores(p, v)
    PROVE  scores(r) = Val(v)
<1>1. scores(r) = IF is_nil(r) THEN Val(<<>>)
                  ELSE IF as_array(r).ok THEN ScoredMembers(as_array(r).value)
                  ELSE as_array(r)
  BY DEF scores, Bind, Once
<1>2. CASE is_nil(p)
  <2>1. is_nil(r)
    BY <1>2, ExactIsFaithful, NilsStand
  <2>2. v = <<>>
    BY <1>2, EmptyLists DEF IsScores, Flattened
  <2>. QED
    BY <1>1, <2>1, <2>2
<1>3. CASE ~is_nil(p)
  <2>1. IsArray(p) /\ Flattened(p.items, v, IsScore)
    BY <1>3 DEF IsScores, IsArrayOrNil, ItemsOf
  <2>2. /\ as_array(r) = Val(r.items) /\ ~is_nil(r)
        /\ SameLength(p.items, r.items)
        /\ \A i \in DOMAIN p.items : <<p.items[i], r.items[i]>> \in S
    BY <2>1, ArraysAreRead
  <2>3. scores(r) = ScoredMembers(r.items)
    BY <1>1, <2>2, Outcomes
  <2>. QED
    BY <2>1, <2>2, <2>3, ScoredMembersAreRead
<1>. QED
  BY <1>2, <1>3

\* The map of pairs in which the first value of a field counts.
FirstsOf(pairs, h, map) ==
    /\ DOMAIN pairs = 1 .. h
    /\ {pairs[i][1] : i \in 1 .. h} = DOMAIN map
    /\ \A i \in 1 .. h : (\A j \in 1 .. i - 1 : pairs[j][1] # pairs[i][1])
                              => pairs[i][2] = map[pairs[i][1]]

LEMMA FirstPairsStay ==
    ASSUME NEW h \in Nat, NEW pairs, NEW v \in Maps, FirstsOf(pairs, h, v)
    PROVE  EmplacedPairs(pairs) = v
<1>0. /\ DOMAIN pairs = 1 .. h
      /\ {pairs[i][1] : i \in 1 .. h} = DOMAIN v
      /\ \A i \in 1 .. h : (\A j \in 1 .. i - 1 : pairs[j][1] # pairs[i][1])
                                => pairs[i][2] = v[pairs[i][1]]
  BY DEF FirstsOf
<1>. DEFINE First(f, i) == /\ pairs[i][1] = f
                           /\ \A j \in DOMAIN pairs : pairs[j][1] = f => i <= j
<1>1. v = [f \in DOMAIN v |-> v[f]]
  BY DEF Maps
<1>2. EmplacedPairs(pairs) = [f \in DOMAIN v |-> pairs[CHOOSE i \in DOMAIN pairs : First(f, i)][2]]
  BY <1>0 DEF EmplacedPairs
<1>3. ASSUME NEW f \in DOMAIN v
      PROVE  pairs[CHOOSE i \in DOMAIN pairs : First(f, i)][2] = v[f]
  <2>. DEFINE of == {i \in 1 .. h : pairs[i][1] = f}
  <2>1. of \subseteq Nat /\ of # {}
    BY <1>0
  <2>2. PICK i \in of : \A j \in of : i <= j
    BY <2>1, LeastOf
  <2>3. i \in DOMAIN pairs /\ First(f, i)
    BY <1>0, <2>2
  <2>4. \A k \in DOMAIN pairs : First(f, k) => k = i
    BY <1>0, <2>2
  <2>5. (CHOOSE k \in DOMAIN pairs : First(f, k)) = i
    <3>. HIDE DEF First
    <3>. QED
      BY <2>3, <2>4
  <2>6. \A j \in 1 .. i - 1 : pairs[j][1] # pairs[i][1]
    BY <1>0, <2>2
  <2>7. pairs[i][2] = v[pairs[i][1]]
    BY <1>0, <2>2, <2>6
  <2>. QED
    BY <2>2, <2>5, <2>7
<1>. HIDE DEF First
<1>. QED
  BY <1>1, <1>2, <1>3

LEMMA HashesAreRead ==
    ASSUME NEW S, Exact(S), NEW p, NEW r, <<p, r>> \in S, NEW v \in Maps, IsHash(p, v)
    PROVE  hash(r) = Val(v)
<1>. DEFINE Pairwise(items) == StringPairs(items)
            a == p.items
            n == Len(a)
            h == n \div 2
            pairs == [i \in 1 .. h |-> <<a[2 * i - 1].str, a[2 * i].str>>]
            texts == {a[k].str : k \in 1 .. n}
<1>1. hash(r) = IF as_array(r).ok
                THEN IF Pairwise(as_array(r).value).ok
                     THEN Val(EmplacedPairs(Pairwise(as_array(r).value).value))
                     ELSE Pairwise(as_array(r).value)
                ELSE as_array(r)
  BY DEF hash, Bind, Once
<1>. HIDE DEF Pairwise
<1>2. /\ IsArray(p) /\ n % 2 = 0
      /\ \A k \in DOMAIN a : IsString(a[k], a[k].str)
      /\ {a[2 * i - 1].str : i \in 1 .. h} = DOMAIN v
      /\ \A i \in 1 .. h : (\A j \in 1 .. i - 1 : a[2 * j - 1].str # a[2 * i - 1].str)
                               => a[2 * i].str = v[a[2 * i - 1].str]
  BY DEF IsHash
<1>3. /\ as_array(r) = Val(r.items)
      /\ SameLength(a, r.items)
      /\ \A i \in DOMAIN a : <<a[i], r.items[i]>> \in S
  BY <1>2, ArraysAreRead
<1>4. n \in Nat /\ DOMAIN a = 1 .. n
  BY <1>3 DEF SameLength
<1>5. /\ h \in Nat /\ n = 2 * h
      /\ \A i \in 1 .. h : 2 * i - 1 \in 1 .. n /\ 2 * i \in 1 .. n
  BY <1>2, <1>4, HalvesOf
<1>. HIDE DEF h
<1>6. ASSUME NEW i \in 1 .. h
      PROVE  IsString(a[2 * i - 1], pairs[i][1]) /\ IsString(a[2 * i], pairs[i][2])
  <2>1. 2 * i - 1 \in DOMAIN a /\ 2 * i \in DOMAIN a
    BY <1>4, <1>5
  <2>2. IsString(a[2 * i - 1], a[2 * i - 1].str) /\ IsString(a[2 * i], a[2 * i].str)
    BY <1>2, <2>1
  <2>. QED
    BY <2>2
<1>7. pairs \in Seq(texts \X texts) /\ Len(pairs) = h /\ DOMAIN pairs = 1 .. h
  <2>1. \A i \in 1 .. h : <<a[2 * i - 1].str, a[2 * i].str>> \in texts \X texts
    BY <1>5
  <2>. HIDE DEF texts
  <2>. QED
    BY <1>5, <2>1
<1>8. \A i \in 1 .. h : pairs[i][1] = a[2 * i - 1].str /\ pairs[i][2] = a[2 * i].str
  OBVIOUS
<1>. HIDE DEF pairs, texts
<1>9. Flattened(a, pairs, IsString)
  BY <1>5, <1>6, <1>7 DEF Flattened
<1>10. Pairwise(r.items) = Val(pairs)
  <2>. DEFINE b == r.items
  <2>1. SameLength(a, b) /\ \A i \in DOMAIN a : <<a[i], b[i]>> \in S
    BY <1>3
  <2>. HIDE DEF a, b
  <2>2. StringPairs(b) = Val(pairs)
    BY <1>7, <1>9, <2>1, StringPairsAreRead
  <2>. QED
    BY <2>2 DEF b, Pairwise
<1>11. hash(r) = Val(EmplacedPairs(pairs))
  BY <1>1, <1>3, <1>10, Outcomes
<1>12. {pairs[i][1] : i \in 1 .. h} = DOMAIN v
  BY <1>2, <1>8
<1>13. \A i \in 1 .. h : (\A j \in 1 .. i - 1 : pairs[j][1] # pairs[i][1])
                              => pairs[i][2] = v[pairs[i][1]]
  <2>. SUFFICES ASSUME NEW i \in 1 .. h, \A j \in 1 .. i - 1 : pairs[j][1] # pairs[i][1]
                PROVE  pairs[i][2] = v[pairs[i][1]]
    OBVIOUS
  <2>1. \A j \in 1 .. i - 1 : j \in 1 .. h
    BY <1>5, PlacesBefore
  <2>2. \A j \in 1 .. i - 1 : a[2 * j - 1].str # a[2 * i - 1].str
    BY <1>8, <2>1
  <2>. QED
    BY <1>2, <1>8, <2>2
<1>14. EmplacedPairs(pairs) = v
  <2>1. FirstsOf(pairs, h, v)
    BY <1>7, <1>12, <1>13 DEF FirstsOf
  <2>. QED
    BY <1>5, <2>1, FirstPairsStay
<1>. QED
  BY <1>11, <1>14

LEMMA PagesAreRead ==
    ASSUME NEW S, Exact(S), NEW p, NEW r, <<p, r>> \in S, NEW v, IsPage(p, v)
    PROVE  /\ scan_cursor(r) = Val(v.cursor) /\ ItemAt(r.items, 1) = Val(r.items[2])
           /\ <<p.items[2], r.items[2]>> \in S
<1>. DEFINE parts == as_array(r).value
            text == as_string(parts[1])
<1>1. scan_cursor(r) =
        IF ~as_array(r).ok THEN as_array(r)
        ELSE IF Len(parts) # 2 THEN Malformed
        ELSE IF ~as_array(parts[2]).ok THEN as_array(parts[2])
        ELSE IF ~text.ok THEN text
        ELSE to_cursor(text.value)
  BY DEF scan_cursor, Bind, Once
<1>2. /\ IsArray(p) /\ Len(p.items) = 2
      /\ IsCursor(p.items[1], v.cursor) /\ IsArray(p.items[2])
  BY DEF IsPage, IsTwo
<1>3. /\ as_array(r) = Val(r.items)
      /\ SameLength(p.items, r.items)
      /\ \A i \in DOMAIN p.items : <<p.items[i], r.items[i]>> \in S
  BY <1>2, ArraysAreRead
<1>4. parts = r.items /\ Len(r.items) = 2 /\ DOMAIN p.items = 1 .. 2
  BY <1>2, <1>3, Outcomes DEF SameLength
<1>5. <<p.items[1], r.items[1]>> \in S /\ <<p.items[2], r.items[2]>> \in S
  BY <1>3, <1>4
<1>6. PICK t \in CursorTexts : IsString(p.items[1], t) /\ CursorOf[t] = v.cursor
  BY <1>2 DEF IsCursor
<1>7. text = Val(t)
  BY <1>4, <1>5, <1>6, StringIsRead
<1>8. as_array(r.items[2]).ok
  <2>1. as_array(r.items[2]) = Val(r.items[2].items)
    BY <1>2, <1>5, ArraysAreRead
  <2>. QED
    BY <2>1, Outcomes
<1>9. as_array(r).ok /\ text.ok /\ text.value = t
  BY <1>3, <1>7, Outcomes
<1>10. scan_cursor(r) = Val(v.cursor)
  <2>. HIDE DEF parts, text
  <2>. QED
    BY <1>1, <1>4, <1>6, <1>8, <1>9, CursorTextIsRead
<1>11. ItemAt(r.items, 1) = Val(r.items[2])
  BY <1>4 DEF ItemAt
<1>. QED
  BY <1>5, <1>10, <1>11

LEMMA ScansAreRead ==
    ASSUME NEW S, Exact(S), NEW p, NEW r, <<p, r>> \in S, NEW v, IsPage(p, v),
           v = [cursor |-> v.cursor, page |-> v.page]
    PROVE  /\ v.page \in Seq(Text) /\ IsStrings(p.items[2], v.page) => scan_result(r) = Val(v)
           /\ v.page \in Maps /\ IsHash(p.items[2], v.page) => hscan_result(r) = Val(v)
<1>. DEFINE cursor == scan_cursor(r)
            second == ItemAt(r.items, 1)
            made(page) == IF ~cursor.ok THEN cursor
                          ELSE IF ~second.ok THEN second
                          ELSE IF ~page.ok THEN page
                          ELSE Val([cursor |-> cursor.value, page |-> page.value])
<1>1. scan_result(r) = made(strings(second.value))
  BY DEF scan_result, ScanPage, Bind, Once
<1>2. hscan_result(r) = made(hash(second.value))
  BY DEF hscan_result, ScanPage, Bind, Once
<1>3. cursor = Val(v.cursor) /\ second = Val(r.items[2]) /\ <<p.items[2], r.items[2]>> \in S
  BY PagesAreRead
<1>. HIDE DEF cursor, second
<1>4. cursor.ok /\ cursor.value = v.cursor /\ second.ok /\ second.value = r.items[2]
  BY <1>3, Outcomes
<1>5. ASSUME NEW page, page = Val(v.page) PROVE made(page) = Val(v)
  <2>1. page.ok /\ page.value = v.page
    BY <1>5, Outcomes
  <2>. QED
    BY <1>4, <2>1
<1>. HIDE DEF made
<1>6. ASSUME v.page \in Seq(Text), IsStrings(p.items[2], v.page)
      PROVE  scan_result(r) = Val(v)
  <2>1. strings(r.items[2]) = Val(v.page)
    BY <1>3, <1>6, StringsAreRead
  <2>. QED
    BY <1>1, <1>4, <1>5, <2>1
<1>7. ASSUME v.page \in Maps, IsHash(p.items[2], v.page)
      PROVE  hscan_result(r) = Val(v)
  <2>1. hash(r.items[2]) = Val(v.page)
    BY <1>3, <1>7, HashesAreRead
  <2>. QED
    BY <1>2, <1>4, <1>5, <2>1
<1>. QED
  BY <1>6, <1>7

LEMMA EntriesAreRead ==
    ASSUME NEW S, Exact(S), NEW p, NEW r, <<p, r>> \in S,
           NEW v, v = [id |-> v.id, fields |-> v.fields], v.fields \in Seq(Text \X Text),
           IsEntry(p, v)
    PROVE  stream_entry(r) = Val(v)
<1>. DEFINE Fields(q) == IF is_nil(q) THEN Val(<<>>) ELSE Bind(as_array(q), StringPairs)
            Made(i, fields) == Val([id |-> i, fields |-> fields])
            Last(ps, i) == Bind(Fields(ps[2]), LAMBDA fields : Made(i, fields))
            Inner(ps) == Bind(as_string(ps[1]), LAMBDA i : Last(ps, i))
            Outer(ps) == IF Len(ps) # 2 THEN Malformed ELSE Inner(ps)
<1>1. stream_entry(r) = IF as_array(r).ok THEN Outer(as_array(r).value) ELSE as_array(r)
  <2>1. stream_entry(r) = Bind(as_array(r), LAMBDA ps : Outer(ps))
    BY DEF stream_entry
  <2>. HIDE DEF Outer
  <2>. QED
    BY <2>1 DEF Bind, Once
<1>2. \A ps : Inner(ps) = IF as_string(ps[1]).ok THEN Last(ps, as_string(ps[1]).value)
                          ELSE as_string(ps[1])
  <2>. HIDE DEF Last
  <2>. QED
    BY DEF Bind, Once
<1>3. \A ps, i : Last(ps, i) = IF Fields(ps[2]).ok THEN Made(i, Fields(ps[2]).value)
                               ELSE Fields(ps[2])
  <2>. HIDE DEF Fields, Made
  <2>. QED
    BY DEF Bind, Once
<1>4. \A q : Fields(q) = IF is_nil(q) THEN Val(<<>>)
                         ELSE IF as_array(q).ok THEN StringPairs(as_array(q).value)
                         ELSE as_array(q)
  BY DEF Bind, Once
<1>5. Made(v.id, v.fields) = Val(v)
  OBVIOUS
<1>. HIDE DEF Inner, Last, Fields, Made
<1>. DEFINE q == p.items[2]
            e == r.items[2]
<1>6. /\ IsArray(p) /\ Len(p.items) = 2 /\ IsString(p.items[1], v.id)
      /\ IsArrayOrNil(q) /\ Flattened(ItemsOf(q), v.fields, IsString)
  BY DEF IsEntry, IsTwo
<1>7. /\ as_array(r) = Val(r.items)
      /\ SameLength(p.items, r.items)
      /\ \A i \in DOMAIN p.items : <<p.items[i], r.items[i]>> \in S
  BY <1>6, ArraysAreRead
<1>8. DOMAIN p.items = 1 .. 2 /\ Len(r.items) = 2
  BY <1>6, <1>7 DEF SameLength
<1>9. <<p.items[1], r.items[1]>> \in S /\ <<q, e>> \in S
  BY <1>7, <1>8
<1>10. as_string(r.items[1]) = Val(v.id)
  BY <1>6, <1>9, StringIsRead
<1>. HIDE DEF q, e
<1>11. Fields(e) = Val(v.fields)
  <2>1. CASE is_nil(q)
    <3>1. is_nil(e)
      BY <1>9, <2>1, ExactIsFaithful, NilsStand
    <3>2. v.fields = <<>>
      BY <1>6, <2>1, EmptyLists DEF Flattened
    <3>. QED
      BY <1>4, <3>1, <3>2
  <2>2. CASE ~is_nil(q)
    <3>1. IsArray(q) /\ Flattened(q.items, v.fields, IsString)
      BY <1>6, <2>2 DEF IsArrayOrNil, ItemsOf
    <3>2. /\ as_array(e) = Val(e.items) /\ ~is_nil(e)
          /\ SameLength(q.items, e.items)
          /\ \A k \in DOMAIN q.items : <<q.items[k], e.items[k]>> \in S
      BY <1>9, <3>1, ArraysAreRead
    <3>3. Fields(e) = StringPairs(e.items)
      BY <1>4, <3>2, Outcomes
    <3>. DEFINE fields == v.fields
                a == q.items
                b == e.items
    <3>4. /\ fields \in Seq(Text \X Text) /\ Flattened(a, fields, IsString)
          /\ SameLength(a, b) /\ \A k \in DOMAIN a : <<a[k], b[k]>> \in S
      BY <3>1, <3>2
    <3>. HIDE DEF fields, a, b
    <3>5. StringPairs(b) = Val(fields)
      BY <3>4, StringPairsAreRead
    <3>. QED
      BY <3>3, <3>5 DEF fields, b
  <2>. QED
    BY <2>1, <2>2
<1>12. stream_entry(r) = Inner(r.items)
  BY <1>1, <1>7, <1>8, Outcomes
<1>13. Inner(r.items) = Last(r.items, v.id)
  BY <1>2, <1>10, Outcomes
<1>14. Last(r.items, v.id) = Made(v.id, v.fields)
  BY <1>3, <1>11, Outcomes DEF e
<1>. QED
  BY <1>5, <1>12, <1>13, <1>14

LEMMA MembersOf ==
    /\ \A A, B : \A e \in [id : A, fields : B] :
          e = [id |-> e.id, fields |-> e.fields] /\ e.fields \in B
    /\ \A A, B : \A e \in [key : A, entries : B] :
          e = [key |-> e.key, entries |-> e.entries] /\ e.entries \in B
    /\ \A A, B : \A e \in [cursor : A, page : B] :
          e = [cursor |-> e.cursor, page |-> e.page] /\ e.page \in B
OBVIOUS

LEMMA EntryListsAreRead ==
    ASSUME NEW S, Exact(S), NEW p, NEW r, <<p, r>> \in S, NEW v \in EntryList, IsEntries(p, v)
    PROVE  stream_entries(r) = Val(v)
<1>. DEFINE results(items) == [i \in DOMAIN items |-> stream_entry(items[i])]
            Type == [id : Text, fields : Seq(Text \X Text)]
<1>0. v \in Seq(Type)
  BY DEF EntryList
<1>1. stream_entries(r) = IF is_nil(r) THEN Val(<<>>)
                   ELSE IF as_array(r).ok THEN DecodeAll(as_array(r).value, stream_entry)
                   ELSE as_array(r)
  BY DEF stream_entries, Bind, Once
<1>2. \A items : DecodeAll(items, stream_entry) = Collected(results(items))
  BY DEF DecodeAll, Once
<1>3. CASE is_nil(p)
  <2>1. is_nil(r)
    BY <1>3, ExactIsFaithful, NilsStand
  <2>2. v = <<>>
    BY <1>0, <1>3, EmptyLists DEF IsEntries, Each
  <2>. QED
    BY <1>1, <2>1, <2>2
<1>4. CASE ~is_nil(p)
  <2>1. IsArray(p) /\ Len(p.items) = Len(v) /\ \A i \in DOMAIN v : IsEntry(p.items[i], v[i])
    BY <1>4 DEF IsEntries, IsArrayOrNil, ItemsOf, Each
  <2>2. /\ as_array(r) = Val(r.items) /\ ~is_nil(r)
        /\ SameLength(p.items, r.items)
        /\ \A i \in DOMAIN p.items : <<p.items[i], r.items[i]>> \in S
    BY <2>1, ArraysAreRead
  <2>3. stream_entries(r) = Collected(results(r.items))
    <3>. HIDE DEF results
    <3>. QED
      BY <1>1, <1>2, <2>2, Outcomes
  <2>4. DOMAIN r.items = 1 .. Len(v) /\ DOMAIN p.items = 1 .. Len(v) /\ DOMAIN v = 1 .. Len(v)
    BY <1>0, <2>1, <2>2 DEF SameLength
  <2>5. DOMAIN results(r.items) = 1 .. Len(v)
        /\ \A i \in 1 .. Len(v) : results(r.items)[i] = stream_entry(r.items[i])
    BY <2>4
  <2>. HIDE DEF results
  <2>6. ASSUME NEW i \in 1 .. Len(v) PROVE stream_entry(r.items[i]) = Val(v[i])
    <3>1. IsEntry(p.items[i], v[i]) /\ <<p.items[i], r.items[i]>> \in S
      BY <2>1, <2>2, <2>4
    <3>. DEFINE entry == v[i]
    <3>2. entry \in Type
      <4>. HIDE DEF Type
      <4>. QED
        BY <1>0, <2>4
    <3>. HIDE DEF entry
    <3>3. entry = [id |-> entry.id, fields |-> entry.fields]
      BY <3>2, MembersOf
    <3>4. entry.fields \in Seq(Text \X Text)
      BY <3>2, MembersOf
    <3>5. stream_entry(r.items[i]) = Val(entry)
      BY <3>1, <3>3, <3>4, EntriesAreRead DEF entry
    <3>. QED
      BY <3>5 DEF entry
  <2>. HIDE DEF Type
  <2>. QED
    BY <1>0, <2>3, <2>5, <2>6, AllRead
<1>. QED
  BY <1>3, <1>4

LEMMA BatchesAreRead ==
    ASSUME NEW S, Exact(S), NEW p, NEW r, <<p, r>> \in S,
           NEW v, v = [key |-> v.key, entries |-> v.entries], v.entries \in EntryList,
           IsBatch(p, v)
    PROVE  stream_batch(r) = Val(v)
<1>. DEFINE Made(k, entries) == Val([key |-> k, entries |-> entries])
            Last(ps, k) == Bind(stream_entries(ps[2]), LAMBDA entries : Made(k, entries))
            Inner(ps) == Bind(as_string(ps[1]), LAMBDA k : Last(ps, k))
            Outer(ps) == IF Len(ps) # 2 THEN Malformed ELSE Inner(ps)
<1>1. stream_batch(r) = IF as_array(r).ok THEN Outer(as_array(r).value) ELSE as_array(r)
  <2>1. stream_batch(r) = Bind(as_array(r), LAMBDA ps : Outer(ps))
    BY DEF stream_batch
  <2>. HIDE DEF Outer
  <2>. QED
    BY <2>1 DEF Bind, Once
<1>2. \A ps : Inner(ps) = IF as_string(ps[1]).ok THEN Last(ps, as_string(ps[1]).value)
                          ELSE as_string(ps[1])
  <2>. HIDE DEF Last
  <2>. QED
    BY DEF Bind, Once
<1>3. \A ps, k : Last(ps, k) = IF stream_entries(ps[2]).ok
                               THEN Made(k, stream_entries(ps[2]).value)
                               ELSE stream_entries(ps[2])
  <2>. HIDE DEF Made
  <2>. QED
    BY DEF Bind, Once
<1>4. Made(v.key, v.entries) = Val(v)
  OBVIOUS
<1>. HIDE DEF Inner, Last, Made
<1>5. /\ IsArray(p) /\ Len(p.items) = 2 /\ IsString(p.items[1], v.key)
      /\ IsEntries(p.items[2], v.entries)
  BY DEF IsBatch, IsTwo
<1>6. /\ as_array(r) = Val(r.items)
      /\ SameLength(p.items, r.items)
      /\ \A i \in DOMAIN p.items : <<p.items[i], r.items[i]>> \in S
  BY <1>5, ArraysAreRead
<1>7. DOMAIN p.items = 1 .. 2 /\ Len(r.items) = 2
  BY <1>5, <1>6 DEF SameLength
<1>8. <<p.items[1], r.items[1]>> \in S /\ <<p.items[2], r.items[2]>> \in S
  BY <1>6, <1>7
<1>9. as_string(r.items[1]) = Val(v.key)
  BY <1>5, <1>8, StringIsRead
<1>10. stream_entries(r.items[2]) = Val(v.entries)
  BY <1>5, <1>8, EntryListsAreRead
<1>11. stream_batch(r) = Inner(r.items)
  BY <1>1, <1>6, <1>7, Outcomes
<1>12. Inner(r.items) = Last(r.items, v.key)
  BY <1>2, <1>9, Outcomes
<1>13. Last(r.items, v.key) = Made(v.key, v.entries)
  BY <1>3, <1>10, Outcomes
<1>. QED
  BY <1>4, <1>11, <1>12, <1>13

LEMMA BatchListsAreRead ==
    ASSUME NEW S, Exact(S), NEW p, NEW r, <<p, r>> \in S,
           NEW v \in Seq([key : Text, entries : EntryList]), IsBatches(p, v)
    PROVE  stream_batches(r) = Val(v)
<1>. DEFINE results(items) == [i \in DOMAIN items |-> stream_batch(items[i])]
            Type == [key : Text, entries : EntryList]
<1>1. stream_batches(r) = IF is_nil(r) THEN Val(<<>>)
                   ELSE IF as_array(r).ok THEN DecodeAll(as_array(r).value, stream_batch)
                   ELSE as_array(r)
  BY DEF stream_batches, Bind, Once
<1>2. \A items : DecodeAll(items, stream_batch) = Collected(results(items))
  BY DEF DecodeAll, Once
<1>3. CASE is_nil(p)
  <2>1. is_nil(r)
    BY <1>3, ExactIsFaithful, NilsStand
  <2>2. v = <<>>
    BY <1>3, EmptyLists DEF IsBatches, Each
  <2>. QED
    BY <1>1, <2>1, <2>2
<1>4. CASE ~is_nil(p)
  <2>1. IsArray(p) /\ Len(p.items) = Len(v) /\ \A i \in DOMAIN v : IsBatch(p.items[i], v[i])
    BY <1>4 DEF IsBatches, IsArrayOrNil, ItemsOf, Each
  <2>2. /\ as_array(r) = Val(r.items) /\ ~is_nil(r)
        /\ SameLength(p.items, r.items)
        /\ \A i \in DOMAIN p.items : <<p.items[i], r.items[i]>> \in S
    BY <2>1, ArraysAreRead
  <2>3. stream_batches(r) = Collected(results(r.items))
    <3>. HIDE DEF results
    <3>. QED
      BY <1>1, <1>2, <2>2, Outcomes
  <2>4. DOMAIN r.items = 1 .. Len(v) /\ DOMAIN p.items = 1 .. Len(v) /\ DOMAIN v = 1 .. Len(v)
    BY <2>1, <2>2 DEF SameLength
  <2>5. DOMAIN results(r.items) = 1 .. Len(v)
        /\ \A i \in 1 .. Len(v) : results(r.items)[i] = stream_batch(r.items[i])
    BY <2>4
  <2>. HIDE DEF results
  <2>6. ASSUME NEW i \in 1 .. Len(v) PROVE stream_batch(r.items[i]) = Val(v[i])
    <3>1. IsBatch(p.items[i], v[i]) /\ <<p.items[i], r.items[i]>> \in S
      BY <2>1, <2>2, <2>4
    <3>. DEFINE batch == v[i]
    <3>2. batch \in Type
      <4>1. v \in Seq(Type)
        OBVIOUS
      <4>. HIDE DEF Type
      <4>. QED
        BY <2>4, <4>1
    <3>. HIDE DEF batch
    <3>3. batch = [key |-> batch.key, entries |-> batch.entries]
      BY <3>2, MembersOf
    <3>4. batch.entries \in EntryList
      BY <3>2, MembersOf
    <3>5. stream_batch(r.items[i]) = Val(batch)
      BY <3>1, <3>3, <3>4, BatchesAreRead DEF batch
    <3>. QED
      BY <3>5 DEF batch
  <2>. HIDE DEF Type
  <2>7. v \in Seq(Type)
    BY DEF Type
  <2>. QED
    BY <2>3, <2>5, <2>6, <2>7, AllRead
<1>. QED
  BY <1>3, <1>4

\* Flags.
LEMMA FlagsAreRead ==
    ASSUME NEW S, Exact(S), NEW p, NEW r, <<p, r>> \in S, NEW v \in BOOLEAN
    PROVE  /\ p.type = "INTEGER" /\ (v <=> p.int = 1)
                 => Bind(as_integer(r), LAMBDA n : Val(n = 1)) = Val(v)
           /\ (v <=> IsStatus(p, "OK")) => set_result(r) = Val(v)
           /\ p.type = "STATUS" /\ (v <=> IsStatus(p, "OK")) => status_is_ok(r) = Val(v)
           /\ (v <=> p.type = "INTEGER" /\ p.int >= 0) => hset_result(r) = Val(v)
<1>. DEFINE is_one(n) == Val(n = 1)
            is_count(n) == Val(n >= 0)
<1>1. /\ Bind(as_integer(r), is_one) =
           IF as_integer(r).ok THEN is_one(as_integer(r).value) ELSE as_integer(r)
      /\ Bind(as_integer(r), is_count) =
           IF as_integer(r).ok THEN is_count(as_integer(r).value) ELSE as_integer(r)
  <2>. HIDE DEF is_one, is_count
  <2>. QED
    BY DEF Bind, Once
<1>2. p.type = "INTEGER" => /\ r.type = "INTEGER" /\ as_integer(r).ok
                            /\ as_integer(r).value = p.int
  BY IntegersAreRead, Outcomes
<1>3. status_is_ok(r) = IF as_status(r).ok THEN Val(as_status(r).value = "OK")
                        ELSE as_status(r)
  BY DEF status_is_ok, Bind, Once
<1>4. Carried(S, p, r)
  BY DEF Exact
<1>5. r.type = p.type
  BY <1>4, RepliesMade DEF Carried, IsArray
<1>6. p.type = "STATUS" => /\ as_status(r).ok /\ as_status(r).value = p.str
                           /\ \A t : IsStatus(p, t) <=> p.str = t
  <2>. SUFFICES ASSUME p.type = "STATUS"
                PROVE  /\ as_status(r).ok /\ as_status(r).value = p.str
                       /\ \A t : IsStatus(p, t) <=> p.str = t
    OBVIOUS
  <2>1. "str" \in DOMAIN p
    BY <1>4 DEF Carried, IsArray
  <2>2. IsStatus(p, p.str)
    BY <2>1 DEF IsStatus, IsText
  <2>3. as_status(r) = Val(p.str)
    BY <2>2, TextsAreRead
  <2>. QED
    BY <2>1, <2>3, Outcomes DEF IsStatus, IsText
<1>7. p.type # "STATUS" => ~IsStatus(p, "OK")
  BY DEF IsStatus, IsText
<1>8. ASSUME p.type = "INTEGER", v <=> p.int = 1 PROVE Bind(as_integer(r), is_one) = Val(v)
  <2>1. Bind(as_integer(r), is_one) = Val(p.int = 1)
    BY <1>1, <1>2, <1>8
  <2>2. v = (p.int = 1)
    BY <1>8
  <2>. QED
    BY <2>1, <2>2
<1>9. ASSUME v <=> IsStatus(p, "OK"), p.type = "STATUS"
      PROVE  status_is_ok(r) = Val(v)
  <2>1. status_is_ok(r) = Val(p.str = "OK")
    BY <1>3, <1>6, <1>9
  <2>2. v = (p.str = "OK")
    BY <1>6, <1>9
  <2>. QED
    BY <2>1, <2>2
<1>10. ASSUME v <=> IsStatus(p, "OK") PROVE set_result(r) = Val(v)
  <2>1. CASE p.type = "STATUS"
    BY <1>5, <1>9, <1>10, <2>1 DEF set_result
  <2>2. CASE p.type # "STATUS"
    <3>1. v = FALSE
      BY <1>7, <1>10, <2>2
    <3>. QED
      BY <1>5, <2>2, <3>1 DEF set_result
  <2>. QED
    BY <2>1, <2>2
<1>11. p.type = "STATUS" /\ (v <=> IsStatus(p, "OK")) => status_is_ok(r) = Val(v)
  BY <1>9
<1>12. ASSUME v <=> p.type = "INTEGER" /\ p.int >= 0 PROVE hset_result(r) = Val(v)
  <2>1. CASE p.type = "INTEGER"
    <3>1. hset_result(r) = Bind(as_integer(r), is_count)
      BY <1>5, <2>1 DEF hset_result
    <3>2. hset_result(r) = Val(p.int >= 0)
      BY <1>1, <1>2, <2>1, <3>1
    <3>3. v = (p.int >= 0)
      BY <1>12, <2>1
    <3>. QED
      BY <3>2, <3>3
  <2>2. CASE p.type # "INTEGER"
    <3>1. v = FALSE
      BY <1>12, <2>2
    <3>. QED
      BY <1>5, <2>2, <3>1 DEF hset_result
  <2>. QED
    BY <2>1, <2>2
<1>. QED
  BY <1>8, <1>10, <1>11, <1>12, Zenon

LEMMA DecodersRead ==
    ASSUME NEW S, Exact(S), NEW p, NEW r, <<p, r>> \in S,
           NEW d \in Decoders, NEW v \in ValuesOf(d), StandsFor(d, p, v)
    PROVE  Decode(d, r) = Val(v)
<1>1. CASE d = "integer"
  <2>1. p.type = "INTEGER" /\ p.int = v
    BY <1>1 DEF StandsFor, IsInteger
  <2>2. as_integer(r) = Val(v)
    BY <2>1, IntegersAreRead
  <2>. QED
    BY <1>1, <2>2 DEF Decode
<1>2. CASE d = "flag"
  <2>. DEFINE flag == Bind(as_integer(r), LAMBDA n : Val(n = 1))
  <2>1. Decode("flag", r) = flag
    BY DEF Decode
  <2>2. p.type = "INTEGER" /\ (v <=> p.int = 1) /\ v \in BOOLEAN
    BY <1>2 DEF StandsFor, ValuesOf
  <2>3. flag = Val(v)
    BY <2>2, FlagsAreRead, Zenon
  <2>. HIDE DEF flag
  <2>. QED
    BY <1>2, <2>1, <2>3
<1>3. CASE d \in {"text", "status"}
  <2>1. CASE d = "text"
    <3>1. IsString(p, v) \/ IsStatus(p, v)
      BY <2>1 DEF StandsFor
    <3>2. as_text(r) = Val(v)
      BY <3>1, TextsAreRead
    <3>. QED
      BY <2>1, <3>2 DEF Decode
  <2>2. CASE d = "status"
    <3>1. IsStatus(p, v)
      BY <2>2 DEF StandsFor
    <3>2. as_status(r) = Val(v)
      BY <3>1, TextsAreRead
    <3>. QED
      BY <2>2, <3>2 DEF Decode
  <2>. QED
    BY <1>3, <2>1, <2>2
<1>4. CASE d \in {"status_is_ok", "set", "hset"}
  <2>1. v \in BOOLEAN
    BY <1>4 DEF ValuesOf
  <2>2. CASE d = "status_is_ok"
    <3>1. p.type = "STATUS" /\ (v <=> IsStatus(p, "OK"))
      BY <2>2 DEF StandsFor
    <3>2. status_is_ok(r) = Val(v)
      BY <2>1, <3>1, FlagsAreRead, Zenon
    <3>. QED
      BY <2>2, <3>2 DEF Decode
  <2>3. CASE d = "set"
    <3>1. v <=> IsStatus(p, "OK")
      BY <2>3 DEF StandsFor
    <3>2. set_result(r) = Val(v)
      BY <2>1, <3>1, FlagsAreRead, Zenon
    <3>. QED
      BY <2>3, <3>2 DEF Decode
  <2>4. CASE d = "hset"
    <3>1. v <=> p.type = "INTEGER" /\ p.int >= 0
      BY <2>4 DEF StandsFor
    <3>2. hset_result(r) = Val(v)
      BY <2>1, <3>1, FlagsAreRead, Zenon
    <3>. QED
      BY <2>4, <3>2 DEF Decode
  <2>. QED
    BY <1>4, <2>2, <2>3, <2>4
<1>5. CASE d = "optional_string"
  <2>1. IsOptional(p, v) /\ v \in {None} \cup {Some(t) : t \in Text}
    BY <1>5 DEF StandsFor, ValuesOf
  <2>2. \A t : Some(t) # None /\ Some(t)[1] = t
    BY DEF Some, None
  <2>3. optional_string(r) = Val(v)
    BY <2>1, <2>2, TextsAreRead DEF IsOptional
  <2>. QED
    BY <1>5, <2>3 DEF Decode
<1>6. CASE d = "hget_batch"
  <2>1. /\ v \in Seq({None} \cup {Some(t) : t \in Text})
        /\ IsArray(p) /\ Len(v) = BatchSize /\ Each(p.items, v, IsOptional)
    BY <1>6 DEF StandsFor, ValuesOf
  <2>2. hget_result(r, BatchSize) = Val(v)
    BY <2>1, HgetIsRead
  <2>. QED
    BY <1>6, <2>2 DEF Decode
<1>7. CASE d = "optional_score"
  <2>1. v \in {None} \cup {Some(x) : x \in Scores}
        /\ IF v = None THEN is_nil(p) ELSE IsScore(p, v[1])
    BY <1>7 DEF StandsFor, ValuesOf
  <2>2. \A t : Some(t) # None /\ Some(t)[1] = t
    BY DEF Some, None
  <2>3. optional_score(r) = Val(v)
    BY <2>1, <2>2, ScoresAreRead
  <2>. QED
    BY <1>7, <2>3 DEF Decode
<1>8. CASE d = "zincrby"
  BY <1>8, ScoresAreRead DEF Decode, StandsFor
<1>9. CASE d = "strings"
  <2>1. v \in Seq(Text) /\ IsStrings(p, v)
    BY <1>9 DEF StandsFor, ValuesOf
  <2>2. strings(r) = Val(v)
    BY <2>1, StringsAreRead
  <2>. QED
    BY <1>9, <2>2 DEF Decode
<1>10. CASE d = "hash"
  <2>1. v \in Maps /\ IsHash(p, v)
    BY <1>10 DEF StandsFor, ValuesOf
  <2>2. hash(r) = Val(v)
    BY <2>1, HashesAreRead
  <2>. QED
    BY <1>10, <2>2 DEF Decode
<1>11. CASE d = "scores"
  <2>1. v \in Seq(Text \X Scores) /\ IsScores(p, v)
    BY <1>11 DEF StandsFor, ValuesOf
  <2>2. scores(r) = Val(v)
    BY <2>1, ScoreListsAreRead
  <2>. QED
    BY <1>11, <2>2 DEF Decode
<1>12. CASE d = "scan"
  <2>1. v \in [cursor : Int, page : Seq(Text)] /\ IsPage(p, v) /\ IsStrings(p.items[2], v.page)
    BY <1>12 DEF StandsFor, ValuesOf
  <2>2. v = [cursor |-> v.cursor, page |-> v.page] /\ v.page \in Seq(Text)
    BY <2>1, MembersOf
  <2>3. scan_result(r) = Val(v)
    BY <2>1, <2>2, ScansAreRead
  <2>. QED
    BY <1>12, <2>3 DEF Decode
<1>13. CASE d = "hscan"
  <2>1. v \in [cursor : Int, page : Maps] /\ IsPage(p, v) /\ IsHash(p.items[2], v.page)
    BY <1>13 DEF StandsFor, ValuesOf
  <2>2. v = [cursor |-> v.cursor, page |-> v.page] /\ v.page \in Maps
    BY <2>1, MembersOf
  <2>3. hscan_result(r) = Val(v)
    BY <2>1, <2>2, ScansAreRead
  <2>. QED
    BY <1>13, <2>3 DEF Decode
<1>14. CASE d = "stream_entries"
  <2>1. v \in EntryList /\ IsEntries(p, v)
    BY <1>14 DEF StandsFor, ValuesOf
  <2>2. stream_entries(r) = Val(v)
    BY <2>1, EntryListsAreRead
  <2>. QED
    BY <1>14, <2>2 DEF Decode
<1>15. CASE d = "stream_batches"
  <2>1. v \in Seq([key : Text, entries : EntryList]) /\ IsBatches(p, v)
    BY <1>15 DEF StandsFor, ValuesOf
  <2>2. stream_batches(r) = Val(v)
    BY <2>1, BatchListsAreRead
  <2>. QED
    BY <1>15, <2>2 DEF Decode
<1>. QED
  BY <1>1, <1>2, <1>3, <1>4, <1>5, <1>6, <1>7, <1>8, <1>9, <1>10, <1>11, <1>12,
     <1>13, <1>14, <1>15 DEF Decoders
-----------------------------------------------------------------------------
(* What a sound tree is converted to, and what the caller gets of it.       *)

LEMMA SoundPartsConvert ==
    ASSUME NEW S, NEW f, NEW p, IsSound(p),
           p.type = "INTEGER" => p.int \in Int64,
           IsArray(p) => /\ Len(p.items) \in Nat /\ DOMAIN p.items = 1 .. Len(p.items)
                         /\ \A i \in DOMAIN p.items :
                               /\ p.items[i].type # "NULL" /\ f[p.items[i]].ok
                               /\ <<p.items[i], f[p.items[i]].value>> \in S
    PROVE  Conversion(f, p).ok /\ Carried(S, p, Conversion(f, p).value)
<1>1. CASE p.type \in {"STRING", "STATUS"} /\ "str" \in DOMAIN p
  <2>1. Conversion(f, p) = Val(p)
    BY <1>1 DEF Conversion
  <2>. QED
    BY <1>1, <2>1, Outcomes DEF Carried
<1>2. CASE p.type = "INTEGER"
  <2>1. Conversion(f, p) = Val(make_integer(p.int))
    BY <1>2 DEF Conversion
  <2>. QED
    BY <1>2, <2>1, Outcomes DEF Carried
<1>3. CASE p.type = "NIL"
  <2>1. Conversion(f, p) = Val(make_nil)
    BY <1>3 DEF Conversion
  <2>. QED
    BY <1>3, <2>1, Outcomes DEF Carried
<1>4. CASE IsArray(p)
  <2>. DEFINE element(e) == IF e.type = "NULL" THEN Malformed ELSE f[e]
              elements == [i \in DOMAIN p.items |-> element(p.items[i])]
              all == Collected(elements)
              items == [i \in DOMAIN p.items |-> f[p.items[i]].value]
              n == Len(p.items)
  <2>1. Conversion(f, p) = Bind(all, LAMBDA x : Val(make_array(x)))
    BY <1>4 DEF IsArray, Conversion, DecodeAll, Once
  <2>2. n \in Nat /\ DOMAIN elements = 1 .. n /\ DOMAIN p.items = 1 .. n
        /\ \A i \in 1 .. n : elements[i] = f[p.items[i]] /\ elements[i].ok
    BY <1>4
  <2>3. all = Val([i \in 1 .. n |-> elements[i].value])
    <3>. HIDE DEF elements
    <3>. QED
      BY <2>2, CollectedResult
  <2>4. [i \in 1 .. n |-> elements[i].value] = items
    <3>. HIDE DEF elements
    <3>. QED
      BY <2>2
  <2>5. Conversion(f, p) = IF all.ok THEN Val(make_array(all.value)) ELSE all
    <3>. HIDE DEF all
    <3>. QED
      BY <2>1 DEF Bind, Once
  <2>6. SameLength(p.items, items)
    BY <2>2 DEF SameLength
  <2>7. \A i \in DOMAIN p.items : <<p.items[i], items[i]>> \in S
    BY <1>4
  <2>. HIDE DEF all, elements, items
  <2>8. Conversion(f, p) = Val(make_array(items))
    BY <2>3, <2>4, <2>5, Outcomes
  <2>9. Conversion(f, p).ok /\ Conversion(f, p).value = make_array(items)
        /\ make_array(items).items = items
    BY <2>8, Outcomes, RepliesMade
  <2>. QED
    BY <1>4, <2>6, <2>7, <2>9 DEF Carried
<1>. QED
  BY <1>1, <1>2, <1>3, <1>4 DEF IsSound

LEMMA SoundRepliesAreExact ==
    ASSUME NEW tree \in Delivered, \A p \in Parts(tree) : IsSound(p)
    PROVE  /\ convert_reply(tree).ok
           /\ \E S : Exact(S) /\ <<tree, convert_reply(tree).value>> \in S
<1>1. PICK f : /\ f = [r \in Parts(tree) |-> Conversion(f, r)]
               /\ convert_reply(tree) = f[tree]
  BY ConvertReplyIsConversion
<1>. DEFINE S == {<<p, f[p].value>> : p \in Parts(tree)}
            bad == {p \in Parts(tree) : ~f[p].ok}
            sizes == {Cardinality(Parts(p)) : p \in bad}
<1>2. \A p \in Parts(tree) : f[p] = Conversion(f, p) /\ p.type # "NULL"
  BY <1>1 DEF IsSound, IsArray
<1>3. \A p \in Parts(tree) : p.type = "INTEGER" => p.int \in Int64
  BY LongLongAssumption
<1>4. \A p \in Parts(tree) : <<p, f[p].value>> \in S
  OBVIOUS
<1>5. ASSUME NEW p \in Parts(tree), IsArray(p) => \A i \in DOMAIN p.items : f[p.items[i]].ok
      PROVE  f[p].ok /\ Carried(S, p, f[p].value)
  <2>1. IsArray(p) =>
           /\ Len(p.items) \in Nat /\ DOMAIN p.items = 1 .. Len(p.items)
           /\ \A i \in DOMAIN p.items : p.items[i] \in Parts(tree)
    BY PartsOfParts
  <2>. HIDE DEF S
  <2>2. IsArray(p) =>
           /\ Len(p.items) \in Nat /\ DOMAIN p.items = 1 .. Len(p.items)
           /\ \A i \in DOMAIN p.items :
                 /\ p.items[i].type # "NULL" /\ f[p.items[i]].ok
                 /\ <<p.items[i], f[p.items[i]].value>> \in S
    BY <1>2, <1>4, <1>5, <2>1
  <2>3. IsSound(p) /\ (p.type = "INTEGER" => p.int \in Int64) /\ f[p] = Conversion(f, p)
    BY <1>2, <1>3
  <2>4. Conversion(f, p).ok /\ Carried(S, p, Conversion(f, p).value)
    BY <2>2, <2>3, SoundPartsConvert
  <2>. QED
    BY <2>3, <2>4
<1>6. bad = {}
  <2>. SUFFICES ASSUME bad # {} PROVE FALSE
    OBVIOUS
  <2>1. PICK n \in sizes : \A m \in sizes : n <= m
    <3>1. sizes \subseteq Nat /\ sizes # {}
      BY PartsOfParts
    <3>. HIDE DEF sizes
    <3>. QED
      BY <3>1, LeastOf
  <2>2. PICK p \in bad : Cardinality(Parts(p)) = n
    BY <2>1
  <2>3. ASSUME IsArray(p), NEW i \in DOMAIN p.items
        PROVE  f[p.items[i]].ok
    <3>1. p.items[i] \in Parts(tree) /\ Cardinality(Parts(p.items[i])) < n
      BY <2>2, <2>3, PartsOfParts
    <3>2. Cardinality(Parts(p.items[i])) \in Nat /\ n \in Nat
      BY <3>1, <2>2, PartsOfParts
    <3>3. p.items[i] \notin bad
      BY <3>1, <3>2, <2>1
    <3>. QED
      BY <3>1, <3>3
  <2>. QED
    BY <1>5, <2>2, <2>3
<1>7. \A p \in Parts(tree) : f[p].ok
  BY <1>6
<1>8. \A p \in Parts(tree) : Carried(S, p, f[p].value)
  <2>1. \A p \in Parts(tree) : IsArray(p) => \A i \in DOMAIN p.items : p.items[i] \in Parts(tree)
    BY PartsOfParts
  <2>. HIDE DEF S
  <2>. QED
    BY <1>5, <1>7, <2>1
<1>9. Exact(S)
  <2>. SUFFICES ASSUME NEW p, NEW r, <<p, r>> \in S PROVE Carried(S, p, r)
    BY DEF Exact
  <2>1. p \in Parts(tree) /\ r = f[p].value
    OBVIOUS
  <2>. HIDE DEF S
  <2>. QED
    BY <1>8, <2>1
<1>10. tree \in Parts(tree)
  BY PartsAssumption
<1>. HIDE DEF S
<1>. QED
  BY <1>1, <1>4, <1>7, <1>9, <1>10

LEMMA WellFormedAnswers ==
    ASSUME NEW d \in Decoders, NEW m \in Replies[d], NEW answer,
           answer = Bind(convert_reply(m.raw), LAMBDA r :
                        Bind(or_throw(r), LAMBDA s : Decode(d, s)))
    PROVE  answer = Val(m.value)
<1>. DEFINE tree == m.raw
            decoded(s) == Decode(d, s)
            thrown(r) == Bind(or_throw(r), LAMBDA s : decoded(s))
            r == convert_reply(tree).value
<1>1. answer = Bind(convert_reply(tree), LAMBDA x : thrown(x))
  BY Zenon
<1>2. answer = IF convert_reply(tree).ok THEN thrown(r) ELSE convert_reply(tree)
  <2>. HIDE DEF thrown
  <2>. QED
    BY <1>1 DEF Bind, Once
<1>3. thrown(r) = IF or_throw(r).ok THEN decoded(or_throw(r).value) ELSE or_throw(r)
  <2>. HIDE DEF decoded, r
  <2>. QED
    BY DEF Bind, Once
<1>. HIDE DEF thrown
<1>4. /\ \A p \in Parts(tree) : IsSound(p)
      /\ m.value \in ValuesOf(d) /\ StandsFor(d, tree, m.value)
  BY WellFormedAssumption
<1>5. tree \in Delivered
  BY DEF Delivered
<1>. HIDE DEF tree
<1>6. convert_reply(tree).ok
  BY <1>4, <1>5, SoundRepliesAreExact
<1>7. PICK S : Exact(S) /\ <<tree, r>> \in S
  BY <1>4, <1>5, SoundRepliesAreExact
<1>. HIDE DEF r
<1>8. ~is_error(r)
  <2>1. Carried(S, tree, r)
    BY <1>7 DEF Exact
  <2>. QED
    BY <2>1, RepliesMade DEF Carried, is_error
<1>9. or_throw(r) = Val(r)
  BY <1>8 DEF or_throw
<1>10. answer = Decode(d, r)
  BY <1>2, <1>3, <1>6, <1>9, Outcomes
<1>11. Decode(d, r) = Val(m.value)
  BY <1>4, <1>7, DecodersRead
<1>. QED
  BY <1>10, <1>11

\* A reply is well-formed, or its meaning is not known.
Meaning ==
    input = None => \/ meant = None
                    \/ \E m \in Replies[decoder] : raw = m.raw /\ meant = Some(m.value)

\* A well-formed reply gives the caller the value it stands for, for every
\* decoder, and is never an exception.
THEOREM WellFormedIsRead == ConversionSpec => []WellFormedRepliesDecode
<1>1. ConvertsReply \/ ConvertsText => Meaning /\ WellFormedRepliesDecode
  <2>1. ASSUME ConvertsReply PROVE Meaning /\ WellFormedRepliesDecode
    BY <2>1 DEF ConvertsReply, Init, Meaning, WellFormedRepliesDecode
  <2>2. ASSUME ConvertsText PROVE Meaning /\ WellFormedRepliesDecode
    BY <2>2 DEF ConvertsText, Meaning, WellFormedRepliesDecode
  <2>. QED
    BY <2>1, <2>2
<1>2. /\ OneConversion /\ Meaning /\ WellFormedRepliesDecode
      /\ [ReceiveReply \/ ReadNumber \/ ReadUrl]_allVars
      => (Meaning /\ WellFormedRepliesDecode)'
  <2>. SUFFICES ASSUME OneConversion, Meaning, WellFormedRepliesDecode,
                       [ReceiveReply \/ ReadNumber \/ ReadUrl]_allVars
                PROVE  (Meaning /\ WellFormedRepliesDecode)'
    OBVIOUS
  <2>1. CASE ReceiveReply
    <3>. DEFINE answer == Bind(convert_reply(raw), LAMBDA r :
                              Bind(or_throw(r), LAMBDA s : Decode(decoder, s)))
    <3>1. outcome' = Some(answer)
      BY <2>1, Zenon DEF ReceiveReply, Receive
    <3>2. decoder \in Decoders /\ input = None
      BY <2>1 DEF ReceiveReply, OneConversion
    <3>3. ASSUME meant # None PROVE answer = Val(meant[1])
      <4>1. PICK m \in Replies[decoder] : raw = m.raw /\ meant = Some(m.value)
        BY <3>2, <3>3 DEF Meaning
      <4>2. answer = Val(m.value)
        <5>1. answer = Bind(convert_reply(m.raw), LAMBDA r :
                           Bind(or_throw(r), LAMBDA s : Decode(decoder, s)))
          BY <4>1, Zenon
        <5>. HIDE DEF answer
        <5>. QED
          BY <3>2, <5>1, WellFormedAnswers, Zenon
      <4>3. meant[1] = m.value
        BY <4>1 DEF Some
      <4>. QED
        BY <4>2, <4>3
    <3>4. outcome'[1] = answer
      <4>. HIDE DEF answer
      <4>. QED
        BY <3>1 DEF Some
    <3>5. raw' = raw /\ decoder' = decoder /\ meant' = meant /\ input' = input
      BY <2>1 DEF ReceiveReply, Receive
    <3>. HIDE DEF answer
    <3>. QED
      BY <3>3, <3>4, <3>5, Zenon DEF WellFormedRepliesDecode, Meaning
  <2>2. CASE ReadNumber
    BY <2>2 DEF ReadNumber, vars, WellFormedRepliesDecode, Meaning
  <2>3. CASE ReadUrl
    BY <2>3 DEF ReadUrl, vars, WellFormedRepliesDecode, Meaning
  <2>4. CASE UNCHANGED allVars
    BY <2>4 DEF allVars, vars, WellFormedRepliesDecode, Meaning
  <2>. QED
    BY <2>1, <2>2, <2>3, <2>4
<1>. QED
  BY <1>1, <1>2, OneConversionHolds, PTL DEF ConversionSpec
-----------------------------------------------------------------------------
(* URLs: the parser finds the parts again that a URL was put together from. *)

LEMMA MinIs ==
    ASSUME NEW S, S \subseteq Int, NEW x \in S, \A y \in S : x <= y
    PROVE  Min(S) = x
<1>. DEFINE Least(z) == \A y \in S : z <= y
<1>1. Least(x) /\ \A z \in S : Least(z) => z = x
  OBVIOUS
<1>2. Min(S) = CHOOSE z \in S : Least(z)
  BY DEF Min
<1>. HIDE DEF Least
<1>. QED
  BY <1>1, <1>2

LEMMA MaxIs ==
    ASSUME NEW S, S \subseteq Int, NEW x \in S, \A y \in S : x >= y
    PROVE  Max(S) = x
<1>. DEFINE Greatest(z) == \A y \in S : z >= y
<1>1. Greatest(x) /\ \A z \in S : Greatest(z) => z = x
  OBVIOUS
<1>2. Max(S) = CHOOSE z \in S : Greatest(z)
  BY DEF Max
<1>. HIDE DEF Greatest
<1>. QED
  BY <1>1, <1>2

\* Where a token is in a text.
LEMMA IsAt ==
    ASSUME NEW E, NEW s \in Seq(E), NEW d
    PROVE  /\ At(d, s) \subseteq Int /\ \A i : i \in At(d, s) <=> i \in 1 .. Len(s) /\ s[i] = d
BY DEF At

\* Two texts, one after the other.
LEMMA Joined ==
    ASSUME NEW E, NEW a \in Seq(E), NEW b \in Seq(E)
    PROVE  /\ a \o b \in Seq(E) /\ Len(a) \in Nat /\ Len(b) \in Nat
           /\ Len(a \o b) = Len(a) + Len(b)
           /\ \A i \in 1 .. Len(a) : (a \o b)[i] = a[i]
           /\ \A i \in 1 .. Len(b) : (a \o b)[Len(a) + i] = b[i]
<1>. DEFINE s == a \o b
<1>1. /\ s \in Seq(E) /\ Len(s) = Len(a) + Len(b) /\ Len(a) \in Nat /\ Len(b) \in Nat
      /\ \A i \in 1 .. Len(a) + Len(b) : s[i] = IF i <= Len(a) THEN a[i] ELSE b[i - Len(a)]
  BY ConcatProperties
<1>. HIDE DEF s
<1>2. ASSUME NEW i \in 1 .. Len(a) PROVE s[i] = a[i]
  BY <1>1
<1>3. ASSUME NEW i \in 1 .. Len(b) PROVE s[Len(a) + i] = b[i]
  <2>1. Len(a) + i \in 1 .. Len(a) + Len(b) /\ ~(Len(a) + i <= Len(a)) /\ (Len(a) + i) - Len(a) = i
    BY <1>1
  <2>2. s[Len(a) + i] = b[(Len(a) + i) - Len(a)]
    BY <1>1, <2>1, Zenon
  <2>. QED
    BY <2>1, <2>2
<1>. QED
  BY <1>1, <1>2, <1>3 DEF s

\* A text of one token.
LEMMA OneToken ==
    ASSUME NEW E, NEW w \in E
    PROVE  /\ <<w>> \in Seq(E) /\ Len(<<w>>) = 1 /\ <<w>>[1] = w
           /\ \A d : d # w => At(d, <<w>>) = {}
BY DEF At

\* A part of a text begins where the text before it ends.
LEMMA PartAt ==
    ASSUME NEW E, NEW s \in Seq(E), NEW a \in Seq(E), NEW k \in Nat,
           k + Len(a) <= Len(s), \A i \in 1 .. Len(a) : s[k + i] = a[i]
    PROVE  SubSeq(s, k + 1, k + Len(a)) = a
<1>. DEFINE m == Len(a)
            l == k + 1
            r == k + m
            u == SubSeq(s, l, r)
<1>1. m \in Nat /\ Len(s) \in Nat /\ \A i \in 1 .. Len(s) : s[i] \in E
  BY LenProperties, ElementOfSeq
<1>2. /\ l \in Int /\ r \in Int /\ (IF l <= r THEN r - l + 1 ELSE 0) = m /\ r - l + 1 = m
      /\ \A i \in l .. r : s[i] \in E
      /\ \A i \in 1 .. m : l + i - 1 = k + i
  BY <1>1
<1>. HIDE DEF l, r
<1>3. u \in Seq(E) /\ Len(u) = m /\ \A i \in 1 .. m : u[i] = s[l + i - 1]
  BY <1>2, SubSeqProperties
<1>4. \A i \in 1 .. m : u[i] = a[i]
  BY <1>2, <1>3
<1>. HIDE DEF u
<1>5. u = a
  BY <1>3, <1>4, SeqEqual
<1>. QED
  BY <1>5 DEF u, l, r

\* A text that goes on after a delimiter it had not had before.
LEMMA SplitAt ==
    ASSUME NEW E, NEW a \in Seq(E), NEW b \in Seq(E), NEW d \in E, At(d, a) = {}
    PROVE  LET s == (a \o <<d>>) \o b
           IN  /\ s \in Seq(E) /\ s # <<>> /\ At(d, s) # {}
               /\ Min(At(d, s)) = Len(a) + 1 /\ (At(d, b) = {} => At(d, s) = {Len(a) + 1})
               /\ Before(d, s) = a /\ After(d, s) = b
<1>. DEFINE n == Len(a)
            m == Len(b)
            x == <<d>>
            t == a \o x
            s == t \o b
<1>1. x \in Seq(E) /\ Len(x) = 1 /\ x[1] = d
  BY OneToken
<1>. HIDE DEF x
<1>2. /\ t \in Seq(E) /\ n \in Nat /\ m \in Nat /\ Len(t) = n + 1
      /\ (\A i \in 1 .. n : t[i] = a[i]) /\ t[n + 1] = d
  <2>1. /\ t \in Seq(E) /\ n \in Nat /\ Len(t) = n + 1
        /\ (\A i \in 1 .. n : t[i] = a[i]) /\ \A i \in 1 .. 1 : t[n + i] = x[i]
    <3>1. /\ a \o x \in Seq(E) /\ Len(a) \in Nat /\ Len(x) \in Nat
          /\ Len(a \o x) = Len(a) + Len(x)
          /\ \A i \in 1 .. Len(a) : (a \o x)[i] = a[i]
          /\ \A i \in 1 .. Len(x) : (a \o x)[Len(a) + i] = x[i]
      <4>0. x \in Seq(E)
        BY <1>1
      <4>1. a \o x \in Seq(E) /\ Len(a) \in Nat /\ Len(x) \in Nat
            /\ Len(a \o x) = Len(a) + Len(x)
        BY <4>0, Joined
      <4>2. \A i \in 1 .. Len(a) : (a \o x)[i] = a[i]
        BY <4>0, Joined
      <4>3. \A i \in 1 .. Len(x) : (a \o x)[Len(a) + i] = x[i]
        BY <4>0, Joined
      <4>. QED
        BY <4>1, <4>2, <4>3
    <3>. QED
      BY <1>1, <3>1
  <2>2. m \in Nat
    BY LenProperties
  <2>. QED
    BY <1>1, <2>1, <2>2
<1>. HIDE DEF t
<1>3. /\ s \in Seq(E) /\ Len(s) = n + 1 + m
      /\ (\A i \in 1 .. n + 1 : s[i] = t[i]) /\ \A i \in 1 .. m : s[n + 1 + i] = b[i]
  <2>1. /\ t \o b \in Seq(E) /\ Len(t) \in Nat /\ Len(b) \in Nat
        /\ Len(t \o b) = Len(t) + Len(b)
        /\ \A i \in 1 .. Len(t) : (t \o b)[i] = t[i]
        /\ \A i \in 1 .. Len(b) : (t \o b)[Len(t) + i] = b[i]
    <3>1. t \o b \in Seq(E) /\ Len(t) \in Nat /\ Len(b) \in Nat
          /\ Len(t \o b) = Len(t) + Len(b)
      BY <1>2, Joined
    <3>2. \A i \in 1 .. Len(t) : (t \o b)[i] = t[i]
      BY <1>2, Joined
    <3>3. \A i \in 1 .. Len(b) : (t \o b)[Len(t) + i] = b[i]
      BY <1>2, Joined
    <3>. QED
      BY <3>1, <3>2, <3>3
  <2>. QED
    BY <1>2, <2>1
<1>. HIDE DEF s
<1>4. \A i \in 1 .. n : s[i] = a[i] /\ a[i] # d
  <2>1. \A i \in 1 .. n : a[i] # d
    BY IsAt
  <2>. QED
    BY <1>2, <1>3, <2>1
<1>5. s[n + 1] = d
  BY <1>2, <1>3
<1>6. n + 1 \in At(d, s) /\ At(d, s) \subseteq Int /\ \A i \in At(d, s) : n + 1 <= i
  <2>1. At(d, s) \subseteq Int /\ \A i : i \in At(d, s) <=> i \in 1 .. n + 1 + m /\ s[i] = d
    BY <1>3, IsAt
  <2>. QED
    BY <1>2, <1>4, <1>5, <2>1
<1>7. Min(At(d, s)) = n + 1
  BY <1>6, MinIs
<1>8. SubSeq(s, 1, n) = a
  <2>1. \A i \in 1 .. n : s[0 + i] = a[i]
    BY <1>2, <1>4
  <2>2. SubSeq(s, 0 + 1, 0 + n) = a
    BY <1>2, <1>3, <2>1, PartAt
  <2>. QED
    BY <1>2, <2>2
<1>9. SubSeq(s, n + 2, n + 1 + m) = b
  <2>. DEFINE k == n + 1
  <2>1. k \in Nat /\ k + m <= Len(s) /\ \A i \in 1 .. m : s[k + i] = b[i]
    BY <1>2, <1>3
  <2>2. k + 1 = n + 2 /\ k + m = n + 1 + m
    BY <1>2
  <2>. HIDE DEF k
  <2>3. SubSeq(s, k + 1, k + m) = b
    BY <1>3, <2>1, PartAt
  <2>. QED
    BY <2>2, <2>3
<1>10. Before(d, s) = a
  BY <1>2, <1>7, <1>8 DEF Before
<1>11. After(d, s) = b
  <2>1. After(d, s) = SubSeq(s, (n + 1) + 1, n + 1 + m)
    BY <1>3, <1>7 DEF After
  <2>. QED
    BY <1>2, <1>9, <2>1
<1>12. s # <<>>
  BY <1>2, <1>3
<1>13. At(d, b) = {} => At(d, s) = {n + 1}
  <2>. SUFFICES ASSUME At(d, b) = {} PROVE At(d, s) = {n + 1}
    OBVIOUS
  <2>1. /\ At(d, s) \subseteq Int /\ \A i : i \in At(d, s) <=> i \in 1 .. n + 1 + m /\ s[i] = d
    BY <1>3, IsAt
  <2>2. \A i \in 1 .. m : b[i] # d
    BY IsAt
  <2>3. ASSUME NEW i \in At(d, s) PROVE i = n + 1
    <3>. DEFINE j == i - (n + 1)
    <3>1. i \in 1 .. n + 1 + m /\ s[i] = d /\ n + 1 <= i /\ i \in Int
      BY <1>6, <2>1
    <3>2. CASE i > n + 1
      <4>1. j \in 1 .. m /\ n + 1 + j = i
        BY <1>2, <3>1, <3>2
      <4>. HIDE DEF j
      <4>. QED
        BY <1>3, <2>2, <3>1, <4>1
    <3>. QED
      BY <1>2, <3>1, <3>2
  <2>. QED
    BY <1>6, <2>3
<1>. QED
  BY <1>3, <1>6, <1>7, <1>10, <1>11, <1>12, <1>13 DEF s, t, x

\* What neither text has, both together have not.
LEMMA NoneInBoth ==
    ASSUME NEW E, NEW a \in Seq(E), NEW b \in Seq(E), NEW d, At(d, a) = {}, At(d, b) = {}
    PROVE  a \o b \in Seq(E) /\ At(d, a \o b) = {}
<1>. DEFINE s == a \o b
<1>1. /\ s \in Seq(E) /\ Len(a) \in Nat /\ Len(b) \in Nat /\ Len(s) = Len(a) + Len(b)
      /\ \A i \in 1 .. Len(a) : s[i] = a[i]
      /\ \A i \in 1 .. Len(b) : s[Len(a) + i] = b[i]
  BY Joined
<1>. HIDE DEF s
<1>2. \A i \in 1 .. Len(a) : a[i] # d
  BY IsAt
<1>3. \A i \in 1 .. Len(b) : b[i] # d
  BY IsAt
<1>4. ASSUME NEW i \in 1 .. Len(s) PROVE s[i] # d
  <2>1. CASE i <= Len(a)
    BY <1>1, <1>2, <2>1
  <2>2. CASE i > Len(a)
    <3>. DEFINE j == i - Len(a)
    <3>1. j \in 1 .. Len(b) /\ Len(a) + j = i
      BY <1>1, <2>2
    <3>. HIDE DEF j
    <3>. QED
      BY <1>1, <1>3, <3>1
  <2>. QED
    BY <1>1, <2>1, <2>2
<1>5. At(d, s) = {}
  BY <1>1, <1>4 DEF At
<1>. QED
  BY <1>1, <1>5 DEF s

\* A text that begins with a token.
LEMMA TailOfRest ==
    ASSUME NEW E, NEW w \in E, NEW s \in Seq(E)
    PROVE  LET t == <<w>> \o s
           IN  t # <<>> /\ t[1] = w /\ Tail(t) = s
<1>. DEFINE x == <<w>>
            t == x \o s
<1>1. x \in Seq(E)
  BY OneToken
<1>2. Len(x) = 1 /\ x[1] = w
  BY OneToken
<1>. HIDE DEF x
<1>3. t \in Seq(E) /\ Len(s) \in Nat /\ Len(t) = Len(x) + Len(s)
  BY <1>1, Joined
<1>4. \A i \in 1 .. Len(x) : t[i] = x[i]
  BY <1>1, Joined
<1>5. \A i \in 1 .. Len(s) : t[Len(x) + i] = s[i]
  BY <1>1, Joined
<1>. HIDE DEF t
<1>6. Len(t) = 1 + Len(s) /\ t[1] = w /\ t # <<>>
  BY <1>2, <1>3, <1>4
<1>7. /\ Tail(t) \in Seq(E) /\ Len(Tail(t)) = Len(s)
      /\ \A i \in 1 .. Len(s) : Tail(t)[i] = t[i + 1]
  BY <1>3, <1>6, HeadTailProperties
<1>8. \A i \in 1 .. Len(s) : Tail(t)[i] = s[i]
  BY <1>2, <1>3, <1>5, <1>7
<1>9. Tail(t) = s
  BY <1>7, <1>8, SeqEqual
<1>. QED
  BY <1>6, <1>9 DEF t, x

\* The empty text.
LEMMA NoTokens ==
    /\ \A E : <<>> \in Seq(E) /\ \A s \in Seq(E) : s \o <<>> = s /\ <<>> \o s = s
    /\ \A d : At(d, <<>>) = {}
<1>1. \A d : At(d, <<>>) = {}
  BY DEF At
<1>2. \A E : <<>> \in Seq(E) /\ \A s \in Seq(E) : s \o <<>> = s /\ <<>> \o s = s
  BY ConcatEmptySeq
<1>. QED
  BY <1>1, <1>2

\* The delimiters are tokens, and no word is one of them.
LEMMA WordsAreNoDelimiters ==
    /\ {":", "@", "?", "&", "=", "[", "]", "/"} \subseteq Tokens
    /\ \A w \in Words : /\ w \in Tokens
                        /\ \A d \in {":", "@", "?", "&", "=", "[", "]", "/"} : w # d
BY UrlAssumption DEF Tokens, Delimiters

\* A parameter: its key and its value.
LEMMA OneParameter ==
    ASSUME NEW k \in Words, NEW v \in Seq(Tokens)
    PROVE  /\ <<k, "=">> \o v \in Seq(Tokens)
           /\ Parameter(<<k, "=">> \o v) = [key |-> <<k>>, value |-> v]
<1>. DEFINE s == <<k, "=">> \o v
            named == {i \in DOMAIN s : s[i] # "="}
<1>1. <<k, "=">> = <<k>> \o <<"=">> /\ k \in Tokens /\ "=" \in Tokens /\ k # "="
  BY WordsAreNoDelimiters
<1>2. At("=", <<k>>) = {} /\ <<k>> \in Seq(Tokens)
  BY <1>1, OneToken
<1>3. /\ s \in Seq(Tokens) /\ At("=", s) # {} /\ Before("=", s) = <<k>> /\ After("=", s) = v
  <2>. DEFINE x == <<k>>
  <2>1. s = (x \o <<"=">>) \o v /\ At("=", x) = {} /\ x \in Seq(Tokens)
    BY <1>1, <1>2
  <2>. HIDE DEF s, x
  <2>2. "=" \in Tokens
    BY <1>1
  <2>3. /\ s \in Seq(Tokens) /\ At("=", s) # {} /\ Before("=", s) = x /\ After("=", s) = v
    BY <2>1, <2>2, SplitAt
  <2>. QED
    BY <2>3 DEF x
<1>4. Len(s) \in Nat /\ Len(s) >= 1 /\ s[1] = k
  <2>. DEFINE x == <<k, "=">>
  <2>1. x \in Seq(Tokens) /\ Len(x) = 2 /\ x[1] = k
    BY <1>1
  <2>2. s = x \o v
    OBVIOUS
  <2>. HIDE DEF s, x
  <2>3. Len(v) \in Nat /\ Len(s) = 2 + Len(v) /\ \A i \in 1 .. 2 : s[i] = x[i]
    <3>1. x \in Seq(Tokens)
      BY <2>1
    <3>2. Len(v) \in Nat /\ Len(x \o v) = Len(x) + Len(v)
      BY <3>1, Joined
    <3>3. \A i \in 1 .. Len(x) : (x \o v)[i] = x[i]
      BY <3>1, Joined
    <3>. QED
      BY <2>1, <2>2, <3>2, <3>3
  <2>. QED
    BY <2>1, <2>3
<1>. HIDE DEF s
<1>5. 1 \in named /\ named \subseteq Int /\ \A i \in named : 1 <= i
  BY <1>1, <1>3, <1>4
<1>6. named # {} /\ Min(named) = 1
  BY <1>5, MinIs
<1>7. SubSeq(s, 1, Len(s)) = s
  BY <1>3, SubSeqFull
<1>. HIDE DEF named
<1>8. Parameter(s) = IF At("=", s) = {} THEN [key |-> <<>>, value |-> <<>>]
                     ELSE [key |-> Before("=", s), value |-> After("=", s)]
  BY <1>6, <1>7 DEF Parameter, named
<1>9. s \in Seq(Tokens) /\ Parameter(s) = [key |-> <<k>>, value |-> v]
  BY <1>3, <1>8
<1>. QED
  BY <1>9 DEF s

-----------------------------------------------------------------------------
(* The parameters of a query.                                               *)

\* The parameters begin in a query where it begins and after each "&", in
\* their order.
Placed(q, u, f) ==
    /\ f \in [DOMAIN u.params -> Nat]
    /\ \A i, j \in DOMAIN u.params : i < j => f[i] < f[j]
    /\ \A i \in DOMAIN u.params :
          /\ f[i] \in Starts(q)
          /\ ParameterAt(q, f[i]) = [key |-> <<u.params[i].key>>, value |-> u.params[i].value]
    /\ \A k \in Starts(q) : \/ ParameterAt(q, k) = [key |-> <<>>, value |-> <<>>]
                            \/ \E i \in DOMAIN u.params : k = f[i]

FewParameters(u) ==
    /\ u.params \in Seq([key : Words, value : Seq(Tokens)]) /\ Len(u.params) <= 2
    /\ \A i \in DOMAIN u.params : At("&", u.params[i].value) = {}

\* The keys that are one word, of the words.
Names(keys, words) == <<>> \notin keys /\ \A k : <<k>> \in keys <=> k \in words

\* The last parameter with one of the keys is the one that counts.
LEMMA LastIsSaid ==
    ASSUME NEW u, NEW q, NEW f, FewParameters(u), Placed(q, u, f),
           NEW words, NEW keys, Names(keys, words),
           NEW default
    PROVE  LastOf(q, keys, default) = Says(u, words, default)
<1>. DEFINE said == {i \in DOMAIN u.params : u.params[i].key \in words}
            found == {k \in Starts(q) : ParameterAt(q, k).key \in keys}
<1>1. DOMAIN u.params \subseteq 1 .. 2 /\ DOMAIN u.params \subseteq Int
  BY DEF FewParameters
<1>2. /\ said \subseteq DOMAIN u.params
      /\ \A i \in said : f[i] \in Nat /\ \A j \in said : i < j => f[i] < f[j]
  BY DEF Placed
<1>3. \A k : k \in found <=> \E i \in said : k = f[i]
  <2>1. ASSUME NEW i \in said PROVE f[i] \in found
    <3>1. /\ f[i] \in Starts(q)
          /\ ParameterAt(q, f[i]) = [key |-> <<u.params[i].key>>, value |-> u.params[i].value]
      BY DEF Placed
    <3>2. ParameterAt(q, f[i]).key = <<u.params[i].key>>
      BY <3>1
    <3>3. <<u.params[i].key>> \in keys
      BY DEF Names
    <3>. QED
      BY <3>1, <3>2, <3>3
  <2>2. ASSUME NEW k \in found PROVE \E i \in said : k = f[i]
    <3>1. ParameterAt(q, k) # [key |-> <<>>, value |-> <<>>]
      BY DEF Names
    <3>2. PICK i \in DOMAIN u.params : k = f[i]
      BY <3>1 DEF Placed
    <3>3. ParameterAt(q, k) = [key |-> <<u.params[i].key>>, value |-> u.params[i].value]
      BY <3>2 DEF Placed
    <3>4. i \in said
      BY <3>3 DEF Names
    <3>. QED
      BY <3>2, <3>4
  <2>. QED
    BY <2>1, <2>2
<1>4. LastOf(q, keys, default) = IF found = {} THEN default ELSE ParameterAt(q, Max(found)).value
  BY DEF LastOf
<1>5. Says(u, words, default) = IF said = {} THEN default ELSE u.params[Max(said)].value
  BY DEF Says
<1>6. ASSUME NEW i \in said PROVE ParameterAt(q, f[i]).value = u.params[i].value
  <2>1. ParameterAt(q, f[i]) = [key |-> <<u.params[i].key>>, value |-> u.params[i].value]
    BY DEF Placed
  <2>. QED
    BY <2>1
<1>. HIDE DEF said, found
<1>7. CASE said = {}
  BY <1>3, <1>4, <1>5, <1>7
<1>8. CASE said # {}
  <2>1. PICK m \in said : \A i \in said : m >= i
    <3>1. CASE 2 \in said
      BY <1>1, <1>2, <3>1
    <3>2. CASE 2 \notin said
      <4>1. said = {1}
        BY <1>1, <1>2, <1>8, <3>2
      <4>. QED
        BY <4>1
    <3>. QED
      BY <3>1, <3>2
  <2>2. Max(said) = m
    BY <1>1, <1>2, <2>1, MaxIs
  <2>3. f[m] \in found /\ found \subseteq Int /\ \A k \in found : f[m] >= k
    BY <1>1, <1>2, <1>3, <2>1
  <2>4. Max(found) = f[m]
    BY <2>3, MaxIs
  <2>. QED
    BY <1>4, <1>5, <1>6, <1>8, <2>1, <2>2, <2>3, <2>4
<1>. QED
  BY <1>7, <1>8

\* What the parameters of a URL say.
SaidInfo(u) ==
    IF \A i \in DOMAIN u.params :
          /\ u.params[i].key # "db"
          /\ u.params[i].key = "index" => IsIndex(u.params[i].value)
    THEN Config([username |-> Says(u, {"username"}, <<>>),
                 password |-> Says(u, {"password", "auth"}, <<>>),
                 index |-> IndexOf[Says(u, {"index"}, <<"0">>)[1]]])
    ELSE Invalid

\* Without an index it is 0.
LEMMA IndexIsSaid ==
    ASSUME NEW u, FewParameters(u),
           \A i \in DOMAIN u.params : u.params[i].key = "index" => IsIndex(u.params[i].value)
    PROVE  LET index == Says(u, {"index"}, <<>>)
           IN  (IF index = <<>> THEN 0 ELSE IndexOf[index[1]])
               = IndexOf[Says(u, {"index"}, <<"0">>)[1]]
<1>. DEFINE said == {i \in DOMAIN u.params : u.params[i].key \in {"index"}}
<1>1. \A default : Says(u, {"index"}, default)
                     = IF said = {} THEN default ELSE u.params[Max(said)].value
  BY DEF Says
<1>2. DOMAIN u.params \subseteq 1 .. 2 /\ said \subseteq DOMAIN u.params
  BY DEF FewParameters
<1>3. \A i \in said : IsIndex(u.params[i].value)
  OBVIOUS
<1>. HIDE DEF said
<1>4. CASE said = {}
  BY <1>1, <1>4, UrlAssumption
<1>5. CASE said # {}
  <2>1. PICK m \in said : \A i \in said : m >= i
    BY <1>2, <1>5
  <2>2. said \subseteq Int
    BY <1>2
  <2>3. Max(said) = m
    BY <2>1, <2>2, MaxIs
  <2>4. Len(u.params[m].value) = 1
    BY <1>3, <2>1 DEF IsIndex
  <2>5. u.params[m].value # <<>>
    <3>. DEFINE v == u.params[m].value
    <3>1. Len(<<>>) = 0 /\ Len(v) = 1
      BY <2>4
    <3>. HIDE DEF v
    <3>2. v = <<>> => Len(v) = Len(<<>>)
      OBVIOUS
    <3>3. v # <<>>
      BY <3>1, <3>2
    <3>. QED
      BY <3>3 DEF v
  <2>. QED
    BY <1>1, <1>5, <2>3, <2>5
<1>. QED
  BY <1>4, <1>5

\* A query says what its parameters say.
LEMMA InfoIsSaid ==
    ASSUME NEW u, NEW q, NEW f, FewParameters(u), Placed(q, u, f)
    PROVE  parse_query_params(q) = SaidInfo(u)
<1>. DEFINE wrong == \E i \in Starts(q) : LET p == ParameterAt(q, i)
                                          IN  \/ p.key = <<"db">>
                                              \/ p.key = <<"index">> /\ ~IsIndex(p.value)
            right == \A i \in DOMAIN u.params :
                        /\ u.params[i].key # "db"
                        /\ u.params[i].key = "index" => IsIndex(u.params[i].value)
            index == LastOf(q, {<<"index">>}, <<>>)
<1>1. wrong <=> ~right
  <2>1. \A k : (<<k>> = <<"db">> <=> k = "db") /\ (<<k>> = <<"index">> <=> k = "index")
               /\ <<>> # <<"db">> /\ <<>> # <<"index">>
    OBVIOUS
  <2>2. ASSUME NEW i \in DOMAIN u.params,
               u.params[i].key = "db" \/ (u.params[i].key = "index" /\ ~IsIndex(u.params[i].value))
        PROVE  wrong
    <3>1. /\ f[i] \in Starts(q)
          /\ ParameterAt(q, f[i]) = [key |-> <<u.params[i].key>>, value |-> u.params[i].value]
      BY DEF Placed
    <3>2. /\ ParameterAt(q, f[i]).key = <<u.params[i].key>>
          /\ ParameterAt(q, f[i]).value = u.params[i].value
      BY <3>1
    <3>. QED
      BY <2>1, <2>2, <3>1, <3>2
  <2>3. ASSUME NEW k \in Starts(q),
               \/ ParameterAt(q, k).key = <<"db">>
               \/ ParameterAt(q, k).key = <<"index">> /\ ~IsIndex(ParameterAt(q, k).value)
        PROVE  ~right
    <3>1. ParameterAt(q, k) # [key |-> <<>>, value |-> <<>>]
      BY <2>1, <2>3
    <3>2. PICK i \in DOMAIN u.params : k = f[i]
      BY <3>1 DEF Placed
    <3>3. ParameterAt(q, k) = [key |-> <<u.params[i].key>>, value |-> u.params[i].value]
      BY <3>2 DEF Placed
    <3>. QED
      BY <2>1, <2>3, <3>3
  <2>. QED
    BY <2>2, <2>3
<1>2. LastOf(q, {<<"username">>}, <<>>) = Says(u, {"username"}, <<>>)
  <2>. DEFINE keys == {<<"username">>}
              words == {"username"}
              none == <<>>
  <2>1. Names(keys, words)
    BY DEF Names
  <2>. HIDE DEF keys, words, none
  <2>2. LastOf(q, keys, none) = Says(u, words, none)
    BY <2>1, LastIsSaid
  <2>. QED
    BY <2>2 DEF keys, words, none
<1>3. LastOf(q, {<<"password">>, <<"auth">>}, <<>>) = Says(u, {"password", "auth"}, <<>>)
  <2>. DEFINE keys == {<<"password">>, <<"auth">>}
              words == {"password", "auth"}
              none == <<>>
  <2>1. Names(keys, words)
    BY DEF Names
  <2>. HIDE DEF keys, words, none
  <2>2. LastOf(q, keys, none) = Says(u, words, none)
    BY <2>1, LastIsSaid
  <2>. QED
    BY <2>2 DEF keys, words, none
<1>4. index = Says(u, {"index"}, <<>>)
  <2>. DEFINE keys == {<<"index">>}
              words == {"index"}
              none == <<>>
  <2>1. Names(keys, words)
    BY DEF Names
  <2>. HIDE DEF keys, words, none
  <2>2. LastOf(q, keys, none) = Says(u, words, none)
    BY <2>1, LastIsSaid
  <2>. QED
    BY <2>2 DEF keys, words, none
<1>5. parse_query_params(q) =
        IF wrong THEN Invalid
        ELSE Config([username |-> LastOf(q, {<<"username">>}, <<>>),
                     password |-> LastOf(q, {<<"password">>, <<"auth">>}, <<>>),
                     index |-> IF index = <<>> THEN 0 ELSE IndexOf[index[1]]])
  BY DEF parse_query_params
<1>6. right => (IF index = <<>> THEN 0 ELSE IndexOf[index[1]])
                 = IndexOf[Says(u, {"index"}, <<"0">>)[1]]
  BY <1>4, IndexIsSaid
<1>7. SaidInfo(u) =
        IF right THEN Config([username |-> Says(u, {"username"}, <<>>),
                              password |-> Says(u, {"password", "auth"}, <<>>),
                              index |-> IndexOf[Says(u, {"index"}, <<"0">>)[1]]])
        ELSE Invalid
  BY DEF SaidInfo
<1>. HIDE DEF wrong, right, index
<1>. QED
  BY <1>1, <1>2, <1>3, <1>5, <1>6, <1>7

\* A query with one parameter or none.
LEMMA OneStart ==
    ASSUME NEW q \in Seq(Tokens), At("&", q) = {}
    PROVE  Starts(q) = {1} /\ ParameterAt(q, 1) = Parameter(q)
<1>1. SubSeq(q, 1, Len(q)) = q
  BY SubSeqFull
<1>. QED
  BY <1>1 DEF Starts, ParameterAt

\* A query with two parameters.
LEMMA TwoStarts ==
    ASSUME NEW a \in Seq(Tokens), NEW b \in Seq(Tokens), At("&", a) = {}, At("&", b) = {}
    PROVE  LET q == (a \o <<"&">>) \o b
           IN  /\ q \in Seq(Tokens) /\ Len(a) \in Nat /\ Starts(q) = {1, Len(a) + 2}
               /\ ParameterAt(q, 1) = Parameter(a) /\ ParameterAt(q, Len(a) + 2) = Parameter(b)
<1>. DEFINE q == (a \o <<"&">>) \o b
            n == Len(a)
<1>1. "&" \in Tokens
  BY WordsAreNoDelimiters
<1>2. /\ q \in Seq(Tokens) /\ At("&", q) = {n + 1} /\ Min(At("&", q)) = n + 1
      /\ Before("&", q) = a /\ After("&", q) = b
  BY <1>1, SplitAt
<1>. HIDE DEF q
<1>3. n \in Nat
  BY LenProperties
<1>4. Starts(q) = {1, n + 2}
  <2>1. At("&", q) = {n + 1}
    BY <1>2
  <2>2. {i + 1 : i \in {n + 1}} = {n + 2}
    BY <1>3
  <2>. QED
    BY <2>1, <2>2 DEF Starts
<1>5. ParameterAt(q, 1) = Parameter(a)
  <2>1. {j \in At("&", q) : j >= 1} = At("&", q) /\ At("&", q) # {}
    <3>1. At("&", q) = {n + 1}
      BY <1>2
    <3>2. {j \in {n + 1} : j >= 1} = {n + 1} /\ {n + 1} # {}
      BY <1>3
    <3>. QED
      BY <3>1, <3>2
  <2>2. ParameterAt(q, 1) = Parameter(Before("&", q))
    BY <2>1 DEF ParameterAt, Before
  <2>. QED
    BY <1>2, <2>2
<1>6. ParameterAt(q, n + 2) = Parameter(b)
  <2>1. {j \in At("&", q) : j >= n + 2} = {} /\ (n + 1) + 1 = n + 2
    BY <1>2, <1>3
  <2>2. After("&", q) = SubSeq(q, n + 2, Len(q))
    BY <1>2, <2>1 DEF After
  <2>3. ParameterAt(q, n + 2) = Parameter(After("&", q))
    BY <2>1, <2>2 DEF ParameterAt
  <2>. QED
    BY <1>2, <2>3
<1>. QED
  BY <1>2, <1>3, <1>4, <1>5, <1>6 DEF q

\* The spelling of a parameter is read as the parameter.
LEMMA SpelledIsRead ==
    ASSUME NEW p \in [key : Words, value : Seq(Tokens)], At("&", p.value) = {}
    PROVE  LET s == SpelledParameter(p)
           IN  /\ s \in Seq(Tokens) /\ At("&", s) = {}
               /\ Parameter(s) = [key |-> <<p.key>>, value |-> p.value]
<1>. DEFINE k == p.key
            v == p.value
            x == <<k, "=">>
<1>1. k \in Words /\ v \in Seq(Tokens) /\ At("&", v) = {}
  OBVIOUS
<1>. HIDE DEF k, v
<1>2. x \o v \in Seq(Tokens) /\ Parameter(x \o v) = [key |-> <<k>>, value |-> v]
  BY <1>1, OneParameter
<1>3. k \in Tokens /\ "=" \in Tokens /\ k # "&" /\ "=" # "&"
  BY <1>1, WordsAreNoDelimiters
<1>4. x \in Seq(Tokens) /\ At("&", x) = {}
  BY <1>3 DEF At
<1>. HIDE DEF x
<1>5. At("&", x \o v) = {}
  BY <1>1, <1>4, NoneInBoth
<1>. QED
  BY <1>2, <1>5 DEF SpelledParameter, x, k, v

\* The parameters of a query.
LEMMA FewAre ==
    ASSUME NEW u, FewParameters(u)
    PROVE  /\ Len(u.params) \in 0 .. 2 /\ DOMAIN u.params = 1 .. Len(u.params)
           /\ u.params # <<>> => Len(u.params) \in {1, 2}
<1>. DEFINE P == [key : Words, value : Seq(Tokens)]
            params == u.params
<1>1. params \in Seq(P) /\ Len(params) <= 2
  BY DEF FewParameters
<1>. HIDE DEF P, params
<1>2. Len(params) \in Nat /\ DOMAIN params = 1 .. Len(params)
  BY <1>1, LenProperties
<1>3. Len(params) = 0 => params = <<>>
  BY <1>1, EmptySeq
<1>4. Len(params) \in 0 .. 2 /\ (Len(params) # 0 => Len(params) \in {1, 2})
  BY <1>1, <1>2
<1>5. params # <<>> => Len(params) \in {1, 2}
  BY <1>3, <1>4
<1>. QED
  BY <1>2, <1>4, <1>5, Zenon DEF params

\* Each parameter is read as it was spelled.
LEMMA ParametersAreRead ==
    ASSUME NEW u, FewParameters(u), NEW i \in DOMAIN u.params
    PROVE  LET s == SpelledParameter(u.params[i])
           IN  /\ s \in Seq(Tokens) /\ At("&", s) = {}
               /\ Parameter(s) = [key |-> <<u.params[i].key>>, value |-> u.params[i].value]
<1>. DEFINE P == [key : Words, value : Seq(Tokens)]
            params == u.params
            p == params[i]
<1>1. params \in Seq(P) /\ At("&", p.value) = {}
  BY DEF FewParameters
<1>2. i \in 1 .. Len(params)
  BY FewAre
<1>3. p \in P
  <2>. HIDE DEF P, params
  <2>. QED
    BY <1>1, <1>2, ElementOfSeq
<1>. HIDE DEF p
<1>. QED
  BY <1>1, <1>3, SpelledIsRead DEF p

\* Four texts, one after the other.
LEMMA FourTexts ==
    ASSUME NEW E, NEW a \in Seq(E), NEW b \in Seq(E), NEW c \in Seq(E), NEW d \in Seq(E)
    PROVE  (a \o b) \o (c \o d) = a \o ((b \o c) \o d)
<1>1. b \o c \in Seq(E) /\ c \o d \in Seq(E)
  BY ConcatProperties
<1>2. (a \o b) \o (c \o d) = a \o (b \o (c \o d))
  BY <1>1, ConcatAssociative
<1>3. b \o (c \o d) = (b \o c) \o d
  BY ConcatAssociative
<1>. QED
  BY <1>2, <1>3

\* What follows the "?" of a URL.
Query(u) ==
    CASE Len(u.params) = 0 -> <<>>
      [] Len(u.params) = 1 -> SpelledParameter(u.params[1])
      [] Len(u.params) = 2 -> (SpelledParameter(u.params[1]) \o <<"&">>)
                              \o SpelledParameter(u.params[2])

\* The parameters are found in the query, in their order.
LEMMA QueryIsPlaced ==
    ASSUME NEW u, FewParameters(u)
    PROVE  Query(u) \in Seq(Tokens) /\ \E f : Placed(Query(u), u, f)
<1>. DEFINE params == u.params
<1>1. Len(params) \in 0 .. 2 /\ DOMAIN params = 1 .. Len(params)
  BY FewAre
<1>2. ASSUME NEW i \in DOMAIN params
      PROVE  /\ SpelledParameter(params[i]) \in Seq(Tokens)
             /\ At("&", SpelledParameter(params[i])) = {}
             /\ Parameter(SpelledParameter(params[i]))
                  = [key |-> <<params[i].key>>, value |-> params[i].value]
  BY ParametersAreRead
<1>. DEFINE q == Query(u)
<1>3. CASE Len(params) = 0
  <2>1. q = <<>> /\ DOMAIN params = {}
    BY <1>1, <1>3 DEF Query
  <2>2. q \in Seq(Tokens) /\ At("&", q) = {}
    BY <2>1, NoTokens
  <2>3. Parameter(<<>>) = [key |-> <<>>, value |-> <<>>]
    BY DEF Parameter, At
  <2>4. Starts(q) = {1} /\ ParameterAt(q, 1) = [key |-> <<>>, value |-> <<>>]
    BY <2>1, <2>2, <2>3, OneStart
  <2>. DEFINE f == [i \in DOMAIN params |-> 1]
  <2>. HIDE DEF q
  <2>5. Placed(q, u, f)
    BY <2>1, <2>4 DEF Placed
  <2>. QED
    BY <2>2, <2>5 DEF q
<1>4. CASE Len(params) = 1
  <2>1. q = SpelledParameter(params[1]) /\ DOMAIN params = {1}
    BY <1>1, <1>4 DEF Query
  <2>2. /\ q \in Seq(Tokens) /\ At("&", q) = {}
        /\ Parameter(q) = [key |-> <<params[1].key>>, value |-> params[1].value]
    BY <1>2, <2>1
  <2>3. Starts(q) = {1} /\ ParameterAt(q, 1) = Parameter(q)
    BY <2>2, OneStart
  <2>. DEFINE f == [i \in DOMAIN params |-> 1]
  <2>. HIDE DEF q
  <2>4. Placed(q, u, f)
    BY <2>1, <2>2, <2>3 DEF Placed
  <2>. QED
    BY <2>2, <2>4 DEF q
<1>5. CASE Len(params) = 2
  <2>. DEFINE a == SpelledParameter(params[1])
              b == SpelledParameter(params[2])
  <2>1. q = (a \o <<"&">>) \o b /\ DOMAIN params = {1, 2}
    BY <1>1, <1>5 DEF Query
  <2>2. /\ a \in Seq(Tokens) /\ At("&", a) = {}
        /\ Parameter(a) = [key |-> <<params[1].key>>, value |-> params[1].value]
    BY <1>2, <2>1
  <2>3. /\ b \in Seq(Tokens) /\ At("&", b) = {}
        /\ Parameter(b) = [key |-> <<params[2].key>>, value |-> params[2].value]
    BY <1>2, <2>1
  <2>. HIDE DEF a, b, q
  <2>4. /\ q \in Seq(Tokens) /\ Len(a) \in Nat /\ Starts(q) = {1, Len(a) + 2}
        /\ ParameterAt(q, 1) = Parameter(a) /\ ParameterAt(q, Len(a) + 2) = Parameter(b)
    BY <2>1, <2>2, <2>3, TwoStarts
  <2>. DEFINE f == [i \in DOMAIN params |-> IF i = 1 THEN 1 ELSE Len(a) + 2]
  <2>5. f \in [DOMAIN params -> Nat] /\ f[1] = 1 /\ f[2] = Len(a) + 2 /\ 1 < Len(a) + 2
    BY <2>1, <2>4
  <2>. HIDE DEF f
  <2>6. Placed(q, u, f)
    BY <2>1, <2>2, <2>3, <2>4, <2>5 DEF Placed
  <2>. QED
    BY <2>4, <2>6 DEF q
<1>. QED
  BY <1>1, <1>3, <1>4, <1>5

-----------------------------------------------------------------------------
(* The text and the query of a URL.                                         *)

\* A text up to its query, and the query.
TextOf(text) == IF At("?", text) # {} THEN Before("?", text) ELSE text
QueryOf(text) == IF At("?", text) # {} THEN After("?", text) ELSE <<>>

\* The query of a URL is found again and says what the URL says.
LEMMA QueryIsSplit ==
    ASSUME NEW u, FewParameters(u), NEW a \in Seq(Tokens), At("?", a) = {}
    PROVE  LET text == a \o SpelledQuery(u.params)
           IN  TextOf(text) = a /\ parse_query_params(QueryOf(text)) = SaidInfo(u)
<1>. DEFINE params == u.params
            q == Query(u)
            text == a \o SpelledQuery(params)
<1>1. q \in Seq(Tokens) /\ parse_query_params(q) = SaidInfo(u)
  <2>1. PICK f : Placed(Query(u), u, f)
    BY QueryIsPlaced
  <2>2. parse_query_params(Query(u)) = SaidInfo(u)
    BY <2>1, InfoIsSaid
  <2>. QED
    BY <2>2, QueryIsPlaced
<1>2. TextOf(text) = a /\ QueryOf(text) = q
  <2>1. CASE params = <<>>
    <3>1. Len(params) = 0
      BY <2>1
    <3>2. q = <<>>
      BY <3>1 DEF Query
    <3>3. SpelledQuery(params) = <<>>
      BY <2>1 DEF SpelledQuery
    <3>4. text = a
      BY <3>3, NoTokens
    <3>. QED
      BY <3>2, <3>4 DEF TextOf, QueryOf
  <2>2. CASE params # <<>>
    <3>1. SpelledQuery(params) = <<"?">> \o q
      <4>. DEFINE S1 == SpelledParameter(params[1])
                  S2 == SpelledParameter(params[2])
      <4>1. Len(params) \in {1, 2} /\ DOMAIN params = 1 .. Len(params)
        BY <2>2, FewAre
      <4>2. <<"?">> \in Seq(Tokens)
        BY WordsAreNoDelimiters, OneToken
      <4>3. CASE Len(params) = 1
        <5>1. S1 \in Seq(Tokens)
          <6>1. 1 \in DOMAIN params
            BY <4>1, <4>3
          <6>. QED
            BY <6>1, ParametersAreRead
        <5>2. q = S1
          BY <4>3 DEF Query
        <5>3. SpelledQuery(params) = (<<"?">> \o S1) \o <<>>
          BY <2>2, <4>3 DEF SpelledQuery
        <5>. HIDE DEF q, S1
        <5>4. <<"?">> \o S1 \in Seq(Tokens)
          BY <4>2, <5>1, ConcatProperties
        <5>. QED
          BY <5>2, <5>3, <5>4, NoTokens
      <4>4. CASE Len(params) = 2
        <5>1. S1 \in Seq(Tokens) /\ S2 \in Seq(Tokens) /\ <<"&">> \in Seq(Tokens)
          <6>1. 1 \in DOMAIN params /\ 2 \in DOMAIN params
            BY <4>1, <4>4
          <6>2. S1 \in Seq(Tokens) /\ S2 \in Seq(Tokens)
            BY <6>1, ParametersAreRead
          <6>3. <<"&">> \in Seq(Tokens)
            BY WordsAreNoDelimiters, OneToken
          <6>. QED
            BY <6>2, <6>3
        <5>2. q = (S1 \o <<"&">>) \o S2
          BY <4>4 DEF Query
        <5>3. SpelledQuery(params) = (<<"?">> \o S1) \o (<<"&">> \o S2)
          BY <2>2, <4>4 DEF SpelledQuery
        <5>. DEFINE w == <<"?">>
                    x == <<"&">>
        <5>. HIDE DEF q, S1, S2, w, x
        <5>4. (w \o S1) \o (x \o S2) = w \o ((S1 \o x) \o S2)
          BY <4>2, <5>1, FourTexts DEF w, x
        <5>. QED
          BY <5>2, <5>3, <5>4 DEF w, x
      <4>. QED
        BY <4>1, <4>3, <4>4
    <3>2. "?" \in Tokens /\ <<"?">> \in Seq(Tokens)
      BY WordsAreNoDelimiters, OneToken
    <3>. HIDE DEF q
    <3>3. text = (a \o <<"?">>) \o q
      BY <1>1, <3>1, <3>2, ConcatAssociative
    <3>4. At("?", text) # {} /\ Before("?", text) = a /\ After("?", text) = q
      BY <1>1, <3>2, <3>3, SplitAt
    <3>. QED
      BY <3>4 DEF TextOf, QueryOf
  <2>. QED
    BY <2>1, <2>2
<1>. QED
  BY <1>1, <1>2

-----------------------------------------------------------------------------
(* The user and the address of a URL.                                       *)

\* The conditions of Spellable on the user and the password.
\* The configuration that the parser puts together.
Configured(scheme, host, port, username, password, index) ==
    [scheme |-> scheme, host |-> host, port |-> port,
     username |-> username, password |-> password, index |-> index]

\* A part that is given has none of its delimiters.
\* A text of the address is read as it is: no query begins in it, and no user
\* ends in it unless one has ended before.
Free(u, s) == s \in Seq(Tokens) /\ At("?", s) = {} /\ (u.user = <<>> => At("@", s) = {})

LEMMA PartIsGiven ==
    ASSUME NEW part, NEW delimiters, PlainIfGiven(part, delimiters), part # <<>>
    PROVE  part[1] \in Seq(Tokens) /\ \A d \in delimiters : At(d, part[1]) = {}
BY DEF PlainIfGiven, Plain

\* The spelling of a user holds the user and the password, and ends at "@".
LEMMA UserIsSpelled ==
    ASSUME NEW u, UserGiven(u), u.user # <<>>
    PROVE  \E s \in Seq(Tokens) :
              /\ SpelledUser(u) = s \o <<"@">> /\ At("@", s) = {} /\ At("?", s) = {}
              /\ IF u.pass = <<>> THEN s = u.user[1] /\ At(":", s) = {}
                 ELSE /\ At(":", s) # {}
                      /\ Before(":", s) = u.user[1] /\ After(":", s) = u.pass[1]
<1>. DEFINE x == u.user[1]
            y == u.pass[1]
<1>1. x \in Seq(Tokens) /\ At(":", x) = {} /\ At("@", x) = {} /\ At("?", x) = {}
  <2>1. PlainIfGiven(u.user, {":", "@", "?"})
    BY DEF UserGiven
  <2>. QED
    BY <2>1, PartIsGiven
<1>2. CASE u.pass = <<>>
  <2>1. SpelledUser(u) = (x \o <<>>) \o <<"@">>
    BY <1>2 DEF SpelledUser, Spell
  <2>2. x \o <<>> = x
    BY <1>1, NoTokens
  <2>. QED
    BY <1>1, <1>2, <2>1, <2>2
<1>3. CASE u.pass # <<>>
  <2>1. y \in Seq(Tokens) /\ At("@", y) = {} /\ At("?", y) = {}
    <3>1. PlainIfGiven(u.pass, {"@", "?"})
      BY DEF UserGiven
    <3>. QED
      BY <1>3, <3>1, PartIsGiven
  <2>. DEFINE k == <<":">>
              s == (x \o k) \o y
  <2>2. ":" \in Tokens /\ k \in Seq(Tokens) /\ At("@", k) = {} /\ At("?", k) = {}
    BY WordsAreNoDelimiters, OneToken
  <2>3. SpelledUser(u) = (x \o (k \o y)) \o <<"@">>
    BY <1>3 DEF SpelledUser, Spell
  <2>4. At(":", s) # {} /\ Before(":", s) = x /\ After(":", s) = y
    <3>1. x \in Seq(Tokens) /\ y \in Seq(Tokens) /\ ":" \in Tokens /\ At(":", x) = {}
      BY <1>1, <2>1, <2>2
    <3>. HIDE DEF x, y
    <3>2. LET t == (x \o <<":">>) \o y
          IN  At(":", t) # {} /\ Before(":", t) = x /\ After(":", t) = y
      BY <3>1, SplitAt
    <3>. QED
      BY <3>2
  <2>. HIDE DEF x, y, k
  <2>5. x \o (k \o y) = s
    BY <1>1, <2>1, <2>2, ConcatAssociative
  <2>6. x \o k \in Seq(Tokens) /\ At("@", x \o k) = {} /\ At("?", x \o k) = {}
    BY <1>1, <2>2, NoneInBoth
  <2>7. s \in Seq(Tokens) /\ At("@", s) = {} /\ At("?", s) = {}
    BY <2>1, <2>6, NoneInBoth
  <2>. HIDE DEF s
  <2>. QED
    BY <1>3, <2>3, <2>4, <2>5, <2>7 DEF x, y
<1>. QED
  BY <1>2, <1>3

\* The user and the password win over those of the query, each if it is given.
LEMMA UserIsRead ==
    ASSUME NEW u, UserGiven(u), NEW h, Free(u, h), NEW scheme, NEW info
    PROVE  LET text == SpelledUser(u) \o h
               c == redis_config(scheme, info)
           IN  /\ SpelledUser(u) \in Seq(Tokens) /\ At("?", SpelledUser(u)) = {}
               /\ (IF At("@", text) = {} THEN text ELSE After("@", text)) = h
               /\ WithUser(c, text)
                    = Configured(scheme, c.host, c.port, Prefer(u.user, info.username),
                                 Prefer(u.pass, info.password), info.index)
<1>. DEFINE U == SpelledUser(u)
            text == U \o h
            c == redis_config(scheme, info)
<1>0. h \in Seq(Tokens) /\ (u.user = <<>> => At("@", h) = {})
  BY DEF Free
<1>1. c = Configured(scheme, c.host, c.port, info.username, info.password, info.index)
  BY DEF redis_config, Configured
<1>2. CASE u.user = <<>>
  <2>1. u.pass = <<>> /\ U = <<>>
    BY <1>2 DEF UserGiven, SpelledUser
  <2>2. text = h /\ U \in Seq(Tokens) /\ At("?", U) = {} /\ At("@", h) = {}
    BY <1>0, <1>2, <2>1, NoTokens
  <2>3. WithUser(c, text) = c
    BY <2>2 DEF WithUser
  <2>4. Prefer(u.user, info.username) = info.username /\ Prefer(u.pass, info.password) = info.password
    BY <1>2, <2>1 DEF Prefer
  <2>. QED
    BY <1>1, <2>2, <2>3, <2>4
<1>3. CASE u.user # <<>>
  <2>1. PICK s \in Seq(Tokens) :
              /\ U = s \o <<"@">> /\ At("@", s) = {} /\ At("?", s) = {}
              /\ IF u.pass = <<>> THEN s = u.user[1] /\ At(":", s) = {}
                 ELSE /\ At(":", s) # {}
                      /\ Before(":", s) = u.user[1] /\ After(":", s) = u.pass[1]
    BY <1>3, UserIsSpelled
  <2>2. "@" \in Tokens /\ <<"@">> \in Seq(Tokens) /\ At("?", <<"@">>) = {}
    BY WordsAreNoDelimiters, OneToken
  <2>3. U \in Seq(Tokens) /\ At("?", U) = {}
    <3>. DEFINE k == <<"@">>
    <3>1. U = s \o k /\ k \in Seq(Tokens) /\ At("?", k) = {} /\ At("?", s) = {}
      BY <2>1, <2>2
    <3>. HIDE DEF k, U
    <3>2. s \o k \in Seq(Tokens) /\ At("?", s \o k) = {}
      BY <3>1, NoneInBoth
    <3>. QED
      BY <3>1, <3>2
  <2>4. At("@", text) # {} /\ Before("@", text) = s /\ After("@", text) = h
    <3>1. text = (s \o <<"@">>) \o h /\ "@" \in Tokens /\ At("@", s) = {} /\ h \in Seq(Tokens)
      BY <1>0, <2>1, <2>2
    <3>. HIDE DEF text
    <3>2. LET t == (s \o <<"@">>) \o h
          IN  At("@", t) # {} /\ Before("@", t) = s /\ After("@", t) = h
      BY <3>1, SplitAt
    <3>. QED
      BY <3>1, <3>2
  <2>. HIDE DEF U, text
  <2>5. WithUser(c, text) =
          IF At(":", s) = {} THEN [c EXCEPT !.username = s]
          ELSE [c EXCEPT !.username = Before(":", s), !.password = After(":", s)]
    BY <2>4 DEF WithUser
  <2>6. Prefer(u.user, info.username) = u.user[1]
    BY <1>3 DEF Prefer
  <2>7. Prefer(u.pass, info.password) = IF u.pass = <<>> THEN info.password ELSE u.pass[1]
    BY DEF Prefer
  <2>. HIDE DEF c
  <2>8. WithUser(c, text) = Configured(scheme, c.host, c.port, Prefer(u.user, info.username),
                                       Prefer(u.pass, info.password), info.index)
    <3>1. CASE u.pass = <<>>
      <4>1. WithUser(c, text) = [c EXCEPT !.username = u.user[1]]
        BY <2>1, <2>5, <3>1
      <4>. QED
        BY <1>1, <2>6, <2>7, <3>1, <4>1 DEF Configured
    <3>2. CASE u.pass # <<>>
      <4>1. WithUser(c, text) = [c EXCEPT !.username = u.user[1], !.password = u.pass[1]]
        BY <2>1, <2>5, <3>2
      <4>. DEFINE user == u.user[1]
                  pass == u.pass[1]
      <4>2. Prefer(u.pass, info.password) = pass /\ Prefer(u.user, info.username) = user
        BY <2>6, <2>7, <3>2
      <4>3. WithUser(c, text) = [c EXCEPT !.username = user, !.password = pass]
        BY <4>1
      <4>. HIDE DEF user, pass
      <4>4. [c EXCEPT !.username = user, !.password = pass]
              = Configured(scheme, c.host, c.port, user, pass, info.index)
        <5>. DEFINE host == c.host
                    port == c.port
        <5>1. c = Configured(scheme, host, port, info.username, info.password, info.index)
          BY <1>1
        <5>. HIDE DEF host, port
        <5>2. [c EXCEPT !.username = user, !.password = pass]
                = Configured(scheme, host, port, user, pass, info.index)
          <6>. DEFINE d == [c EXCEPT !.username = user]
          <6>1. d = Configured(scheme, host, port, user, info.password, info.index)
            BY <5>1 DEF Configured
          <6>2. [c EXCEPT !.username = user, !.password = pass] = [d EXCEPT !.password = pass]
            OBVIOUS
          <6>. HIDE DEF d
          <6>3. [d EXCEPT !.password = pass] = Configured(scheme, host, port, user, pass, info.index)
            BY <6>1 DEF Configured
          <6>. QED
            BY <6>2, <6>3
        <5>. QED
          BY <5>2 DEF host, port
      <4>. QED
        BY <4>2, <4>3, <4>4
    <3>. QED
      BY <3>1, <3>2
  <2>. QED
    BY <2>3, <2>4, <2>8 DEF U, text, c
<1>. QED
  BY <1>2, <1>3

\* The conditions of Spellable on the host and the port.
LEMMA BothFree ==
    ASSUME NEW u, NEW a, NEW b, Free(u, a), Free(u, b)
    PROVE  Free(u, a \o b)
<1>1. a \in Seq(Tokens) /\ b \in Seq(Tokens) /\ At("?", a) = {} /\ At("?", b) = {}
  BY DEF Free
<1>2. a \o b \in Seq(Tokens) /\ At("?", a \o b) = {}
  BY <1>1, NoneInBoth
<1>3. u.user = <<>> => At("@", a \o b) = {}
  <2>. SUFFICES ASSUME u.user = <<>> PROVE At("@", a \o b) = {}
    OBVIOUS
  <2>1. At("@", a) = {} /\ At("@", b) = {}
    BY DEF Free
  <2>. QED
    BY <1>1, <2>1, NoneInBoth
<1>. QED
  BY <1>2, <1>3 DEF Free

LEMMA FreeTokens ==
    ASSUME NEW u
    PROVE  Free(u, <<>>) /\ \A d \in {":", "[", "]"} : Free(u, <<d>>)
<1>1. Free(u, <<>>)
  BY NoTokens DEF Free
<1>2. ASSUME NEW d \in {":", "[", "]"} PROVE Free(u, <<d>>)
  <2>1. d \in Tokens /\ "?" # d /\ "@" # d
    BY WordsAreNoDelimiters
  <2>. HIDE DEF Free
  <2>2. <<d>> \in Seq(Tokens) /\ At("?", <<d>>) = {} /\ At("@", <<d>>) = {}
    BY <2>1, OneToken
  <2>. QED
    BY <2>2 DEF Free
<1>. QED
  BY <1>1, <1>2

\* A bracket opens the host that is not closed.
Opened(u) == ~u.ipv6 /\ u.host # <<>> /\ u.host[1] = "["

\* Neither host nor port can be read.
NoAddress(u) == ~u.ipv6 /\ ((u.host = <<>> /\ u.port = <<>>) \/ Opened(u))

LEMMA AddressParts ==
    ASSUME NEW u, AddressGiven(u)
    PROVE  /\ Free(u, u.host) /\ Free(u, u.trailing)
           /\ u.trailing # <<>> => u.ipv6 /\ u.trailing[1] # ":" /\ u.port = <<>>
           /\ u.port # <<>> => Free(u, u.port[1])
           /\ u.ipv6 => At("]", u.host) = {}
           /\ ~u.ipv6 => At(":", u.host) = {}
           /\ Opened(u) => At("]", u.host) = {} /\ (u.port # <<>> => At("]", u.port[1]) = {})
<1>. DEFINE ended == IF u.user = <<>> THEN {"@", "?"} ELSE {"?"}
            more == IF Opened(u) THEN {"]"} ELSE {}
            own == IF u.ipv6 THEN {"]"} ELSE {":"}
<1>1. /\ Plain(u.host, ended \cup own \cup more) /\ Plain(u.trailing, ended)
      /\ u.trailing # <<>> => u.ipv6 /\ u.trailing[1] # ":" /\ u.port = <<>>
      /\ PlainIfGiven(u.port, ended \cup more)
  BY DEF AddressGiven, Opened
<1>2. "?" \in ended /\ (u.user = <<>> => "@" \in ended)
  OBVIOUS
<1>3. (Opened(u) => "]" \in more) /\ (u.ipv6 => "]" \in own) /\ (~u.ipv6 => ":" \in own)
  OBVIOUS
<1>. HIDE DEF ended, more, own
<1>4. u.host \in Seq(Tokens) /\ \A d \in ended \cup own \cup more : At(d, u.host) = {}
  BY <1>1 DEF Plain
<1>5. u.trailing \in Seq(Tokens) /\ \A d \in ended : At(d, u.trailing) = {}
  BY <1>1 DEF Plain
<1>6. u.port # <<>> => u.port[1] \in Seq(Tokens) /\ \A d \in ended \cup more : At(d, u.port[1]) = {}
  BY <1>1, PartIsGiven
<1>7. Free(u, u.host)
  BY <1>2, <1>4 DEF Free
<1>8. Free(u, u.trailing)
  BY <1>2, <1>5 DEF Free
<1>9. u.port # <<>> => Free(u, u.port[1])
  BY <1>2, <1>6 DEF Free
<1>10. (u.ipv6 => At("]", u.host) = {}) /\ (~u.ipv6 => At(":", u.host) = {})
  BY <1>3, <1>4
<1>11. Opened(u) => At("]", u.host) = {} /\ (u.port # <<>> => At("]", u.port[1]) = {})
  BY <1>3, <1>4, <1>6
<1>. QED
  BY <1>1, <1>7, <1>8, <1>9, <1>10, <1>11

LEMMA PortIsSpelled ==
    ASSUME NEW u, AddressGiven(u)
    PROVE  /\ Free(u, Spell(u.port, <<":">>))
           /\ Spell(u.port, <<":">>) = IF u.port = <<>> THEN <<>> ELSE <<":">> \o u.port[1]
           /\ u.port # <<>> => /\ u.port[1] \in Seq(Tokens)
                               /\ <<":">> \o u.port[1] # <<>>
                               /\ (<<":">> \o u.port[1])[1] = ":"
                               /\ Tail(<<":">> \o u.port[1]) = u.port[1]
           /\ Opened(u) => At("]", Spell(u.port, <<":">>)) = {}
<1>. DEFINE P == Spell(u.port, <<":">>)
            k == <<":">>
            p == u.port[1]
<1>1. P = IF u.port = <<>> THEN <<>> ELSE k \o p
  BY DEF Spell
<1>2. Free(u, k) /\ Free(u, <<>>) /\ ":" \in Tokens /\ k \in Seq(Tokens) /\ At("]", k) = {}
  BY FreeTokens, WordsAreNoDelimiters, OneToken
<1>3. /\ u.port # <<>> => Free(u, p)
      /\ Opened(u) => (u.port # <<>> => At("]", p) = {})
  BY AddressParts
<1>4. CASE u.port = <<>>
  <2>1. P = <<>> /\ At("]", <<>>) = {}
    BY <1>1, <1>4, NoTokens
  <2>. QED
    BY <1>2, <1>4, <2>1
<1>5. CASE u.port # <<>>
  <2>1. P = k \o p /\ Free(u, p) /\ p \in Seq(Tokens)
    BY <1>1, <1>3, <1>5 DEF Free
  <2>2. k \o p # <<>> /\ (k \o p)[1] = ":" /\ Tail(k \o p) = p
    <3>. HIDE DEF p
    <3>1. LET t == <<":">> \o p IN t # <<>> /\ t[1] = ":" /\ Tail(t) = p
      BY <1>2, <2>1, TailOfRest
    <3>. QED
      BY <3>1
  <2>. HIDE DEF k, p, P
  <2>3. Free(u, k \o p)
    BY <1>2, <2>1, BothFree
  <2>4. Opened(u) => At("]", k \o p) = {}
    <3>. SUFFICES ASSUME Opened(u) PROVE At("]", k \o p) = {}
      OBVIOUS
    <3>1. At("]", p) = {}
      BY <1>3, <1>5
    <3>. QED
      BY <1>2, <2>1, <3>1, NoneInBoth
  <2>. QED
    BY <1>5, <2>1, <2>2, <2>3, <2>4 DEF k, p, P
<1>. QED
  BY <1>4, <1>5

LEMMA JoinedTwice ==
    ASSUME NEW a \in Seq(Tokens), NEW b \in Seq(Tokens), NEW c \in Seq(Tokens)
    PROVE  a \o (b \o c) = (a \o b) \o c
BY ConcatAssociative

\* A text in brackets, and what follows them.
LEMMA BracketsAreRead ==
    ASSUME NEW x \in Seq(Tokens), At("]", x) = {}, NEW rest \in Seq(Tokens), NEW c
    PROVE  WithAddress(c, (<<"[">> \o x \o <<"]">>) \o rest)
             = IF rest # <<>> /\ rest[1] = ":"
               THEN WithPort([c EXCEPT !.host = x], Tail(rest))
               ELSE Config([c EXCEPT !.host = x])
<1>. DEFINE l == <<"[">>
            r == <<"]">>
            g == l \o x
            h == (g \o r) \o rest
            d == [c EXCEPT !.host = x]
<1>1. l \in Seq(Tokens) /\ At("]", l) = {} /\ r \in Seq(Tokens) /\ "]" \in Tokens /\ "[" \in Tokens
  BY WordsAreNoDelimiters, OneToken
<1>2. Tail(g) = x /\ g[1] = "[" /\ g # <<>>
  <2>1. LET t == <<"[">> \o x IN t # <<>> /\ t[1] = "[" /\ Tail(t) = x
    BY <1>1, TailOfRest
  <2>. QED
    BY <2>1
<1>. HIDE DEF l
<1>3. g \in Seq(Tokens) /\ At("]", g) = {}
  BY <1>1, NoneInBoth
<1>. HIDE DEF g
<1>4. h # <<>> /\ At("]", h) # {} /\ Before("]", h) = g /\ After("]", h) = rest
  <2>1. LET t == (g \o <<"]">>) \o rest
        IN  t # <<>> /\ At("]", t) # {} /\ Before("]", t) = g /\ After("]", t) = rest
    BY <1>1, <1>3, SplitAt
  <2>. QED
    BY <2>1
<1>. HIDE DEF r
<1>5. g \o r \in Seq(Tokens) /\ Len(g) \in Nat /\ Len(g) >= 1 /\ Len(g \o r) >= 1 /\ (g \o r)[1] = g[1]
      /\ Len(g \o r) \in Nat
  <2>1. Len(g) \in Nat /\ Len(g) # 0
    BY <1>2, <1>3, EmptySeq
  <2>2. /\ g \o r \in Seq(Tokens) /\ Len(r) \in Nat /\ Len(g \o r) = Len(g) + Len(r)
        /\ \A i \in 1 .. Len(g) : (g \o r)[i] = g[i]
    BY <1>1, <1>3, Joined
  <2>. QED
    BY <2>1, <2>2
<1>6. h[1] = "["
  <2>1. \A i \in 1 .. Len(g \o r) : ((g \o r) \o rest)[i] = (g \o r)[i]
    BY <1>5, Joined
  <2>. QED
    BY <1>2, <1>5, <2>1
<1>. HIDE DEF h
<1>7. WithAddress(c, h) = IF rest # <<>> /\ rest[1] = ":" THEN WithPort(d, Tail(rest)) ELSE Config(d)
  BY <1>2, <1>4, <1>6 DEF WithAddress
<1>. QED
  BY <1>7 DEF h, g, r, l

\* A text without brackets, alone or before a port.
LEMMA NameIsRead ==
    ASSUME NEW x \in Seq(Tokens), At(":", x) = {}, NEW c, x # <<>> => x[1] # "["
    PROVE  /\ x # <<>> => WithAddress(c, x) = Config([c EXCEPT !.host = x])
           /\ \A p \in Seq(Tokens) :
                 WithAddress(c, x \o (<<":">> \o p)) = WithPort([c EXCEPT !.host = x], p)
<1>1. ASSUME x # <<>> PROVE WithAddress(c, x) = Config([c EXCEPT !.host = x])
  BY <1>1 DEF WithAddress
<1>2. ASSUME NEW p \in Seq(Tokens)
      PROVE  WithAddress(c, x \o (<<":">> \o p)) = WithPort([c EXCEPT !.host = x], p)
  <2>. DEFINE k == <<":">>
              h == x \o (k \o p)
  <2>1. ":" \in Tokens /\ k \in Seq(Tokens)
    BY WordsAreNoDelimiters, OneToken
  <2>2. /\ (x \o k) \o p # <<>> /\ At(":", (x \o k) \o p) # {}
        /\ Before(":", (x \o k) \o p) = x /\ After(":", (x \o k) \o p) = p
    <3>1. LET t == (x \o <<":">>) \o p
          IN  t # <<>> /\ At(":", t) # {} /\ Before(":", t) = x /\ After(":", t) = p
      BY <2>1, SplitAt
    <3>. QED
      BY <3>1
  <2>3. (k \o p)[1] = ":" /\ k \o p \in Seq(Tokens)
    <3>1. LET t == <<":">> \o p IN t[1] = ":"
      BY <2>1, TailOfRest
    <3>2. k \o p \in Seq(Tokens)
      <4>. HIDE DEF k
      <4>. QED
        BY <2>1, ConcatProperties
    <3>. QED
      BY <3>1, <3>2
  <2>. HIDE DEF k
  <2>4. x \o (k \o p) = (x \o k) \o p
    <3>. HIDE DEF h
    <3>1. x \in Seq(Tokens) /\ k \in Seq(Tokens) /\ p \in Seq(Tokens)
      BY <2>1
    <3>. QED
      BY <3>1, JoinedTwice
  <2>5. h[1] # "["
    <3>1. CASE x = <<>>
      <4>1. h = k \o p
        BY <2>3, <3>1, NoTokens
      <4>. QED
        BY <2>3, <4>1
    <3>2. CASE x # <<>>
      <4>1. \A i \in 1 .. Len(x) : (x \o (k \o p))[i] = x[i]
        BY <2>3, Joined
      <4>2. 1 \in 1 .. Len(x)
        <5>1. Len(x) \in Nat /\ Len(x) # 0
          BY <3>2, EmptySeq
        <5>. QED
          BY <5>1
      <4>. QED
        BY <3>2, <4>1, <4>2
    <3>. QED
      BY <3>1, <3>2
  <2>6. h # <<>> /\ At(":", h) # {} /\ Before(":", h) = x /\ After(":", h) = p
    BY <2>2, <2>4
  <2>. HIDE DEF h
  <2>7. WithAddress(c, h) = WithPort([c EXCEPT !.host = x], p)
    BY <2>5, <2>6 DEF WithAddress
  <2>. QED
    BY <2>7 DEF h, k
<1>. QED
  BY <1>1, <1>2

\* The host, and the port if there is one.
LEMMA AddressIsRead ==
    ASSUME NEW u, AddressGiven(u), NEW c
    PROVE  LET h == SpelledHost(u) \o Spell(u.port, <<":">>)
           IN  /\ Free(u, SpelledHost(u)) /\ Free(u, Spell(u.port, <<":">>)) /\ Free(u, h)
               /\ WithAddress(c, h)
                    = IF NoAddress(u) THEN Invalid
                      ELSE IF u.port = <<>> THEN Config([c EXCEPT !.host = u.host])
                      ELSE WithPort([c EXCEPT !.host = u.host], u.port[1])
<1>. DEFINE H == SpelledHost(u)
            P == Spell(u.port, <<":">>)
            h == H \o P
            x == u.host
            t == u.trailing
            p == u.port[1]
            d == [c EXCEPT !.host = x]
<1>1. /\ Free(u, x) /\ Free(u, t)
      /\ t # <<>> => u.ipv6 /\ t[1] # ":" /\ u.port = <<>>
      /\ u.ipv6 => At("]", x) = {}
      /\ ~u.ipv6 => At(":", x) = {}
      /\ Opened(u) => At("]", x) = {}
  BY AddressParts
<1>2. /\ Free(u, P) /\ P = IF u.port = <<>> THEN <<>> ELSE <<":">> \o p
      /\ u.port # <<>> => /\ p \in Seq(Tokens) /\ <<":">> \o p # <<>>
                          /\ (<<":">> \o p)[1] = ":" /\ Tail(<<":">> \o p) = p
      /\ Opened(u) => At("]", P) = {}
  BY PortIsSpelled
<1>3. x \in Seq(Tokens) /\ t \in Seq(Tokens) /\ P \in Seq(Tokens)
  BY <1>1, <1>2 DEF Free
<1>4. CASE u.ipv6
  <2>. DEFINE l == <<"[">>
              r == <<"]">>
              b == l \o x \o r
              rest == t \o P
  <2>1. H = b \o t
    BY <1>4 DEF SpelledHost
  <2>2. Free(u, l) /\ Free(u, r)
    BY FreeTokens
  <2>3. Free(u, b)
    <3>. HIDE DEF l, r
    <3>1. Free(u, l \o x)
      BY <1>1, <2>2, BothFree
    <3>. QED
      BY <2>2, <3>1, BothFree
  <2>4. b \in Seq(Tokens)
    BY <2>3 DEF Free
  <2>5. ~NoAddress(u)
    BY <1>4 DEF NoAddress, Opened
  <2>6. WithAddress(c, b \o rest)
          = IF rest # <<>> /\ rest[1] = ":" THEN WithPort(d, Tail(rest)) ELSE Config(d)
    <3>1. rest \in Seq(Tokens)
      <4>. HIDE DEF t, P
      <4>. QED
        BY <1>3, ConcatProperties
    <3>2. At("]", x) = {}
      BY <1>1, <1>4
    <3>. HIDE DEF x, rest
    <3>3. WithAddress(c, (<<"[">> \o x \o <<"]">>) \o rest)
            = IF rest # <<>> /\ rest[1] = ":"
              THEN WithPort([c EXCEPT !.host = x], Tail(rest)) ELSE Config([c EXCEPT !.host = x])
      BY <1>3, <3>1, <3>2, BracketsAreRead
    <3>. QED
      BY <3>3
  <2>7. IF rest # <<>> /\ rest[1] = ":" THEN u.port # <<>> /\ Tail(rest) = p ELSE u.port = <<>>
    <3>1. CASE t # <<>>
      <4>1. rest = t
        BY <1>1, <1>2, <1>3, <3>1, NoTokens
      <4>. QED
        BY <1>1, <3>1, <4>1
    <3>2. CASE t = <<>>
      <4>1. rest = P
        BY <1>3, <3>2, NoTokens
      <4>. HIDE DEF P, p, rest
      <4>. QED
        BY <1>2, <4>1
    <3>. QED
      BY <3>1, <3>2
  <2>. HIDE DEF b, rest, d
  <2>8. WithAddress(c, b \o rest) = IF u.port = <<>> THEN Config(d) ELSE WithPort(d, p)
    BY <2>6, <2>7
  <2>9. h = b \o rest /\ Free(u, H) /\ Free(u, h)
    <3>. HIDE DEF t, P, H
    <3>1. (b \o t) \o P = b \o (t \o P)
      BY <1>3, <2>4, ConcatAssociative
    <3>2. Free(u, H)
      BY <1>1, <2>1, <2>3, BothFree
    <3>3. Free(u, H \o P)
      BY <1>2, <3>2, BothFree
    <3>. QED
      BY <2>1, <3>1, <3>2, <3>3 DEF rest
  <2>. HIDE DEF h, H, P
  <2>. QED
    BY <1>2, <2>5, <2>8, <2>9 DEF h, H, P, d
<1>5. CASE ~u.ipv6
  <2>1. H = x
    BY <1>5 DEF SpelledHost
  <2>2. Free(u, H) /\ Free(u, h)
    <3>. HIDE DEF x, P, H
    <3>. QED
      BY <1>1, <1>2, <2>1, BothFree
  <2>3. h = x \o P
    BY <2>1
  <2>4. WithAddress(c, h) = IF NoAddress(u) THEN Invalid
                            ELSE IF u.port = <<>> THEN Config(d) ELSE WithPort(d, p)
    <3>1. CASE Opened(u)
      <4>1. NoAddress(u) /\ x # <<>> /\ x[1] = "["
        BY <1>5, <3>1 DEF NoAddress, Opened
      <4>2. At("]", x) = {} /\ At("]", P) = {}
        BY <1>1, <1>2, <3>1
      <4>. HIDE DEF x, P, h
      <4>3. At("]", x \o P) = {}
        BY <1>3, <4>2, NoneInBoth
      <4>4. /\ Len(x) \in Nat /\ Len(P) \in Nat /\ Len(x \o P) = Len(x) + Len(P)
            /\ \A i \in 1 .. Len(x) : (x \o P)[i] = x[i]
        BY <1>3, Joined
      <4>5. Len(x) # 0
        BY <1>3, <4>1, EmptySeq
      <4>6. (x \o P)[1] = "[" /\ x \o P # <<>>
        <5>1. 1 \in 1 .. Len(x) /\ Len(x \o P) # 0
          BY <4>4, <4>5
        <5>. QED
          BY <4>1, <4>4, <5>1
      <4>7. WithAddress(c, h) = Invalid
        BY <2>3, <4>3, <4>6 DEF WithAddress
      <4>. QED
        BY <4>1, <4>7
    <3>2. CASE ~Opened(u)
      <4>1. (x # <<>> => x[1] # "[") /\ At(":", x) = {}
        BY <1>1, <1>5, <3>2 DEF Opened
      <4>2. NoAddress(u) <=> x = <<>> /\ u.port = <<>>
        BY <1>5, <3>2 DEF NoAddress
      <4>3. CASE u.port = <<>>
        <5>1. h = x
          BY <1>2, <1>3, <2>3, <4>3, NoTokens
        <5>2. CASE x = <<>>
          BY <4>2, <4>3, <5>1, <5>2 DEF WithAddress
        <5>3. CASE x # <<>>
          <6>1. WithAddress(c, x) = Config(d)
            <7>. HIDE DEF x
            <7>1. WithAddress(c, x) = Config([c EXCEPT !.host = x])
              BY <1>3, <4>1, <5>3, NameIsRead
            <7>. QED
              BY <7>1
          <6>. QED
            BY <4>2, <4>3, <5>1, <5>3, <6>1
        <5>. QED
          BY <5>2, <5>3
      <4>4. CASE u.port # <<>>
        <5>1. h = x \o (<<":">> \o p) /\ p \in Seq(Tokens)
          BY <1>2, <2>3, <4>4
        <5>2. WithAddress(c, x \o (<<":">> \o p)) = WithPort(d, p)
          <6>. HIDE DEF x, p
          <6>1. \A q \in Seq(Tokens) :
                   WithAddress(c, x \o (<<":">> \o q)) = WithPort([c EXCEPT !.host = x], q)
            BY <1>3, <4>1, NameIsRead
          <6>. QED
            BY <5>1, <6>1
        <5>. QED
          BY <4>2, <4>4, <5>1, <5>2
      <4>. QED
        BY <4>3, <4>4
    <3>. QED
      BY <3>1, <3>2
  <2>. HIDE DEF h, H, P
  <2>. QED
    BY <1>2, <2>2, <2>4 DEF h, H, P
<1>. QED
  BY <1>4, <1>5

-----------------------------------------------------------------------------
(* A URL.                                                                   *)

\* The parameters are such as the parser takes.
Listed(u) == \A i \in DOMAIN u.params :
                /\ u.params[i].key # "db"
                /\ u.params[i].key = "index" => IsIndex(u.params[i].value)

\* What the code makes of a spelled URL, of whatever form.
UrlRead(u) ==
    IF Unreadable(u) THEN Invalid
    ELSE IF u.scheme = "unix" THEN Config(Meant(u, 0))
    ELSE IF u.port = <<>> THEN Config(Meant(u, DEFAULT_PORT))
    ELSE WithPort(Meant(u, DEFAULT_PORT), u.port[1])

LEMMA WhatIsUnreadable ==
    ASSUME NEW u
    PROVE  /\ u.scheme = "unix" =>
                 (Unreadable(u) <=> ~Listed(u) \/ u.path = <<>> \/ u.path[1] # "/")
           /\ u.scheme \in {"tcp", "redis"} => (Unreadable(u) <=> ~Listed(u) \/ NoAddress(u))
           /\ u.scheme \notin {"tcp", "redis", "unix"} => Unreadable(u)
<1>. DEFINE strange == \E i \in DOMAIN u.params :
                          \/ u.params[i].key = "db"
                          \/ u.params[i].key = "index" /\ ~IsIndex(u.params[i].value)
<1>1. strange <=> ~Listed(u)
  BY DEF Listed
<1>2. Unreadable(u) <=>
        \/ u.scheme \notin {"tcp", "redis", "unix"}
        \/ strange
        \/ u.scheme = "unix" /\ (u.path = <<>> \/ u.path[1] # "/")
        \/ u.scheme # "unix" /\ NoAddress(u)
  BY DEF Unreadable, NoAddress, Opened
<1>. HIDE DEF strange
<1>. QED
  BY <1>1, <1>2

LEMMA WhatIsMeant ==
    ASSUME NEW u, NEW port
    PROVE  Meant(u, port) =
             Configured(u.scheme, IF u.scheme = "unix" THEN u.path ELSE u.host, port,
                        IF u.scheme = "unix" THEN Says(u, {"username"}, <<>>)
                        ELSE Prefer(u.user, Says(u, {"username"}, <<>>)),
                        IF u.scheme = "unix" THEN Says(u, {"password", "auth"}, <<>>)
                        ELSE Prefer(u.pass, Says(u, {"password", "auth"}, <<>>)),
                        IndexOf[Says(u, {"index"}, <<"0">>)[1]])
BY DEF Meant, Configured

LEMMA UrlIsRead ==
    ASSUME NEW u, Spellable(u)
    PROVE  parse_redis_url(Spelled(u)) = UrlRead(u)
<1>. DEFINE url == Spelled(u)
            tcp == u.scheme # "unix"
            U == SpelledUser(u)
            H == SpelledHost(u)
            P == Spell(u.port, <<":">>)
            h == H \o P
            a == IF tcp THEN (U \o H) \o P ELSE u.path
            info == parse_query_params(QueryOf(url.text))
            said == SaidInfo(u)
            known == u.scheme \in {"tcp", "redis", "unix"}
            username == Says(u, {"username"}, <<>>)
            password == Says(u, {"password", "auth"}, <<>>)
            index == IndexOf[Says(u, {"index"}, <<"0">>)[1]]
<1>1. /\ FewParameters(u) /\ (~tcp => Plain(u.path, {"?"}))
      /\ (tcp => UserGiven(u) /\ AddressGiven(u))
  BY DEF Spellable, FewParameters
<1>2. tcp => /\ Free(u, h) /\ h \in Seq(Tokens) /\ At("?", h) = {}
             /\ U \in Seq(Tokens) /\ At("?", U) = {}
             /\ a = U \o h
  <2>. SUFFICES ASSUME tcp
       PROVE  /\ Free(u, h) /\ h \in Seq(Tokens) /\ At("?", h) = {}
              /\ U \in Seq(Tokens) /\ At("?", U) = {}
              /\ a = U \o h
    OBVIOUS
  <2>1. Free(u, h) /\ Free(u, H) /\ Free(u, P)
    BY <1>1, AddressIsRead
  <2>2. h \in Seq(Tokens) /\ At("?", h) = {}
    <3>. HIDE DEF h
    <3>. QED
      BY <2>1 DEF Free
  <2>3. H \in Seq(Tokens) /\ P \in Seq(Tokens)
    <3>. HIDE DEF H, P
    <3>. QED
      BY <2>1 DEF Free
  <2>4. U \in Seq(Tokens) /\ At("?", U) = {}
    BY <1>1, <2>1, UserIsRead
  <2>5. (U \o H) \o P = U \o (H \o P)
    <3>. HIDE DEF U, H, P
    <3>. QED
      BY <2>3, <2>4, ConcatAssociative
  <2>. QED
    BY <2>1, <2>2, <2>4, <2>5
<1>3. a \in Seq(Tokens) /\ At("?", a) = {}
  <2>1. CASE tcp
    <3>1. /\ h \in Seq(Tokens) /\ At("?", h) = {} /\ U \in Seq(Tokens) /\ At("?", U) = {}
          /\ a = U \o h
      BY <1>2, <2>1
    <3>. HIDE DEF a, U, h
    <3>. QED
      BY <3>1, NoneInBoth
  <2>2. CASE ~tcp
    BY <1>1, <2>2 DEF Plain
  <2>. QED
    BY <2>1, <2>2
<1>4. url.scheme = u.scheme /\ url.text = a \o SpelledQuery(u.params)
  BY DEF Spelled
<1>. HIDE DEF a
<1>5. TextOf(url.text) = a /\ info = said
  <2>1. TextOf(a \o SpelledQuery(u.params)) = a
    BY <1>1, <1>3, QueryIsSplit
  <2>2. parse_query_params(QueryOf(a \o SpelledQuery(u.params))) = SaidInfo(u)
    BY <1>1, <1>3, QueryIsSplit
  <2>. HIDE DEF url
  <2>. QED
    BY <1>4, <2>1, <2>2
<1>6. parse_redis_url(url) =
        IF ~known \/ ~said.ok THEN Invalid
        ELSE IF ~tcp
        THEN IF a = <<>> \/ a[1] # "/" THEN Invalid
             ELSE Config([redis_config(u.scheme, said.config) EXCEPT !.host = a])
        ELSE WithAddress(WithUser(redis_config(u.scheme, said.config), a),
                         IF At("@", a) = {} THEN a ELSE After("@", a))
  <2>. DEFINE split == At("?", url.text) # {}
              text == IF split THEN Before("?", url.text) ELSE url.text
              query == IF split THEN After("?", url.text) ELSE <<>>
              read == parse_query_params(query)
  <2>1. text = a /\ read = said
    BY <1>5 DEF TextOf, QueryOf
  <2>2. parse_redis_url(url) =
          IF url.scheme \notin {"tcp", "redis", "unix"} \/ ~read.ok THEN Invalid
          ELSE IF url.scheme = "unix"
          THEN IF text = <<>> \/ text[1] # "/" THEN Invalid
               ELSE Config([redis_config(url.scheme, read.config) EXCEPT !.host = text])
          ELSE WithAddress(WithUser(redis_config(url.scheme, read.config), text),
                           IF At("@", text) = {} THEN text ELSE After("@", text))
    BY DEF parse_redis_url
  <2>. HIDE DEF url, text, read, said
  <2>. QED
    BY <1>4, <2>1, <2>2
<1>. HIDE DEF url
<1>7. said = IF Listed(u)
             THEN Config([username |-> username, password |-> password, index |-> index])
             ELSE Invalid
  BY DEF SaidInfo, Listed
<1>8. /\ ~tcp => (Unreadable(u) <=> ~Listed(u) \/ u.path = <<>> \/ u.path[1] # "/")
      /\ tcp /\ known => (Unreadable(u) <=> ~Listed(u) \/ NoAddress(u))
      /\ ~known => Unreadable(u)
  BY WhatIsUnreadable
<1>. HIDE DEF known, username, password, index
<1>9. CASE ~known \/ ~Listed(u)
  <2>1. ~Listed(u) => ~said.ok
    BY <1>7 DEF Invalid, Rejected
  <2>2. parse_redis_url(url) = Invalid
    BY <1>6, <1>9, <2>1
  <2>3. Unreadable(u)
    BY <1>8, <1>9
  <2>. QED
    BY <2>2, <2>3 DEF url, UrlRead
<1>10. CASE known /\ Listed(u)
  <2>. DEFINE i == [username |-> username, password |-> password, index |-> index]
              c == redis_config(u.scheme, i)
  <2>1. said.ok /\ said.config = i
    BY <1>7, <1>10 DEF Config
  <2>. HIDE DEF said
  <2>2. parse_redis_url(url) =
          IF ~tcp
          THEN IF a = <<>> \/ a[1] # "/" THEN Invalid ELSE Config([c EXCEPT !.host = a])
          ELSE WithAddress(WithUser(c, a), IF At("@", a) = {} THEN a ELSE After("@", a))
    BY <1>6, <1>10, <2>1
  <2>3. CASE ~tcp
    <3>1. a = u.path /\ u.scheme = "unix"
      BY <2>3 DEF a
    <3>2. [c EXCEPT !.host = a] = Configured(u.scheme, u.path, 0, username, password, index)
      BY <3>1 DEF redis_config, Configured
    <3>3. Meant(u, 0) = Configured(u.scheme, u.path, 0, username, password, index)
      BY <3>1, WhatIsMeant DEF username, password, index
    <3>4. Unreadable(u) <=> a = <<>> \/ a[1] # "/"
      BY <1>8, <1>10, <2>3, <3>1
    <3>. HIDE DEF c
    <3>. QED
      BY <2>2, <2>3, <3>1, <3>2, <3>3, <3>4 DEF url, UrlRead
  <2>4. CASE tcp
    <3>. DEFINE user == Prefer(u.user, username)
                pass == Prefer(u.pass, password)
                b == Configured(u.scheme, c.host, c.port, user, pass, index)
                m == Meant(u, DEFAULT_PORT)
    <3>1. i.username = username /\ i.password = password /\ i.index = index
      OBVIOUS
    <3>2. WithUser(c, a) = b /\ (IF At("@", a) = {} THEN a ELSE After("@", a)) = h
      <4>1. Free(u, h) /\ UserGiven(u) /\ a = U \o h
        BY <1>1, <1>2, <2>4
      <4>. DEFINE scheme == u.scheme
                  text == U \o h
                  e == redis_config(scheme, i)
      <4>. HIDE DEF h, i, scheme
      <4>2. /\ (IF At("@", text) = {} THEN text ELSE After("@", text)) = h
            /\ WithUser(e, text)
                 = Configured(scheme, e.host, e.port, Prefer(u.user, i.username),
                              Prefer(u.pass, i.password), i.index)
        BY <4>1, UserIsRead
      <4>3. e = c /\ text = a
        BY <4>1 DEF scheme
      <4>. HIDE DEF e, text, c, U
      <4>4. /\ (IF At("@", a) = {} THEN a ELSE After("@", a)) = h
            /\ WithUser(c, a)
                 = Configured(scheme, c.host, c.port, Prefer(u.user, i.username),
                              Prefer(u.pass, i.password), i.index)
        BY <4>2, <4>3
      <4>. QED
        BY <3>1, <4>4 DEF scheme
    <3>3. parse_redis_url(url) = WithAddress(b, h)
      BY <2>2, <2>4, <3>2
    <3>4. WithAddress(b, h) = IF NoAddress(u) THEN Invalid
                              ELSE IF u.port = <<>> THEN Config([b EXCEPT !.host = u.host])
                              ELSE WithPort([b EXCEPT !.host = u.host], u.port[1])
      BY <1>1, <2>4, AddressIsRead
    <3>5. c.port = DEFAULT_PORT
      BY <2>4 DEF redis_config
    <3>6. [b EXCEPT !.host = u.host] = m
      <4>1. m = Configured(u.scheme, u.host, DEFAULT_PORT, user, pass, index)
        BY <2>4, WhatIsMeant DEF username, password, index
      <4>. DEFINE scheme == u.scheme
                  host == c.host
                  port == c.port
                  x == u.host
      <4>2. port = DEFAULT_PORT
        BY <3>5
      <4>3. b = Configured(scheme, host, port, user, pass, index)
        OBVIOUS
      <4>. HIDE DEF b, scheme, host, port, x, user, pass
      <4>4. [b EXCEPT !.host = x] = Configured(scheme, x, port, user, pass, index)
        BY <4>3 DEF Configured
      <4>5. m = Configured(scheme, x, DEFAULT_PORT, user, pass, index)
        BY <4>1 DEF scheme, x
      <4>. HIDE DEF m
      <4>. QED
        BY <4>2, <4>4, <4>5 DEF x
    <3>7. Unreadable(u) <=> NoAddress(u)
      BY <1>8, <1>10, <2>4
    <3>. HIDE DEF b, m, h
    <3>8. parse_redis_url(url) = IF NoAddress(u) THEN Invalid
                                 ELSE IF u.port = <<>> THEN Config(m) ELSE WithPort(m, u.port[1])
      BY <3>3, <3>4, <3>6
    <3>. QED
      BY <2>4, <3>7, <3>8 DEF url, UrlRead, m
  <2>. QED
    BY <2>3, <2>4
<1>. QED
  BY <1>9, <1>10 DEF url

\* A port is rejected, or some number of its type.
LEMMA PortIsRead ==
    ASSUME NEW u, NEW text
    PROVE  LET r == WithPort(Meant(u, DEFAULT_PORT), text)
           IN  \/ r = Invalid \/ r = Rejected("out_of_range")
               \/ \E port \in 0 .. PORTS - 1 : r = Config(Meant(u, port))
<1>. DEFINE c == Meant(u, DEFAULT_PORT)
            r == WithPort(c, text)
            n == LeadingNumber[text[1]]
            port == n % PORTS
<1>1. CASE text = <<>> \/ text[1] \notin DOMAIN LeadingNumber
  BY <1>1 DEF Port, WithPort, Invalid, Rejected
<1>2. CASE ~(text = <<>> \/ text[1] \notin DOMAIN LeadingNumber)
  <2>1. CASE n >= LONGS
    BY <1>2, <2>1 DEF Port, WithPort, Rejected
  <2>2. CASE ~(n >= LONGS)
    <3>1. Port(text) = Config(port)
      BY <1>2, <2>2 DEF Port
    <3>2. Port(text).ok /\ Port(text).config = port
      <4>. HIDE DEF port
      <4>. QED
        BY <3>1 DEF Config
    <3>3. port \in 0 .. PORTS - 1
      <4>1. n \in Nat /\ PORTS \in Nat /\ PORTS > 0
        BY <1>2, UrlAssumption
      <4>. HIDE DEF n
      <4>. QED
        BY <4>1
    <3>. HIDE DEF port
    <3>4. r = Config([c EXCEPT !.port = port])
      BY <3>2 DEF WithPort
    <3>5. [c EXCEPT !.port = port] = Meant(u, port)
      BY DEF Meant
    <3>. QED
      BY <3>3, <3>4, <3>5
  <2>. QED
    BY <2>1, <2>2
<1>. QED
  BY <1>1, <1>2

\* What was spelled is read.
LEMMA UrlIsReadAsMeant ==
    ASSUME NEW u
    PROVE  MayBeRead(u, UrlRead(u))
<1>. DEFINE r == UrlRead(u)
            c == Meant(u, DEFAULT_PORT)
<1>1. CASE Unreadable(u)
  BY <1>1 DEF UrlRead, MayBeRead
<1>2. CASE ~Unreadable(u) /\ u.scheme = "unix"
  <2>1. Documented(u) /\ MeantPort(u) = 0 /\ r = Config(Meant(u, 0))
    BY <1>2 DEF Documented, MeantPort, UrlRead
  <2>. QED
    BY <1>2, <2>1 DEF MayBeRead
<1>3. CASE ~Unreadable(u) /\ u.scheme # "unix" /\ u.port = <<>>
  <2>1. MeantPort(u) = DEFAULT_PORT /\ r = Config(c)
    BY <1>3 DEF MeantPort, UrlRead
  <2>2. r.config.port = DEFAULT_PORT /\ DEFAULT_PORT \in 0 .. PORTS - 1
    BY <2>1, UrlAssumption DEF Meant, Config
  <2>. HIDE DEF r
  <2>3. CASE Documented(u)
    BY <1>3, <2>1, <2>3 DEF MayBeRead, r
  <2>4. CASE ~Documented(u)
    <3>1. \E port \in {r.config.port} : port \in 0 .. PORTS - 1 /\ r = Config(Meant(u, port))
      BY <2>1, <2>2
    <3>. QED
      BY <1>3, <2>4, <3>1 DEF MayBeRead, r
  <2>. QED
    BY <2>3, <2>4
<1>4. CASE ~Unreadable(u) /\ u.scheme # "unix" /\ u.port # <<>>
  <2>1. r = WithPort(c, u.port[1])
    BY <1>4 DEF UrlRead
  <2>2. CASE Documented(u)
    <3>1. PICK w \in DOMAIN IndexOf : u.port = << <<w>> >> /\ IndexOf[w] < PORTS
      BY <1>4, <2>2 DEF Documented
    <3>. DEFINE n == IndexOf[w]
                p == <<w>>
    <3>2. /\ w \in DOMAIN LeadingNumber /\ LeadingNumber[w] = n /\ n \in Nat
          /\ PORTS \in Nat /\ LONGS \in Nat /\ PORTS <= LONGS /\ n < PORTS
      BY <3>1, UrlAssumption
    <3>3. u.port[1] = p /\ p[1] = w /\ p # <<>> /\ MeantPort(u) = n
      BY <1>4, <3>1 DEF MeantPort
    <3>. HIDE DEF n, p
    <3>4. ~(n >= LONGS) /\ n % PORTS = n
      BY <3>2
    <3>5. Port(p) = Config(n)
      BY <3>2, <3>3, <3>4 DEF Port
    <3>6. Port(p).ok /\ Port(p).config = n
      BY <3>5 DEF Config
    <3>7. r = Config([c EXCEPT !.port = n])
      BY <2>1, <3>3, <3>6 DEF WithPort
    <3>8. [c EXCEPT !.port = n] = Meant(u, n)
      BY DEF Meant
    <3>9. r = Config(Meant(u, MeantPort(u)))
      BY <3>3, <3>7, <3>8
    <3>. QED
      BY <1>4, <2>2, <3>9 DEF MayBeRead
  <2>3. CASE ~Documented(u)
    <3>. DEFINE text == u.port[1]
    <3>1. r = WithPort(Meant(u, DEFAULT_PORT), text)
      BY <2>1
    <3>. HIDE DEF text, r
    <3>2. \/ r = Invalid \/ r = Rejected("out_of_range")
          \/ \E port \in 0 .. PORTS - 1 : r = Config(Meant(u, port))
      BY <3>1, PortIsRead
    <3>3. ASSUME NEW port \in 0 .. PORTS - 1, r = Config(Meant(u, port))
          PROVE  port = r.config.port
      BY <3>3 DEF Config, Meant
    <3>4. \/ r \in {Invalid, Rejected("out_of_range")}
          \/ \E port \in {r.config.port} : port \in 0 .. PORTS - 1 /\ r = Config(Meant(u, port))
      BY <3>2, <3>3
    <3>. QED
      BY <1>4, <2>3, <3>4 DEF MayBeRead, r
  <2>. QED
    BY <2>2, <2>3
<1>. QED
  BY <1>1, <1>2, <1>3, <1>4

\* A URL of a documented form gives the configuration it spells out, whatever
\* its parts; one that cannot be read is rejected, and in every other one the
\* host and the port are the only parts that may be read as something else
\* (parse_redis_url).
THEOREM UrlsAreRead == ConversionSpec => []UrlMeansWhatItSays
<1>1. ConvertsReply \/ ConvertsText => UrlMeansWhatItSays
  BY DEF ConvertsReply, ConvertsText, UrlMeansWhatItSays
<1>2. /\ UrlMeansWhatItSays
      /\ [ReceiveReply \/ ReadNumber \/ ReadUrl]_allVars
      => UrlMeansWhatItSays'
  <2>. SUFFICES ASSUME UrlMeansWhatItSays,
                       [ReceiveReply \/ ReadNumber \/ ReadUrl]_allVars
                PROVE  UrlMeansWhatItSays'
    OBVIOUS
  <2>1. CASE ReceiveReply
    BY <2>1 DEF ReceiveReply, UrlMeansWhatItSays
  <2>2. CASE ReadNumber
    BY <2>2, InputsDiffer DEF ReadNumber, UrlMeansWhatItSays
  <2>3. CASE ReadUrl
    <3>1. input \in Urls /\ input' = input
          /\ output' = parse_redis_url(Spelled(input.url))
      BY <2>3 DEF ReadUrl
    <3>2. Spellable(input.url)
      BY <3>1, InputsAssumption
    <3>3. MayBeRead(input.url, output')
      <4>. DEFINE u == input.url
      <4>. HIDE DEF u
      <4>1. parse_redis_url(Spelled(u)) = UrlRead(u)
        BY <3>2, UrlIsRead DEF u
      <4>2. MayBeRead(u, UrlRead(u))
        BY UrlIsReadAsMeant
      <4>. QED
        BY <3>1, <4>1, <4>2 DEF u
    <3>. QED
      BY <3>1, <3>3 DEF UrlMeansWhatItSays
  <2>4. CASE UNCHANGED allVars
    BY <2>4 DEF allVars, UrlMeansWhatItSays
  <2>. QED
    BY <2>1, <2>2, <2>3, <2>4
<1>. QED
  BY <1>1, <1>2, PTL DEF ConversionSpec

=============================================================================
