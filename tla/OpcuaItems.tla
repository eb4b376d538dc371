----------------------------- MODULE OpcuaItems ------------------------------
(***************************************************************************)
(* otlab_core.extractors.opcua: a PublishResponse or a WriteRequest holds  *)
(* several items, and tshark prints them as parallel columns: the client   *)
(* handles or node ids, the namespace indexes of those that have one, the  *)
(* type bytes of those that hold a Variant, and per type the values.       *)
(* The extractor puts the items together again by position.                *)
(*                                                                         *)
(* What the client, the server and the dissector do is external: an item   *)
(* is a record of its name and Variant, and a value is told by the item it *)
(* came from.                                                              *)
(***************************************************************************)
EXTENDS Picks, SequencesExt

CONSTANTS
  Nodes,     \* records [num, ns, form]; form "plain" (no index: ns is 0), "indexed"
             \* or "string" (no number at all)
  Handles,   \* client handles of a subscription
  Types,     \* built-in types that have a column of their own (_VARIANT_COL)
  Envelope,  \* nodes of the request header: a sequence, in namespace 0
  MaxItems   \* bound: items of a message

ASSUME OpcuaAssumption ==
  /\ \A n \in Nodes : /\ n.form \in {"plain", "indexed", "string"}
                      /\ n.form = "plain" => n.ns = 0
  /\ Envelope \in Seq({Envelope[i] : i \in DOMAIN Envelope})
  /\ \A i \in DOMAIN Envelope : Envelope[i].ns = 0 /\ Envelope[i].form \in {"plain", "indexed"}
  /\ Types \intersect {"other", "none"} = {} /\ MaxItems \in Nat /\ Handles \subseteq Nat \ {0}

VARIABLES
  op,        \* "NONE" between messages, "PUBLISH_RESPONSE" or "WRITE_REQUEST"
  message,   \* the items on the wire: [name, variant]; name is a node or a handle
  items,     \* sub_items or write_items
  samples    \* per state key, what extract_state_samples gives

opcuaVars == <<op, message, items, samples>>

NotRead == [item |-> 0, part |-> 0]

\* A state key is a handle, none at all, or one that does not resolve to a handle.
AnyHandle  == 0
NoHandle   == -1
StateKeys  == Handles \union {AnyHandle, NoHandle}

Scalar(t)  == [type |-> t, array |-> FALSE]
Empty      == [type |-> "none", array |-> FALSE]
Variants   == {Scalar(t) : t \in Types \union {"other"}} \union {Empty}
                \union {[type |-> t, array |-> TRUE] : t \in Types}

-----------------------------------------------------------------------------
(* The columns tshark prints.  An array prints its elements, here two, in  *)
(* the column of its type.                                                 *)

Numbered(names) == Picked(names, {i \in DOMAIN names : names[i].form # "string"})
Indexed(names)  == Picked(names, {i \in DOMAIN names : names[i].form = "indexed"})

Numerics(names)  == [i \in DOMAIN Numbered(names) |-> Numbered(names)[i].num]
Nsindexes(names) == [i \in DOMAIN Indexed(names) |-> Indexed(names)[i].ns]

TypeBytes(msg) ==
  LET typed == Picked(msg, {i \in DOMAIN msg : msg[i].variant # Empty})
  IN  [i \in DOMAIN typed |-> typed[i].variant]

\* The most the items print, and what of it lies in the column of type t.
Cells(msg) ==
  [c \in 1..(2 * Len(msg)) |-> [item |-> (c + 1) \div 2, part |-> 2 - (c % 2)]]

Printed(msg, t) ==
  {c \in DOMAIN Cells(msg) :
     LET cell == Cells(msg)[c]
         v    == msg[cell.item].variant
     IN  v.type = t /\ (cell.part = 1 \/ v.array)}

Column(msg, t) == Picked(Cells(msg), Printed(msg, t))

-----------------------------------------------------------------------------
(* The extractor.                                                          *)

\* The namespace indexes belong to the last of the numbers.
_ns_align(numerics, nsindexes) ==
  LET offset == Len(numerics) - Len(nsindexes)
  IN  [p \in DOMAIN numerics |-> IF p > offset THEN nsindexes[p - offset] ELSE 0]

Readable(v) == ~v.array /\ v.type \in Types

\* Slipped: one cursor serves all columns.
CursorAt_shared(types, i) == Cardinality({j \in 1..i : Readable(types[j])})

\* The cursor of its column, when item i is read.
CursorAt(types, i) ==
  Cardinality({j \in 1..i : Readable(types[j]) /\ types[j].type = types[i].type})

_zip_values(types, msg) ==
  [i \in DOMAIN types |->
    IF ~Readable(types[i]) THEN [value |-> NotRead, unhandled |-> TRUE]
    ELSE LET col == Column(msg, types[i].type)
             at  == CursorAt(types, i)
         IN  [value |-> IF at <= Len(col) THEN col[at] ELSE NotRead, unhandled |-> FALSE]]

\* What an item gets that is past the values.
NoPair == [value |-> NotRead, unhandled |-> TRUE]

Paired(names, values) ==
  [i \in DOMAIN names |->
    LET v == IF i <= Len(values) THEN values[i] ELSE NoPair
    IN  [name |-> names[i], value |-> v.value, unhandled |-> v.unhandled]]

_parse_sub_items(msg) ==
  Paired([i \in DOMAIN msg |-> msg[i].name], _zip_values(TypeBytes(msg), msg))

\* One AttributeId per item tells how many of the numbers are targets: the last.
_parse_write_items(msg) ==
  LET names    == Envelope \o [i \in DOMAIN msg |-> msg[i].name]
      numerics == Numerics(names)
      ns       == _ns_align(numerics, Nsindexes(names))
      n        == IF Len(numerics) >= Len(msg) THEN Len(msg) ELSE Len(numerics)
      base     == Len(numerics) - n
  IN  Paired([i \in 1..n |-> [num |-> numerics[base + i], ns |-> ns[base + i]]],
             _zip_values(TypeBytes(msg), msg))

\* Slipped: a key that does not resolve is taken for no key.
resolve_state_key_leak(key) == IF key = NoHandle THEN Handles ELSE {key}

\* The handles a state key asks for; a key that does not resolve asks for nothing.
resolve_state_key(key) == IF key = AnyHandle THEN Handles ELSE {key} \intersect Handles

\* The values of the items asked for, in wire order; an item without one has no sample.
extract_state_samples(parsed, key) ==
  LET own == Picked(parsed, {i \in DOMAIN parsed : /\ parsed[i].name \in resolve_state_key(key)
                                                   /\ parsed[i].value # NotRead})
  IN  [i \in DOMAIN own |-> own[i].value]

-----------------------------------------------------------------------------
NothingSampled == [k \in StateKeys |-> <<>>]

OpcuaInit == op = "NONE" /\ message = <<>> /\ items = <<>> /\ samples = NothingSampled

Messages(names) == BoundedSeq([name : names, variant : Variants], MaxItems) \ {<<>>}

Publish ==
  /\ op = "NONE" /\ op' = "PUBLISH_RESPONSE"
  /\ \E msg \in Messages(Handles) :
       /\ message' = msg
       /\ items' = _parse_sub_items(msg)
       /\ samples' = [k \in StateKeys |-> extract_state_samples(items', k)]

WriteRequest ==
  /\ op = "NONE" /\ op' = "WRITE_REQUEST"
  /\ \E msg \in Messages(Nodes) : message' = msg /\ items' = _parse_write_items(msg)
  /\ UNCHANGED samples

\* parse_line keeps nothing from one message to the next.
NextMessage ==
  /\ op # "NONE"
  /\ op' = "NONE" /\ message' = <<>> /\ items' = <<>> /\ samples' = NothingSampled

OpcuaNext == Publish \/ WriteRequest \/ NextMessage

OpcuaSpec == OpcuaInit /\ [][OpcuaNext]_opcuaVars

-----------------------------------------------------------------------------
\* An item whose value can be told from the columns: it and those before it have a
\* Variant, and no array of its type comes before it.
Told(i) ==
  /\ \A j \in 1..i : message[j].variant # Empty
  /\ \A j \in 1..(i - 1) :
       message[j].variant.array => message[j].variant.type # message[i].variant.type

\* The names of a write can be told: all are numbers, and none without an index comes
\* after one of another namespace.
NamesTold ==
  /\ \A i \in DOMAIN message : message[i].name.form # "string"
  /\ \A i, j \in DOMAIN message :
       i < j /\ message[j].name.form = "plain" => message[i].name.ns = 0

\* The value of an item is its own whenever the columns tell: other types, arrays of
\* other types and types without a column may come before it; and no item vanishes
\* silently, one without a value is marked unhandled (_zip_values).
ValuesAreTheirOwn ==
  \A i \in DOMAIN items :
    /\ Told(i) => items[i].value = IF Readable(message[i].variant) THEN [item |-> i, part |-> 1]
                                   ELSE NotRead
    /\ items[i].unhandled <=> items[i].value = NotRead

\* A written node is called by its own number and namespace, whatever the header of the
\* request holds (_ns_align, _parse_write_items).
TargetsAreTheirOwn ==
  op = "WRITE_REQUEST" /\ NamesTold =>
    /\ Len(items) = Len(message)
    /\ \A i \in DOMAIN items :
         items[i].name = [num |-> message[i].name.num, ns |-> message[i].name.ns]

\* Both halves of an item are its own.
ItemsAreTheirOwn == ValuesAreTheirOwn /\ TargetsAreTheirOwn

\* The samples of a state signal are the values published under its handle, all of
\* them and in order, never another variable's; a key that does not resolve has none
\* (extract_state_samples).
SamplesAreTheSignal ==
  op = "PUBLISH_RESPONSE" /\ (\A i \in DOMAIN message : Told(i)) =>
    /\ samples[NoHandle] = <<>>
    /\ \A h \in Handles :
         LET own == {i \in DOMAIN message : message[i].name = h /\ Readable(message[i].variant)}
         IN  /\ Len(samples[h]) = Cardinality(own)
             /\ \A i \in own : samples[h][Rank(own, i)] = [item |-> i, part |-> 1]

\* "an ARRAY variant is reported as unhandled, not misaligned into scalar samples"
\* (tests/test_opcua_subscription.py:158): no element of an array is an item's value.
ArraysAreNotMisaligned ==
  \A i \in DOMAIN items :
    items[i].value # NotRead => ~message[items[i].value.item].variant.array
=============================================================================
