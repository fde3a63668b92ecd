------------------------------- MODULE RestWire -------------------------------
(***************************************************************************)
(* The documents of the REST surface: how the gateway reads a field of a   *)
(* JSON body or of a query string, how article content travels between     *)
(* JSON, the Node messages and the stored JSON, and how a prost message is *)
(* encoded to the bytes that are hashed.                                   *)
(*                                                                         *)
(* A JSON value is a record whose only field names its type; a JSON string *)
(* that is an RFC 3339 time is [time |-> ...] and a number that is no i64  *)
(* is [float |-> ...].  An optional field of a message is a set with at    *)
(* most one element, a map a function, an enum its number.                 *)
(***************************************************************************)
EXTENDS Integers, Sequences, FiniteSets, SequencesExt

CONSTANTS
  I32Bits,       \* width of an i32
  ContentNodes,  \* the nodes of article content, those inside others too
  ContentDocs,   \* the JSON values content is read from, parts included
  Depth,         \* how deep a node or a JSON value nests
  MaxDepth       \* nesting allowed (serde_json stops reading at 128)

ASSUME WidthAssumption == I32Bits \in Nat \ {0, 1}

JNull == [null |-> TRUE]
JStr(s) == [str |-> s]
JNum(n) == [num |-> n]
JBool(b) == [bool |-> b]
JArr(s) == [arr |-> s]
JObj(f) == [obj |-> f]

Is(type, v) == type \in DOMAIN v
Has(v, k) == Is("obj", v) /\ k \in DOMAIN v.obj
The(S) == CHOOSE x \in S : TRUE
IsOptional(values) == \A x, y \in values : x = y
OrNull(S, ToJson(_)) == IF S = {} THEN JNull ELSE ToJson(The(S))

-----------------------------------------------------------------------------
(* Reading a body: what is missing or of another type is the default. *)
Str(v, k) == IF Has(v, k) /\ Is("str", v.obj[k]) THEN v.obj[k].str ELSE ""
I64(v, k) == IF Has(v, k) /\ Is("num", v.obj[k]) THEN v.obj[k].num ELSE 0
Bool(v, k) == IF Has(v, k) /\ Is("bool", v.obj[k]) THEN v.obj[k].bool ELSE FALSE
Opt(v, k, Parse(_)) == IF Has(v, k) THEN {Parse(v.obj[k])} ELSE {}
ArrayOf(v, k) == IF Has(v, k) /\ Is("arr", v.obj[k]) THEN v.obj[k].arr ELSE <<>>

(* filter_map: the elements of s at some positions, in their order. *)
Picked(s, at) ==
  [i \in 1..Cardinality(at) |-> s[CHOOSE j \in at : Cardinality({k \in at : k <= j}) = i]]
Strings(values) ==
  LET strings == Picked(values, {i \in DOMAIN values : Is("str", values[i])})
  IN  [i \in DOMAIN strings |-> strings[i].str]

StringMap(v, k) ==
  IF Has(v, k) /\ Is("obj", v.obj[k])
  THEN LET m == v.obj[k].obj
       IN  [s \in {s \in DOMAIN m : Is("str", m[s])} |-> m[s].str]
  ELSE [s \in {} |-> ""]

(* `n as i32`: the low bits. *)
Int32(n) == ((n + 2^(I32Bits - 1)) % 2^I32Bits) - 2^(I32Bits - 1)

(* A time of a client, and one that is no RFC 3339 text; the nanoseconds   *)
(* of a leap second go up to two seconds.                                  *)
parse_rfc3339_to_proto(v) ==
  IF Is("time", v) THEN {[seconds |-> v.time[1], nanos |-> v.time[2]]} ELSE {}
NanosPerSecond == 1000 * 1000 * 1000
timestamp_to_rfc3339(ts) ==
  IF ts.nanos \in 0..(2 * NanosPerSecond - 1) THEN [time |-> <<ts.seconds, ts.nanos>>] ELSE JStr("")
ts_to_proto(t) == [seconds |-> t[1], nanos |-> t[2]]

parse_public_key(v) == [algo |-> Str(v, "algo"), public_key |-> Str(v, "public_key")]
parse_field_mask(v) == [paths |-> Strings(ArrayOf(v, "paths"))]

-----------------------------------------------------------------------------
(* Reading a query string, a sequence of pairs: of a repeated key the last *)
(* one counts, and a number that is no i32 is the default.                 *)
LastOf(q, k) ==
  {q[i][2] : i \in {i \in DOMAIN q : q[i][1] = k /\ \A j \in DOMAIN q : q[j][1] = k => j <= i}}
QStr(q, k) == IF \E v \in LastOf(q, k) : Is("str", v) THEN The(LastOf(q, k)).str ELSE ""
QInt(q, k) ==
  IF \E v \in LastOf(q, k) : Is("num", v) /\ Int32(v.num) = v.num
  THEN The(LastOf(q, k)).num ELSE 0
QFlag(q, k) == JStr("true") \in LastOf(q, k)

(* canonicalize_query: pairs sorted by key, the values of a key in the     *)
(* order given: a function from the keys to their values.                  *)
canonicalize_query(q) ==
  [k \in {q[i][1] : i \in DOMAIN q} |->
     LET pairs == Picked(q, {i \in DOMAIN q : q[i][1] = k})
     IN  [i \in DOMAIN pairs |-> pairs[i][2]]]

-----------------------------------------------------------------------------
(* Article content.  The gateway and the service have each their own pair  *)
(* of converters; the service's JSON is what is stored.                    *)
NoKind == [kind |-> "none"]
TextNode(t) == [kind |-> "text", text |-> t]
Element(tag, attrs, children) ==
  [kind |-> "element", tag |-> tag, attrs |-> attrs, children |-> children]

parse_node[v \in ContentDocs] ==
  IF ~Is("obj", v) THEN NoKind
  ELSE IF Has(v, "text") /\ Is("str", v.obj["text"]) THEN TextNode(v.obj["text"].str)
  ELSE Element(Str(v, "tag"), StringMap(v, "attrs"),
               LET items == ArrayOf(v, "children")
               IN  [i \in DOMAIN items |-> parse_node[items[i]]])
parse_nodes(v) == IF Is("arr", v) THEN [i \in DOMAIN v.arr |-> parse_node[v.arr[i]]] ELSE <<>>

(* An element shows its attributes and its children if it has any. *)
ElementJson(n, children) ==
  LET all == [tag |-> JStr(n.tag), children |-> JArr(children),
              attrs |-> JObj([s \in DOMAIN n.attrs |-> JStr(n.attrs[s])])]
      shown == {"tag"} \union (IF DOMAIN n.attrs = {} THEN {} ELSE {"attrs"})
                       \union (IF children = <<>> THEN {} ELSE {"children"})
  IN  JObj([k \in shown |-> all[k]])

node_to_json[n \in ContentNodes] ==
  IF n.kind = "none" THEN JNull
  ELSE IF n.kind = "text" THEN JObj([text |-> JStr(n.text)])
  ELSE ElementJson(n, [i \in DOMAIN n.children |-> node_to_json[n.children[i]]])
nodes_to_json_array(nodes) == JArr([i \in DOMAIN nodes |-> node_to_json[nodes[i]]])

(* The service's converters, written apart: nodes_to_json makes what is    *)
(* stored, json_to_nodes reads it back.                                    *)
stored_node[n \in ContentNodes] ==
  IF n.kind = "none" THEN JNull
  ELSE IF n.kind = "text" THEN JObj([text |-> JStr(n.text)])
  ELSE ElementJson(n, [i \in DOMAIN n.children |-> stored_node[n.children[i]]])
nodes_to_json(nodes) == JArr([i \in DOMAIN nodes |-> stored_node[nodes[i]]])

json_to_node[v \in ContentDocs] ==
  IF ~Is("obj", v) THEN NoKind
  ELSE IF Has(v, "text") /\ Is("str", v.obj["text"]) THEN TextNode(v.obj["text"].str)
  ELSE Element(Str(v, "tag"), StringMap(v, "attrs"),
               LET items == ArrayOf(v, "children")
               IN  [i \in DOMAIN items |-> json_to_node[items[i]]])

json_to_nodes(v) == IF Is("arr", v) THEN [i \in DOMAIN v.arr |-> json_to_node[v.arr[i]]] ELSE <<>>

(* What content is: a node has one of three shapes and what is inside it   *)
(* nests less deep, as do the parts of a JSON value; what the converters   *)
(* write can be read.                                                      *)
ASSUME ContentAssumption ==
  /\ MaxDepth \in Nat /\ Depth \in [ContentNodes \union ContentDocs -> 0..MaxDepth]
  /\ \A n \in ContentNodes :
       \/ n = NoKind
       \/ n.kind = "text" /\ n = TextNode(n.text)
       \/ /\ n.kind = "element" /\ n = Element(n.tag, n.attrs, n.children)
          /\ n.attrs = [s \in DOMAIN n.attrs |-> n.attrs[s]]
          /\ n.children \in Seq(ContentNodes)
          /\ \A i \in DOMAIN n.children : Depth[n.children[i]] < Depth[n]
  /\ \A v \in ContentDocs :
       /\ ArrayOf(v, "children") \in Seq(ContentDocs)
       /\ \A i \in DOMAIN ArrayOf(v, "children") : Depth[ArrayOf(v, "children")[i]] < Depth[v]
  /\ \A n \in ContentNodes : {node_to_json[n], stored_node[n]} \subseteq ContentDocs

AllowedTags ==
  {"p", "h3", "h4", "a", "img", "figure", "figcaption", "blockquote", "aside", "pre", "code",
   "em", "strong", "s", "u", "iframe", "video", "br", "hr", "ul", "ol", "li"}
allowed_attrs_for(tag) ==
  CASE tag = "a" -> {"href"} [] tag = "img" -> {"src", "alt"}
    [] tag \in {"iframe", "video"} -> {"src"} [] OTHER -> {}

(* validate_node: what is wrong with the first bad node, in document order; *)
(* of several bad attributes the map's iteration picks one.                 *)
FirstErrors(errors) ==
  LET bad == {i \in DOMAIN errors : errors[i] # {}}
  IN  IF bad = {} THEN {} ELSE errors[CHOOSE i \in bad : \A j \in bad : i <= j]
validate_node[n \in ContentNodes] ==
  IF n.kind # "element" THEN {}
  ELSE IF n.tag \notin AllowedTags THEN {"InvalidNodeTag"}
  ELSE IF ~(DOMAIN n.attrs \subseteq allowed_attrs_for(n.tag)) THEN {"InvalidNodeAttr"}
  ELSE FirstErrors([i \in DOMAIN n.children |-> validate_node[n.children[i]]])
NodeErrors(nodes) == FirstErrors([i \in DOMAIN nodes |-> validate_node[nodes[i]]])

(* validate_and_encode_content; `large` is whether the encoding is over    *)
(* the limit.                                                              *)
ContentErrors(nodes, large) ==
  IF nodes = <<>> THEN {"InvalidArgument"}
  ELSE IF NodeErrors(nodes) # {} THEN NodeErrors(nodes)
  ELSE IF large THEN {"ContentTooLarge"} ELSE {}

-----------------------------------------------------------------------------
(* encode_to_vec: the fields in the order of their numbers, and the        *)
(* entries of each map in the order its HashMap iterates in, which is any. *)
(* The bytes are the message and one listing of the keys per map.          *)
maps_of_node[n \in ContentNodes] ==
  IF n.kind # "element" THEN <<>>
  ELSE <<n.attrs>> \o FlattenSeq([i \in DOMAIN n.children |-> maps_of_node[n.children[i]]])
MapsOfNodes(nodes) == FlattenSeq([i \in DOMAIN nodes |-> maps_of_node[nodes[i]]])

Listings(maps) ==
  {l \in [DOMAIN maps -> UNION {SetToSeqs(DOMAIN maps[i]) : i \in DOMAIN maps}] :
     \A i \in DOMAIN maps : l[i] \in SetToSeqs(DOMAIN maps[i])}
encode_to_vec(message, maps) == {[message |-> message, listings |-> l] : l \in Listings(maps)}
=============================================================================
