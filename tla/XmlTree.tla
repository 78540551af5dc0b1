------------------------------- MODULE XmlTree -------------------------------
(***************************************************************************)
(* The element tree of an XML message of hmxml: what the merge functions   *)
(* of xml-merge.c build, what mxml carries and what the parse functions of *)
(* xml-parse.c find (xml-tree.c).                                          *)
(*                                                                         *)
(* A packet is a function from the paths of the fields of its C structure  *)
(* to values; an array or a linked list of structures is the sequence of   *)
(* its rows, each again such a function.  A value is a string that stands  *)
(* for itself, whatever the type of the field: Zero is what hm_xml_alloc   *)
(* (calloc) leaves.  A text remembers how it was written, as a number, a   *)
(* string or a date, because the parser may read it another way.           *)
(*                                                                         *)
(* The children of an element are a set: only the rows of a list have a    *)
(* position, and no merge function repeats another element.                *)
(***************************************************************************)
EXTENDS Integers, Sequences, FiniteSets, TLC, SequencesExt

Zero == ""

\* A field nobody wrote is zero.
Value(p, field) == IF field \in DOMAIN p THEN p[field] ELSE Zero

List(p, field) == IF field \in DOMAIN p THEN p[field] ELSE << >>

\* The decimal text of a count or of a small number.
Num(n) == IF n = 0 THEN Zero ELSE ToString(n)

\* A string that begins with a blank, a string too long for the buffer of an
\* element (MAX_MXML_CONTACT_LEN), and the length of such a string.
Blank == " blank"
Long  == "long"
LongLength == "length of long"

NoText == [as |-> "none", of |-> Zero]
NoAttr == [name |-> "", of |-> Zero]

Text(as, v) == IF as = "str" /\ v = Zero THEN NoText ELSE [as |-> as, of |-> v]

\* An element with a text, an element with children, and an attribute of one:
\* create_child replaces the children and create_attr the attributes.
create_child(tag, as, v) ==
  [tag |-> tag, at |-> 0, text |-> Text(as, v), attr |-> NoAttr, kids |-> {}]

Group(tag, kids) ==
  [tag |-> tag, at |-> 0, text |-> NoText, attr |-> NoAttr, kids |-> kids]

create_attr(node, name, v) == [node EXCEPT !.attr = [name |-> name, of |-> v]]

\* One element per tag, with the value of the field named beside it.
create_brother(p, as, fields) ==
  {create_child(tag, as, Value(p, fields[tag])) : tag \in DOMAIN fields}

Nums(p, fields)  == create_brother(p, "num", fields)
Strs(p, fields)  == create_brother(p, "str", fields)
Times(p, fields) == create_brother(p, "time", fields)

\* The elements of a list, each with its children.
Rows(tag, rows, Body(_)) ==
  {[Group(tag, Body(rows[i])) EXCEPT !.at = i] : i \in DOMAIN rows}

\* The elements of a list that are texts: one field of each row.
TextRows(tag, as, rows, field) ==
  {[create_child(tag, as, Value(rows[i], field)) EXCEPT !.at = i] : i \in DOMAIN rows}

\* The elements of a list whose rows carry one field as an attribute.
MarkedRows(tag, rows, name, field, Body(_)) ==
  {create_attr([Group(tag, Body(rows[i])) EXCEPT !.at = i], name, Value(rows[i], field))
     : i \in DOMAIN rows}

create_xml_head(command, kids) == [type |-> command, kids |-> kids]
Message(command, kids) == create_xml_head(command, kids)
NoMessage == [type |-> "", kids |-> {}]

\* The rows that the fixed arrays of the structures have room for, the kinds
\* of network, and the modes of the infrared cut that the codec tells apart.
CONSTANT MaxRows
ASSUME MaxRowsAssumption == MaxRows \in Nat \ {0}

J_SDK_MAX_NETWORK_TYPE == 3

IRCUT_AUTO  == Zero
IRCUT_RTC   == "1"
IRCUT_TIMER == "2"

\* More than PU_ID_SPACING dashes in an identifier: a group of devices.
GuId == "gu-1-2-3"
judge_pu_or_gu(id) == id = GuId

\* What mxml makes of an element: a text that begins with a blank is dropped,
\* a text beside children is never written, and one too long for the element
\* waits in extend_contact, which only Extended reads.
get_mxml_node_info(node) ==
  IF node.text.of = Blank \/ node.kids # {} THEN [node EXCEPT !.text = NoText]
                                            ELSE node

RECURSIVE xml_tree_parse_by_mxml(_)
xml_tree_parse_by_mxml(kids) ==
  {[get_mxml_node_info(n) EXCEPT !.kids = xml_tree_parse_by_mxml(n.kids)]
     : n \in kids}

Contact(node) == IF node.text.of = Long THEN NoText ELSE node.text
Extended(node) == IF node.text.of = Long THEN node.text ELSE NoText

\* sscanf("%d") of a text, snprintf("%s") of it and parse_time_string: a
\* number read as a string keeps its digits, a string is no number and
\* leaves the field as it was, a date begins with its year.
Reads(text, as) == \/ as = "str"
                   \/ text.as = as
                   \/ text.as = "time" /\ as = "num"
Converted(text, as) ==
  IF text.as = as THEN text.of
  ELSE IF as # "str" THEN "year of " \o text.of
  ELSE IF text.of = Zero THEN "0" ELSE "text of " \o text.of

\* The fields that the elements of these tags fill.
Read(kids, as, fields) ==
  LET found == {n \in kids : /\ n.tag \in DOMAIN fields
                             /\ Contact(n).as # "none"
                             /\ Reads(Contact(n), as)}
  IN [f \in {fields[n.tag] : n \in found} |->
        Converted(Contact(CHOOSE n \in found : fields[n.tag] = f), as)]

ReadNums(kids, fields)  == Read(kids, "num", fields)
ReadStrs(kids, fields)  == Read(kids, "str", fields)
ReadTimes(kids, fields) == Read(kids, "time", fields)

\* sscanf of an attribute with the name expected.
Marked(node, name, field) ==
  IF node.attr.name = name THEN [f \in {field} |-> node.attr.of] ELSE << >>

\* The elements of a tag in the order of the message, their children, and
\* the rows that a parser makes of them.
Found(kids, tag) ==
  SetToSortSeq({n \in kids : n.tag = tag}, LAMBDA a, b : a.at < b.at)
Under(kids, tag) == UNION {n.kids : n \in {k \in kids : k.tag = tag}}
RowOf(found, Row(_)) == [i \in DOMAIN found |-> Row(found[i])]
ReadRows(kids, tag, Body(_)) ==
  RowOf(Found(kids, tag), LAMBDA node : Body(node.kids))
ReadMarked(kids, tag, name, field, Body(_)) ==
  RowOf(Found(kids, tag), LAMBDA node : Marked(node, name, field) @@ Body(node.kids))
ReadTexts(kids, tag, as, field) ==
  RowOf(Found(kids, tag), LAMBDA node : Read({node}, as, [t \in {tag} |-> field]))

ReadAttr(kids, tag, name, field) ==
  LET found == Found(kids, tag)
  IN IF found = << >> THEN << >> ELSE Marked(found[1], name, field)

\* A list whose elements carry the index of their row.
Indexed(kids, tag, name, max, Body(_)) ==
  LET at(i) == {n \in kids : n.tag = tag /\ n.attr = [name |-> name, of |-> Num(i - 1)]}
      places == {i \in 1..max : at(i) # {}}
      last == CHOOSE i \in places \cup {0} : \A j \in places : j <= i
  IN [i \in 1..last |-> IF at(i) = {} THEN << >>
                        ELSE Body((CHOOSE n \in at(i) : TRUE).kids)]

\* The first max rows.
FirstOf(rows, max) == SubSeq(rows, 1, IF Len(rows) < max THEN Len(rows) ELSE max)

\* The fields of a structure inside another one.
Embed(prefix, p) ==
  LET path == [f \in DOMAIN p |-> prefix \o f]
  IN [g \in {path[f] : f \in DOMAIN p} |-> p[CHOOSE f \in DOMAIN p : path[f] = g]]
View(prefix, p, fields) == [f \in fields |-> Value(p, prefix \o f)]

\* A parser fills the packet and returns 0 only when the message has the type
\* that it knows.  It deletes its own tree, but for two that return early.
Refused == [ok |-> FALSE, fields |-> << >>, tree |-> 0]
Accept(m, command, p) ==
  IF m.type = command THEN [ok |-> TRUE, fields |-> p, tree |-> 0] ELSE Refused
LeavesTree(read) == [read EXCEPT !.tree = 1]
=============================================================================
