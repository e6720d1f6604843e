------------------------------ MODULE Filters ------------------------------
(***************************************************************************)
(* Filter expressions (filters.py): a tree of andGroup, orGroup,            *)
(* notExpression and filter nodes, refused as a whole before it is used.    *)
(* A tree is the sequence of its nodes in reading order, the root first and *)
(* before those it refers to by their places; no filter is the empty tree.  *)
(* A node is the record of the keys it carries, <<>> when it is no object.  *)
(* A leaf's test is the record of its predicate's payload: the values that a *)
(* stringFilter or inListFilter comes down to, a comparison, two bounds; of  *)
(* several predicates in a leaf it is the one that the code finds first.     *)
(* A node whose own payload is of another JSON type than expected, or holds  *)
(* a number no float has room for, is also `unreadable'.                     *)
(***************************************************************************)
EXTENDS Registry

\* _to_number: a date or a metric, 0 for a text.
AsNumber(name, value) == IF name \in DateFamily \cup METRICS THEN value ELSE 0

Ill == <<>>
Nodes      == {"andGroup", "orGroup", "notExpression", "filter"}
Operations == {"EQUAL", "LESS_THAN", "LESS_THAN_OR_EQUAL", "GREATER_THAN", "GREATER_THAN_OR_EQUAL"}
EMPTY_VALUES == {"", "(not set)"}

Predicates == {"in", "operation", "from", "empty"}

\* A node refers to places behind its own, and a leaf has one predicate.
IsList(s) == s \in Seq(ToSet(s))
IsTree(tree) ==
  /\ IsList(tree)
  /\ \A n \in DOMAIN tree : LET node == tree[n] behind == n + 1 .. Len(tree) IN
       /\ "notExpression" \in DOMAIN node => node.notExpression \in behind
       /\ "andGroup" \in DOMAIN node => node.andGroup \in Seq(behind)
       /\ "orGroup"  \in DOMAIN node => node.orGroup  \in Seq(behind)
       /\ "filter"   \in DOMAIN node => \A a, b \in Predicates \cap DOMAIN node.filter.test : a = b

Present(node) == DOMAIN node \cap Nodes
Key(node)     == CHOOSE key \in Present(node) : TRUE

\* _filter_fields: the fields cited anywhere in the tree.
Citing(tree) ==
  {n \in DOMAIN tree : "filter" \in Present(tree[n]) /\ "fieldName" \in DOMAIN tree[n].filter}
Fields(tree) == {tree[n].filter.fieldName : n \in Citing(tree)}

\* _leaf: a field and one of the five predicates, well formed.
LeafOk(leaf) ==
  LET test == leaf.test IN
  /\ "fieldName" \in DOMAIN leaf
  /\ \/ "in" \in DOMAIN test
     \/ "operation" \in DOMAIN test /\ test.operation \in Operations
     \/ "from" \in DOMAIN test
     \/ "empty" \in DOMAIN test

\* compile_filter, of a node: exactly one key; a payload that can be read,
\* or an exception that is no FilterError; a leaf in order or a group of some.
Exclusive(node) == \E key \in Nodes : Present(node) = {key}
Raises(node)    == "unreadable" \in DOMAIN node
WellFormed(node) ==
  \A key \in Present(node) : /\ key = "filter" => LeafOk(node.filter)
                             /\ key \in {"andGroup", "orGroup"} => node[key] # <<>>

Compare(operation, v, reference) ==
  CASE operation = "EQUAL"                 -> v = reference
    [] operation = "LESS_THAN"             -> v < reference
    [] operation = "LESS_THAN_OR_EQUAL"    -> v <= reference
    [] operation = "GREATER_THAN"          -> v > reference
    [] operation = "GREATER_THAN_OR_EQUAL" -> v >= reference

LeafHolds(leaf, value) ==
  LET test == leaf.test
      number == AsNumber(leaf.fieldName, value)
  IN CASE "in" \in DOMAIN test        -> value \in test.in
       [] "operation" \in DOMAIN test -> Compare(test.operation, number, test.reference)
       [] "from" \in DOMAIN test      -> number \in test.from .. test.to
       [] "empty" \in DOMAIN test     -> value \in EMPTY_VALUES

Combine(key, verdicts) ==
  IF key = "andGroup" THEN FALSE \notin verdicts ELSE TRUE \in verdicts

\* The compiled predicate, on the values of the cited fields.
Holds(tree, values) ==
  LET holds[n \in DOMAIN tree] ==
        LET key == Key(tree[n]) IN
        CASE key = "filter"        -> LeafHolds(tree[n].filter, values[tree[n].filter.fieldName])
          [] key = "notExpression" -> ~holds[tree[n].notExpression]
          [] OTHER -> Combine(key, {holds[m] : m \in ToSet(tree[n][key])})
  IN tree # <<>> => holds[1]
=============================================================================
