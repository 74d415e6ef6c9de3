---------------------------- MODULE ControlNames ----------------------------
(***************************************************************************)
(* How names of control namespaces are compared and looked up.  A name is  *)
(* a sequence of bytes without the null byte; a list of names stands for   *)
(* the linked list of namespace entries.                                   *)
(***************************************************************************)
EXTENDS Integers, Sequences

Min2(a, b) == IF a < b THEN a ELSE b

\* es_control_namespace_store_match: strncmp of the common prefix.
Match(a, b) == \A i \in 1..Min2(Len(a), Len(b)) : a[i] = b[i]

Matches(name, names) == {i \in 1..Len(names) : Match(name, names[i])}

\* es_control_namespace_store_resolve: the first match in list order, 0 for NULL.
FirstMatch(name, names) ==
  IF Matches(name, names) = {} THEN 0
  ELSE CHOOSE i \in Matches(name, names) : \A j \in Matches(name, names) : i <= j
=============================================================================
