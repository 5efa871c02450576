------------------------------- MODULE MCHome -------------------------------
(* An instance of Home for TLC.                                            *)
EXTENDS Home, TLC

CONSTANT m1   \* The manual trigger of PluginRuntime.

\* The office that the company trusts first, and limits that are used up.
TrustsOne == {<<1>>}
AllUsedUp == {[s \in Scopes |-> 2]}

----------------------------------------------------------------------------
(* The inputs of a plugin load.                                              *)

\* A plugin's directory, its managed entry and whether it is enabled, in one
\* of the two places.
In(dir, managed, enabled) == [dir |-> dir, managed |-> managed, enabled |-> enabled]
\* No such plugin in that place.
Nowhere == In(FALSE, FALSE, FALSE)

\* An unmanaged plugin of the office, and a global one that the office's
\* entry disables, or enables.
SomeSources ==
  {[global |-> Nowhere, office |-> In(TRUE, FALSE, FALSE)],
   [global |-> In(TRUE, TRUE, TRUE), office |-> In(TRUE, TRUE, FALSE)],
   [global |-> In(TRUE, TRUE, FALSE), office |-> In(FALSE, TRUE, TRUE)]}

\* A version, and the identifiers of its pre-release.
V(x, y, z, pre) == [major |-> x, minor |-> y, patch |-> z, pre |-> pre]
Number(n) == [numeric |-> TRUE, value |-> n]
Word(n) == [numeric |-> FALSE, value |-> n]

\* Around every boundary of a caret, a tilde and a pre-release.
SomeVersions ==
  {[none |-> TRUE], V(1, 2, 3, <<>>), V(1, 2, 3, <<Number(1)>>),
   V(1, 2, 3, <<Number(1), Word(0)>>), V(1, 2, 3, <<Word(0)>>), V(1, 3, 0, <<>>),
   V(2, 0, 0, <<>>), V(2, 0, 0, <<Word(0)>>), V(0, 0, 3, <<Number(0)>>),
   V(1, 0, 0, <<Number(1)>>), V(0, 1, 2, <<>>), V(0, 0, 2, <<>>), V(0, 0, 3, <<>>),
   V(0, 2, 0, <<>>)}

SomeConstraints ==
  {<<>>} \union
  {<<[op |-> o, version |-> v]>> :
      o \in {"^", "~", "=", ">=", "<", ">", "<=", "N.x", "N.N.x"},
      v \in {V(1, 2, 3, <<>>), V(1, 2, 3, <<Word(0)>>), V(0, 1, 2, <<>>), V(0, 0, 2, <<>>)}}
  \union {<<[op |-> ">=", version |-> V(0, 0, 3, <<>>)],
            [op |-> "<", version |-> V(1, 2, 3, <<>>)]>>}
=============================================================================
