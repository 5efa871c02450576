------------------------------- MODULE SemVer -------------------------------
(***************************************************************************)
(* The versions of plugins and the constraints their dependents put on     *)
(* them (internal/plugins/semver.go). The code keeps the numbers as digit  *)
(* strings without leading zeros and compares them by length and then by   *)
(* digits, which is the order of the numbers they write.                   *)
(***************************************************************************)
EXTENDS Integers, Sequences

(* Versions: a number a release has, and the identifiers of a prerelease, a *)
(* number being a numeric identifier and a string an alphanumeric one.      *)

Release(v) == <<v.major, v.minor, v.patch>>

\* Identifiers of the two kinds never compare equal and numeric ones come first.
IdentifierLess(a, b) ==
  IF a.numeric = b.numeric THEN a.value < b.value ELSE a.numeric

SeqLess(s, t, Less(_, _)) ==
  \/ \E k \in 1..Len(t) : /\ k <= Len(s) /\ Less(s[k], t[k])
                          /\ \A j \in 1..k - 1 : ~Less(s[j], t[j]) /\ ~Less(t[j], s[j])
  \/ /\ Len(s) < Len(t)
     /\ \A j \in 1..Len(s) : ~Less(s[j], t[j]) /\ ~Less(t[j], s[j])

NumberLess(a, b) == a < b

CompareSemVersion(v, w) ==
  LET less(a, b) ==
        \/ SeqLess(Release(a), Release(b), NumberLess)
        \/ /\ Release(a) = Release(b)
           /\ a.pre # <<>>
           /\ b.pre = <<>> \/ SeqLess(a.pre, b.pre, IdentifierLess)
  IN  IF less(v, w) THEN -1 ELSE IF less(w, v) THEN 1 ELSE 0

Version(major, minor, patch) == [major |-> major, minor |-> minor, patch |-> patch, pre |-> <<>>]

Predicate(op, v) == [op |-> op, version |-> v]

Matches(p, v) ==
  LET c == CompareSemVersion(v, p.version)
  IN  CASE p.op = "=" -> c = 0 [] p.op = ">" -> c > 0 [] p.op = ">=" -> c >= 0
        [] p.op = "<" -> c < 0 [] p.op = "<=" -> c <= 0

\* mutant: a caret is taken to keep the major part, of 0.x versions too.
CaretOfMajor(v) == Version(v.major + 1, 0, 0)

\* The first version above every release a caret (a tilde) admits.
Caret(v) == IF v.major # 0 THEN Version(v.major + 1, 0, 0)
            ELSE IF v.minor # 0 THEN Version(v.major, v.minor + 1, 0)
            ELSE Version(v.major, v.minor, v.patch + 1)
Tilde(v) == Version(v.major, v.minor + 1, 0)

\* A constraint is a chain of tokens [op, version]; a wildcard names the parts
\* that are given, and the missing ones are zero.
ParseVersionConstraint(token) ==
  CASE token.op = "^"   -> <<Predicate(">=", token.version), Predicate("<", Caret(token.version))>>
    [] token.op = "~"   -> <<Predicate(">=", token.version), Predicate("<", Tilde(token.version))>>
    [] token.op = "N.x" -> <<Predicate(">=", Version(token.version.major, 0, 0)),
                             Predicate("<", Version(token.version.major + 1, 0, 0))>>
    [] token.op = "N.N.x" -> <<Predicate(">=", Version(token.version.major, token.version.minor, 0)),
                               Predicate("<", Tilde(token.version))>>
    [] OTHER -> <<Predicate(token.op, token.version)>>

MatchVersion(tokens, v) ==
  \A i \in 1..Len(tokens) : \A j \in 1..Len(ParseVersionConstraint(tokens[i])) :
    Matches(ParseVersionConstraint(tokens[i])[j], v)

----------------------------------------------------------------------------
(* What the versions mean, said another way: each one is spelt with letters, *)
(* which are pairs of numbers, and their order is that of a dictionary. The   *)
(* letters are the parts of the release, the identifiers of the prerelease,   *)
(* and then the same last letter forever: the lowest one after a prerelease,  *)
(* and the highest where there is none.                                       *)

SemIdentifiers == [numeric : BOOLEAN, value : Nat]
SemVersions == [major : Nat, minor : Nat, patch : Nat, pre : Seq(SemIdentifiers)]

Letter(v, i) ==
  CASE i <= 3 -> <<0, Release(v)[i]>>
    [] i > 3 /\ i - 3 <= Len(v.pre) ->
         <<IF v.pre[i - 3].numeric THEN 1 ELSE 2, v.pre[i - 3].value>>
    [] OTHER -> <<IF v.pre = <<>> THEN 3 ELSE 0, 0>>

LetterBefore(a, b) == a[1] < b[1] \/ (a[1] = b[1] /\ a[2] < b[2])

Precedes(v, w) ==
  \E i \in 1..Len(v.pre) + 4 :
    /\ LetterBefore(Letter(v, i), Letter(w, i))
    /\ \A j \in 1..i - 1 : Letter(v, j) = Letter(w, j)

Operators == {"=", ">", ">=", "<", "<=", "^", "~", "N.x", "N.N.x"}
Tokens == [op : Operators, version : SemVersions]

\* The versions a token admits: from its version on, those that keep the
\* leftmost part that is not zero (caret), the minor part (tilde) or the parts
\* a wildcard gives - and the prereleases of the first release beyond them,
\* which precede it.
Keeps(token, v) ==
  LET t == token.version
  IN  CASE token.op = "^" -> /\ v.major = t.major
                             /\ t.major = 0 => v.minor = t.minor
                             /\ t.major = 0 /\ t.minor = 0 => v.patch = t.patch
        [] token.op \in {"~", "N.N.x"} -> v.major = t.major /\ v.minor = t.minor
        [] token.op = "N.x" -> v.major = t.major

Beyond(token) ==
  LET t == token.version
  IN  CASE token.op = "N.x" \/ (token.op = "^" /\ t.major # 0) -> <<t.major + 1, 0, 0>>
        [] token.op = "^" /\ t.major = 0 /\ t.minor = 0 -> <<0, 0, t.patch + 1>>
        [] OTHER -> <<t.major, t.minor + 1, 0>>

From(token) ==
  LET t == token.version
  IN  CASE token.op = "N.x" -> Version(t.major, 0, 0)
        [] token.op = "N.N.x" -> Version(t.major, t.minor, 0)
        [] OTHER -> t

Admits(token, v) ==
  LET from == From(token)
  IN  CASE token.op = "=" -> v = from
        [] token.op = ">=" -> ~Precedes(v, from)
        [] token.op = ">" -> Precedes(from, v)
        [] token.op = "<=" -> ~Precedes(from, v)
        [] token.op = "<" -> Precedes(v, from)
        [] OTHER -> /\ ~Precedes(v, from)
                    /\ Keeps(token, v) \/ (v.pre # <<>> /\ Release(v) = Beyond(token))
=============================================================================
