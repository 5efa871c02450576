----------------------------- MODULE PluginWeb ------------------------------
(* The files a plugin shows to the browser: what its manifest declares, what *)
(* load makes of a declaration and rejects, and what a request gets later,   *)
(* when the plugin's directory may have changed.  Each declaration is        *)
(* treated alone; a plugin with several is served what any of them matches.  *)
EXTENDS Naturals, Sequences

CONSTANTS Names,     \* names of files and directories
          Dirs,      \* those that may have something below them
          Literal    \* those a declaration uses

VARIABLES
  tree,      \* the plugin's directory: paths to kinds
  declared,  \* the declaration: its parts, and whether it ends in a slash
  export,    \* what load made of it: none, rejected, or the export
  edited     \* the directory has changed since

vars == <<tree, declared, export, edited>>

(* Directories are two levels deep.  What is below a link is what the system *)
(* would find through it.                                                    *)
Tops == {<<n>> : n \in Names}
Paths == Tops \cup {<<n, m>> : n \in Dirs, m \in Names}
Kinds == {"absent", "file", "dir", "link"}
Trees ==
  {t \in [Paths -> Kinds] :
     \A p \in Paths \ Tops : /\ t[p] # "dir"
                             /\ t[p] = "absent" \/ t[<<p[1]>>] \in {"dir", "link"}}

Parts == Literal \cup {"*", "**"}
Patterns == {<<p>> : p \in Parts} \cup {<<p, q>> : p, q \in Parts}
Declarations == [pattern : Patterns, slash : BOOLEAN]
Exports == [pattern : Patterns, directory : BOOLEAN, glob : BOOLEAN]

None == [pattern |-> <<>>, directory |-> FALSE, glob |-> FALSE]
Rejected == [None EXCEPT !.glob = TRUE]

TypeOK ==
  /\ tree \in Trees /\ declared \in Declarations /\ edited \in BOOLEAN
  /\ export \in Exports \cup {None, Rejected}

Init == tree \in Trees /\ declared \in Declarations /\ export = None /\ edited = FALSE

----------------------------------------------------------------------------
(* The matchers take a pattern and a path apart, part by part.               *)
Fits(part, name) == part \in {"*", "**"} \/ part = name
Pairs == Seq(Parts) \X Seq(Names)

(* Mutant: `**` stands for one directory at least.                           *)
OneOrMore[x \in Pairs] ==
  LET pattern == x[1]
      path == x[2]
  IN IF pattern = <<>> \/ path = <<>> THEN pattern = path
     ELSE /\ Fits(Head(pattern), Head(path))
          /\ \/ OneOrMore[<<Tail(pattern), Tail(path)>>]
             \/ Head(pattern) = "**" /\ OneOrMore[<<pattern, Tail(path)>>]

MatchOneOrMore(pattern, path) == OneOrMore[<<pattern, path>>]

(* companyPatternMatch.                                                      *)
PatternMatch[x \in Pairs] ==
  LET pattern == x[1]
      path == x[2]
  IN IF pattern = <<>> THEN path = <<>>
     ELSE IF Head(pattern) = "**"
          THEN \/ PatternMatch[<<Tail(pattern), path>>]
               \/ path # <<>> /\ PatternMatch[<<pattern, Tail(path)>>]
     ELSE /\ path # <<>> /\ Fits(Head(pattern), Head(path))
          /\ PatternMatch[<<Tail(pattern), Tail(path)>>]

Match(pattern, path) == PatternMatch[<<pattern, path>>]

(* Mutant: a link is in the way only if the pattern matches the link itself. *)
OnlyItself(pattern, path) == Match(pattern, path)

(* companyPatternCanMatchPrefix: the pattern may match something below path. *)
PrefixMatch[x \in Pairs] ==
  LET pattern == x[1]
      path == x[2]
  IN IF path = <<>> THEN TRUE
     ELSE IF pattern = <<>> THEN FALSE
     ELSE IF Head(pattern) = "**"
          THEN PrefixMatch[<<Tail(pattern), path>>] \/ PrefixMatch[<<pattern, Tail(path)>>]
     ELSE /\ Fits(Head(pattern), Head(path))
          /\ PrefixMatch[<<Tail(pattern), Tail(path)>>]

CanMatchPrefix(pattern, path) == PrefixMatch[<<pattern, path>>]

(* companyPathInfo and companyRegularPath: the kind of a path with no link   *)
(* on the way, "absent" if there is one.                                     *)
KindOf(path) ==
  IF path \notin Paths \/ (Len(path) = 2 /\ tree[<<path[1]>>] # "dir") THEN "absent"
  ELSE tree[path]

----------------------------------------------------------------------------
(* normalizeCompanyExport and the start of validateCompanyExports: an exact  *)
(* path that is a directory is declared as one.                              *)
Normalized ==
  LET glob == \E i \in DOMAIN declared.pattern : declared.pattern[i] \in {"*", "**"}
  IN [pattern |-> declared.pattern, glob |-> glob,
      directory |-> declared.slash \/ (~glob /\ KindOf(declared.pattern) = "dir")]

(* filepath.Walk does not follow links.                                      *)
Walked == {p \in Paths : KindOf(p) # "absent"}

GlobIsValid(e) == \A p \in Walked : KindOf(p) = "link" => ~CanMatchPrefix(e.pattern, p)

(* The paths that CompanyFile takes for what is below a directory.           *)
IsBelow(dir, path) == Len(dir) < Len(path) /\ SubSeq(path, 1, Len(dir)) = dir

TreeIsValid(e) == \A p \in Walked : IsBelow(e.pattern, p) => KindOf(p) # "link"

ExportIsValid(e) ==
  IF e.glob THEN GlobIsValid(e)
  ELSE IF e.directory THEN KindOf(e.pattern) = "dir" /\ TreeIsValid(e)
  ELSE KindOf(e.pattern) = "file"

LoadHook ==
  /\ export = None
  /\ export' = IF ExportIsValid(Normalized) THEN Normalized ELSE Rejected
  /\ UNCHANGED <<tree, declared, edited>>

(* The user, or an update, changes the plugin's files, one after the other.  *)
EditPlugin ==
  /\ export \notin {None, Rejected}
  /\ \E p \in Paths, k \in Kinds : tree' = [tree EXCEPT ![p] = k] /\ tree' \in Trees
  /\ edited' = TRUE /\ UNCHANGED <<declared, export>>

WebStep == LoadHook \/ EditPlugin

Next == WebStep
Spec == Init /\ [][Next]_vars

(* CompanyFile.                                                              *)
Matched(path) ==
  IF export.directory THEN IsBelow(export.pattern, path)
  ELSE IF export.glob THEN Match(export.pattern, path)
  ELSE path = export.pattern

Served(path) == Matched(path) /\ KindOf(path) = "file"

----------------------------------------------------------------------------
(* What a declaration names, by what the manifest means: `**` stands for any *)
(* number of directories, `*` for one name.  f[i] is how much of the path    *)
(* the first i parts of the pattern take.                                    *)
Stands(pattern, path) ==
  \E f \in [0 .. Len(pattern) -> 0 .. Len(path)] :
    /\ f[0] = 0 /\ f[Len(pattern)] = Len(path)
    /\ \A i \in 1 .. Len(pattern) :
         IF pattern[i] = "**" THEN f[i - 1] <= f[i]
         ELSE f[i] = f[i - 1] + 1 /\ pattern[i] \in {"*", path[f[i]]}

Named(path) ==
  IF export.glob THEN Stands(export.pattern, path)
  ELSE IF export.directory THEN IsBelow(export.pattern, path)
  ELSE path = export.pattern

(* A declaration that load accepts is served as it stands: every file that   *)
(* it names then, even one the system finds through a link, and later every  *)
(* file it names that no link leads to; nothing else.  A pattern that ends   *)
(* in a slash is excepted: load takes it for a pattern, CompanyFile for a    *)
(* directory of that name, and it serves nothing.                            *)
DeclaredIsServed ==
  export \notin {None, Rejected} /\ ~(export.glob /\ export.directory) =>
    \A p \in Paths :
      /\ Served(p) <=> Named(p) /\ KindOf(p) = "file"
      /\ ~edited => (Served(p) <=> Named(p) /\ tree[p] = "file")
=============================================================================
