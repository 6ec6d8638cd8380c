------------------------------ MODULE FilePath ------------------------------
(***************************************************************************)
(* FilePath (file/file_path.cc): the operations on paths that              *)
(* CreateDirectory and FileEnumerator are made of.                         *)
(*                                                                         *)
(* A path is a sequence of tokens: Sep is one separator, anything else is  *)
(* the name of a component; two names are never next to each other.        *)
(***************************************************************************)
EXTENDS Integers, Sequences, FiniteSets, FiniteSetsExt

CONSTANT Tokens

Sep == "/"
kCurrentDirectory == "."
kParentDirectory == ".."

ASSUME TokensAssumption == {Sep, kCurrentDirectory, kParentDirectory} \subseteq Tokens

IsSeparator(token) == token = Sep

(* What a file may be called. *)
Names == Tokens \ {Sep, kCurrentDirectory, kParentDirectory}

Paths ==
  {path \in Seq(Tokens) :
     \A i \in 1..(Len(path) - 1) : IsSeparator(path[i]) \/ IsSeparator(path[i + 1])}

(* Separators at the end are stripped but for a leading one, and all of    *)
(* them but the first of three or more; exactly two are left alone.        *)
StripTrailingSeparators(path) ==
  IF path = <<Sep, Sep>> THEN path
  ELSE LET kept == {i \in DOMAIN path : i = 1 \/ ~IsSeparator(path[i])}
       IN SubSeq(path, 1, IF path = <<>> THEN 0 ELSE Max(kept))

LastSeparator(path) ==
  LET seps == {i \in DOMAIN path : IsSeparator(path[i])}
  IN IF seps = {} THEN 0 ELSE Max(seps)

AppendTo(path, component) ==
  LET stripped == StripTrailingSeparators(path)
      joined == component # <<>> /\ stripped # <<>>
                  /\ ~IsSeparator(stripped[Len(stripped)])
  IN IF path = <<kCurrentDirectory>> THEN component
     ELSE stripped \o (IF joined THEN <<Sep>> ELSE <<>>) \o component

BaseName(path) ==
  LET stripped == StripTrailingSeparators(path)
      last == LastSeparator(stripped)
  IN IF last \in 1..(Len(stripped) - 1)
     THEN SubSeq(stripped, last + 1, Len(stripped)) ELSE stripped

(* The root directory, also that of two separators, stays; otherwise the   *)
(* last component goes, and the separator before it.                       *)
DirectoryName(path) ==
  LET stripped == StripTrailingSeparators(path)
      last == LastSeparator(stripped)
      isRoot == last = 1 \/ (last = 2 /\ IsSeparator(stripped[1]))
      parent == StripTrailingSeparators(
                  SubSeq(stripped, 1, IF isRoot \/ last = 0 THEN last ELSE last - 1))
  IN IF parent = <<>> THEN <<kCurrentDirectory>> ELSE parent

-----------------------------------------------------------------------------
(* CreateDirectory's list of a path and its parents, outermost first: the  *)
(* directory name is taken until it is its own.                            *)
SubPaths(path) ==
  LET up[i \in 0..(Len(path) + 2)] ==
        IF i = 0 THEN path ELSE DirectoryName(up[i - 1])
      depth == Min({i \in 1..(Len(path) + 2) : up[i] = up[i - 1]})
  IN [i \in 1..depth |-> up[depth - i]]
=============================================================================
