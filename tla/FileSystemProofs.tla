-------------------------- MODULE FileSystemProofs --------------------------
(***************************************************************************)
(* What FileSystem states of ReadFile, WriteFile, CreateDirectory and      *)
(* FileEnumerator, for any number of processes and calls, any tree, files  *)
(* of any length, any limits, patterns, sizes of an int and first          *)
(* allocations, and any interleaving of the system calls with those of     *)
(* others and with removals.                                               *)
(*                                                                         *)
(* FilesInv says for each place of ReadFile and WriteFile what has been    *)
(* read and written so far, as long as nobody else has touched the file:   *)
(* a beginning of the file, counted by an int that may have overflowed.    *)
(* CreatorsInv says of a call of CreateDirectory how many of the paths are *)
(* done, and that they are directories where nothing has been removed or   *)
(* replaced; that needs to be known of all the paths before one, since     *)
(* where a path leads depends on them.  For that the first part of the     *)
(* module is about paths: what GetSubPaths gives, and that a path leads    *)
(* where its last name does in its DirectoryName.                          *)
(*                                                                         *)
(* ListInv says of an enumeration what has been listed, is to be listed,   *)
(* is to be read and is being read: no path is below two of them, only     *)
(* what should be listed is or will be, and for every name that should be  *)
(* there is always a directory on the way to it that is still to be read,  *)
(* or is being read and not yet past the name.                             *)
(*                                                                         *)
(* FoldLeft is a recursive function over a set of indices: what it gives   *)
(* is shown by the smallest index at which it would fail (SmallestOf).     *)
(***************************************************************************)
EXTENDS FileSystem, SequenceTheorems, WellFoundedInduction, TLAPS

-----------------------------------------------------------------------------
LEMMA SmallestOf ==
  ASSUME NEW S \in SUBSET Nat, S # {}
  PROVE  \E n \in S : \A m \in S : n <= m
<1>1. PICK n \in S : \A m \in S : ~ (<<m, n>> \in OpToRel(<, Nat))
  BY WFMin, NatLessThanWellFounded, Zenon
<1>2. \A m \in S : ~ (m < n)
  BY <1>1, Zenon DEF OpToRel
<1> QED
  BY <1>2

(* A number that is in a set and at least every other member is its        *)
(* maximum. *)
LEMMA MaxIs ==
  ASSUME NEW S \in SUBSET Int, NEW m \in S, \A n \in S : n <= m
  PROVE  Max(S) = m
<1>1. \E x \in S : \A y \in S : x >= y
  OBVIOUS
<1> DEFINE max == Max(S)
<1>2. max \in S /\ \A y \in S : max >= y
  BY <1>1, Zenon DEF Max
<1> HIDE DEF max
<1>3. max >= m /\ m >= max /\ m \in Int /\ max \in Int
  BY <1>2
<1> QED
  BY <1>3 DEF max

(* A set of numbers below a bound has a greatest member. *)
LEMMA MaxIn ==
  ASSUME NEW n \in Nat, NEW S \in SUBSET (1..n), S # {}
  PROVE  Max(S) \in S /\ \A x \in S : x <= Max(S)
<1> DEFINE T == {n - x : x \in S}
<1>1. T \in SUBSET Nat /\ T # {}
  <2>1. PICK x \in S : TRUE
    OBVIOUS
  <2>2. n - x \in T
    OBVIOUS
  <2> QED
    BY <2>2
<1>2. PICK t \in T : \A u \in T : t <= u
  BY <1>1, SmallestOf, Zenon
<1>3. PICK m \in S : t = n - m
  OBVIOUS
<1>4. \A x \in S : x <= m
  BY <1>2, <1>3
<1>5. S \in SUBSET Int
  OBVIOUS
<1>6. Max(S) = m
  BY <1>4, <1>5, MaxIs
<1> QED
  BY <1>4, <1>6

-----------------------------------------------------------------------------
(* Paths. *)

LEMMA TokensDiffer ==
  /\ kCurrentDirectory # kParentDirectory
  /\ ~IsSeparator(kCurrentDirectory) /\ ~IsSeparator(kParentDirectory)
  BY DEF kCurrentDirectory, kParentDirectory, IsSeparator, Sep

LEMMA PrefixOfPath ==
  ASSUME NEW path \in Paths, NEW n \in 0..Len(path)
  PROVE  /\ SubSeq(path, 1, n) \in Paths
         /\ Len(SubSeq(path, 1, n)) = n
         /\ \A i \in 1..n : SubSeq(path, 1, n)[i] = path[i]
<1>1. path \in Seq(Tokens) /\ Len(path) \in Nat
  BY LenProperties DEF Paths
<1> DEFINE sub == SubSeq(path, 1, n)
<1>2. \A i \in 1..n : path[i] \in Tokens
  BY <1>1, ElementOfSeq
<1>3. sub \in Seq(Tokens) /\ Len(sub) = n /\ \A i \in 1..n : sub[i] = path[i]
  BY <1>1, <1>2, SubSeqProperties
<1> HIDE DEF sub
<1>4. ASSUME NEW i \in 1..(n - 1)
      PROVE  IsSeparator(sub[i]) \/ IsSeparator(sub[i + 1])
  <2>1. i \in 1..n /\ i + 1 \in 1..n /\ i \in 1..(Len(path) - 1)
    BY <1>1
  <2>2. IsSeparator(path[i]) \/ IsSeparator(path[i + 1])
    BY <2>1, Zenon DEF Paths
  <2> QED
    BY <1>3, <2>1, <2>2
<1>5. sub \in Paths
  BY <1>3, <1>4, Zenon DEF Paths
<1> QED
  BY <1>3, <1>5 DEF sub

LEMMA SubSeqPrefix ==
  ASSUME NEW s \in Seq(Tokens), NEW k \in 0..Len(s), NEW m \in 0..k
  PROVE  SubSeq(SubSeq(s, 1, k), 1, m) = SubSeq(s, 1, m)
<1>1. Len(s) \in Nat /\ \A i \in 1..Len(s) : s[i] \in Tokens
  BY LenProperties, ElementOfSeq
<1> DEFINE t == SubSeq(s, 1, k)
<1>2. t \in Seq(Tokens) /\ Len(t) = k /\ \A i \in 1..k : t[i] = s[i]
  BY <1>1, SubSeqProperties
<1> HIDE DEF t
<1> DEFINE a == SubSeq(t, 1, m)
           b == SubSeq(s, 1, m)
<1>3. \A i \in 1..m : t[i] \in Tokens /\ s[i] \in Tokens
  BY <1>1, <1>2
<1>4. a \in Seq(Tokens) /\ Len(a) = m /\ \A i \in 1..m : a[i] = t[i]
  BY <1>1, <1>3, SubSeqProperties
<1>5. b \in Seq(Tokens) /\ Len(b) = m /\ \A i \in 1..m : b[i] = s[i]
  BY <1>1, <1>3, SubSeqProperties
<1> HIDE DEF a, b
<1>6. \A i \in 1..Len(a) : a[i] = b[i]
  BY <1>1, <1>2, <1>4, <1>5
<1>7. a = b
  BY <1>4, <1>5, <1>6, SeqEqual
<1> QED
  BY <1>7 DEF a, b, t

(* What is stripped is separators; what is left ends with a name, or is    *)
(* one separator, or two.                                                  *)
LEMMA StripIs ==
  ASSUME NEW path \in Paths, path # <<>>
  PROVE  \E n \in 1..Len(path) :
           /\ StripTrailingSeparators(path) = SubSeq(path, 1, n)
           /\ \A i \in (n + 1)..Len(path) : IsSeparator(path[i])
           /\ IsSeparator(path[n]) => n = 1 \/ (n = 2 /\ path = <<Sep, Sep>>)
<1>1. path \in Seq(Tokens) /\ Len(path) \in Nat \ {0} /\ DOMAIN path = 1..Len(path)
  BY LenProperties, EmptySeq DEF Paths
<1>2. CASE path = <<Sep, Sep>>
  <2>1. Len(path) = 2 /\ path[2] = Sep
    BY <1>2
  <2>2. StripTrailingSeparators(path) = SubSeq(path, 1, 2)
    BY <1>1, <1>2, <2>1, SubSeqFull DEF StripTrailingSeparators
  <2>3. 2 \in 1..Len(path) /\ \A i \in (2 + 1)..Len(path) : IsSeparator(path[i])
    BY <2>1
  <2> QED
    BY <1>2, <2>2, <2>3, Zenon
<1>3. CASE path # <<Sep, Sep>>
  <2> DEFINE kept == {i \in DOMAIN path : i = 1 \/ ~IsSeparator(path[i])}
             n == Max(kept)
  <2>1. kept \in SUBSET (1..Len(path)) /\ 1 \in kept
    BY <1>1
  <2>2. StripTrailingSeparators(path) = SubSeq(path, 1, n)
    BY <1>3, Zenon DEF StripTrailingSeparators
  <2>3. n \in kept /\ \A x \in kept : x <= n
    <3> HIDE DEF kept
    <3> QED
      BY <1>1, <2>1, MaxIn
  <2> HIDE DEF n
  <2>4. n \in 1..Len(path) /\ (n = 1 \/ ~IsSeparator(path[n]))
    BY <1>1, <2>3
  <2>5. ASSUME NEW i \in (n + 1)..Len(path)
        PROVE  IsSeparator(path[i])
    <3>1. i \in DOMAIN path /\ ~(i <= n)
      BY <1>1, <2>4
    <3> QED
      BY <2>3, <3>1
  <2> QED
    BY <2>2, <2>4, <2>5
<1> QED
  BY <1>2, <1>3

LEMMA LastSeparatorIs ==
  ASSUME NEW path \in Paths
  PROVE  /\ LastSeparator(path) \in 0..Len(path)
         /\ LastSeparator(path) # 0 => IsSeparator(path[LastSeparator(path)])
         /\ \A i \in (LastSeparator(path) + 1)..Len(path) : ~IsSeparator(path[i])
<1>1. path \in Seq(Tokens) /\ Len(path) \in Nat /\ DOMAIN path = 1..Len(path)
  BY LenProperties DEF Paths
<1> DEFINE seps == {i \in DOMAIN path : IsSeparator(path[i])}
<1>2. CASE seps = {}
  <2>1. LastSeparator(path) = 0
    BY <1>2, Zenon DEF LastSeparator
  <2> QED
    BY <1>1, <1>2, <2>1
<1>3. CASE seps # {}
  <2>1. LastSeparator(path) = Max(seps)
    BY <1>3, Zenon DEF LastSeparator
  <2>2. seps \in SUBSET (1..Len(path))
    BY <1>1
  <2> DEFINE last == Max(seps)
  <2>3. last \in seps /\ \A x \in seps : x <= last
    <3> HIDE DEF seps
    <3> QED
      BY <1>1, <1>3, <2>2, MaxIn
  <2> HIDE DEF last
  <2>4. last \in 1..Len(path) /\ IsSeparator(path[last])
    BY <1>1, <2>3
  <2>5. ASSUME NEW i \in (last + 1)..Len(path), IsSeparator(path[i])
        PROVE  FALSE
    <3>1. i \in seps /\ ~(i <= last)
      BY <1>1, <2>4, <2>5
    <3> QED
      BY <2>3, <3>1
  <2> QED
    BY <1>1, <2>1, <2>4, <2>5 DEF last
<1> QED
  BY <1>2, <1>3

(* A path goes on from another by one name, wherever the separators are.   *)
OnlySeparators(path, from, to) == \A i \in from..to : IsSeparator(path[i])
GoesOn(path, m) ==
  \E j \in (m + 1)..Len(path) :
    /\ ~IsSeparator(path[j])
    /\ OnlySeparators(path, m + 1, j - 1)
    /\ OnlySeparators(path, j + 1, Len(path))

Here == <<kCurrentDirectory>>

(* The directory of a path: the path but for its last name, the current    *)
(* directory if that is all there is, or the root that it is.              *)
LEMMA DirectoryNameIs ==
  ASSUME NEW path \in Paths, path # <<>>
  PROVE  \/ DirectoryName(path) = Here /\ GoesOn(path, 0)
         \/ \E m \in 1..(Len(path) - 1) : DirectoryName(path) = SubSeq(path, 1, m) /\ GoesOn(path, m)
         \/ /\ OnlySeparators(path, 1, Len(path))
            /\ \E m \in 1..Len(path) : DirectoryName(path) = SubSeq(path, 1, m)
<1>1. path \in Seq(Tokens) /\ Len(path) \in Nat \ {0}
  BY LenProperties, EmptySeq DEF Paths
<1>2. PICK n \in 1..Len(path) :
           /\ StripTrailingSeparators(path) = SubSeq(path, 1, n)
           /\ \A i \in (n + 1)..Len(path) : IsSeparator(path[i])
           /\ IsSeparator(path[n]) => n = 1 \/ (n = 2 /\ path = <<Sep, Sep>>)
  BY StripIs
<1> DEFINE stripped == SubSeq(path, 1, n)
           last == LastSeparator(stripped)
           isRoot == last = 1 \/ (last = 2 /\ IsSeparator(stripped[1]))
           k == IF isRoot \/ last = 0 THEN last ELSE last - 1
           parent == StripTrailingSeparators(SubSeq(stripped, 1, k))
<1>3. DirectoryName(path) = IF parent = <<>> THEN Here ELSE parent
  BY <1>2, Zenon DEF DirectoryName, Here
<1>4. stripped \in Paths /\ Len(stripped) = n /\ \A i \in 1..n : stripped[i] = path[i]
  BY <1>1, PrefixOfPath
<1> HIDE DEF stripped
<1>5. /\ last \in 0..n
      /\ last # 0 => IsSeparator(stripped[last])
      /\ \A i \in (last + 1)..n : ~IsSeparator(stripped[i])
  BY <1>4, LastSeparatorIs
<1> HIDE DEF last
<1>6. last = n \/ last = n - 1
  <2>1. CASE last < n - 1
    <3>1. n \in Int /\ last \in Int /\ last + 1 \in (last + 1)..n /\ last + 2 \in (last + 1)..n /\ last + 1 \in 1..(Len(stripped) - 1)
      BY <1>4, <1>5, <2>1
    <3>2. IsSeparator(stripped[last + 1]) \/ IsSeparator(stripped[(last + 1) + 1])
      BY <1>4, <3>1, Zenon DEF Paths
    <3>3. (last + 1) + 1 = last + 2
      BY <3>1
    <3> QED
      BY <1>5, <3>1, <3>2, <3>3, Zenon
  <2> QED
    BY <1>1, <1>5, <2>1
<1>7. k \in 0..n
  BY <1>5, <1>1
<1>8. k = 0 => last = 0
  BY <1>5, <1>1
<1>9. /\ SubSeq(stripped, 1, k) = SubSeq(path, 1, k)
  <2>1. SubSeq(stripped, 1, k) \in Paths /\ Len(SubSeq(stripped, 1, k)) = k /\ \A i \in 1..k : SubSeq(stripped, 1, k)[i] = stripped[i]
    BY <1>4, <1>7, PrefixOfPath
  <2>2. k \in 0..Len(path)
    BY <1>1, <1>7
  <2> HIDE DEF k
  <2>3. SubSeq(path, 1, k) \in Paths /\ Len(SubSeq(path, 1, k)) = k /\ \A i \in 1..k : SubSeq(path, 1, k)[i] = path[i]
    BY <2>2, PrefixOfPath
  <2> DEFINE s == SubSeq(stripped, 1, k)
             t == SubSeq(path, 1, k)
  <2>4. s \in Seq(Tokens) /\ t \in Seq(Tokens) /\ Len(s) = Len(t)
    BY <2>1, <2>3 DEF Paths
  <2>5. \A i \in 1..Len(s) : s[i] = t[i]
    BY <1>4, <1>7, <2>1, <2>3
  <2> HIDE DEF s, t
  <2>6. s = t
    BY <2>4, <2>5, SeqEqual
  <2> QED
    BY <2>6 DEF s, t
(* Nothing but a name. *)
<1>10. CASE last = 0
  <2>1. k = 0 /\ n = 1
    BY <1>1, <1>6, <1>10
  <2>2. SubSeq(path, 1, 0) = <<>>
    BY SubSeqEmpty
  <2>3. parent = <<>>
    <3>1. parent = StripTrailingSeparators(<<>>)
      BY <1>9, <2>1, <2>2, Zenon
    <3>2. StripTrailingSeparators(<<>>) = SubSeq(<<>>, 1, 0)
      BY DEF StripTrailingSeparators
    <3> QED
      BY <3>1, <3>2, SubSeqEmpty
  <2>4. ~IsSeparator(path[1])
    BY <1>4, <1>5, <1>10, <2>1
  <2>5. GoesOn(path, 0)
    <3>1. 1 \in 1..Len(path) /\ OnlySeparators(path, 1, 0) /\ OnlySeparators(path, 2, Len(path))
      BY <1>1, <1>2, <2>1 DEF OnlySeparators
    <3> QED
      BY <2>4, <3>1 DEF GoesOn
  <2> QED
    BY <1>3, <2>3, <2>5, Zenon
<1>11. CASE last # 0
  <2>1. k \in 1..n /\ SubSeq(path, 1, k) \in Paths /\ SubSeq(path, 1, k) # <<>>
        /\ Len(SubSeq(path, 1, k)) = k /\ \A i \in 1..k : SubSeq(path, 1, k)[i] = path[i]
    <3> HIDE DEF k
    <3>1. k \in 1..n /\ k \in 0..Len(path)
      BY <1>1, <1>7, <1>8, <1>11
    <3>2. SubSeq(path, 1, k) \in Paths /\ Len(SubSeq(path, 1, k)) = k /\ \A i \in 1..k : SubSeq(path, 1, k)[i] = path[i]
      BY <3>1, PrefixOfPath
    <3>3. SubSeq(path, 1, k) # <<>>
      BY <3>1, <3>2
    <3> QED
      BY <3>1, <3>2, <3>3
  <2> DEFINE top == SubSeq(path, 1, k)
  <2> HIDE DEF k
  <2>2. PICK m \in 1..Len(top) :
           /\ StripTrailingSeparators(top) = SubSeq(top, 1, m)
           /\ \A i \in (m + 1)..Len(top) : IsSeparator(top[i])
           /\ IsSeparator(top[m]) => m = 1 \/ (m = 2 /\ top = <<Sep, Sep>>)
    <3> HIDE DEF top
    <3> QED
      BY <2>1, StripIs DEF top
  <2>3. m \in 1..k /\ \A i \in (m + 1)..k : IsSeparator(path[i])
    BY <2>1, <2>2
  <2>4. SubSeq(top, 1, m) = SubSeq(path, 1, m)
    BY <1>1, <2>1, <2>3, SubSeqPrefix
  <2>5. parent = SubSeq(path, 1, m) /\ parent # <<>>
    <3>1. parent = SubSeq(path, 1, m)
      BY <1>9, <2>2, <2>4, Zenon
    <3>2. Len(SubSeq(path, 1, m)) = m
      BY <1>1, <2>1, <2>3, PrefixOfPath
    <3> QED
      BY <2>3, <3>1, <3>2
  <2>6. DirectoryName(path) = SubSeq(path, 1, m)
    BY <1>3, <2>5, Zenon
  <2>7. ASSUME last = n - 1
        PROVE  GoesOn(path, m) /\ m \in 1..(Len(path) - 1)
    <3>1. n \in (m + 1)..Len(path) /\ m \in 1..(Len(path) - 1)
      BY <1>1, <2>1, <2>3, <2>7, <1>11 DEF k
    <3>2. ~IsSeparator(path[n])
      BY <1>1, <1>4, <1>5, <2>7
    <3>3. ASSUME NEW i \in (m + 1)..(n - 1) PROVE IsSeparator(path[i])
      <4>1. CASE i <= k
        BY <1>1, <2>1, <2>3, <3>3, <4>1
      <4>2. CASE i > k
        <5>1. i = last
          BY <1>1, <1>5, <2>7, <3>3, <4>2, <2>1, <2>3 DEF k
        <5> QED
          BY <5>1, <1>4, <1>5, <1>11, <2>7
      <4> QED
        BY <4>1, <4>2, <2>1, <2>3
    <3>4. OnlySeparators(path, m + 1, n - 1) /\ OnlySeparators(path, n + 1, Len(path))
      BY <1>2, <3>3 DEF OnlySeparators
    <3> QED
      BY <3>1, <3>2, <3>4 DEF GoesOn
  <2>8. ASSUME last = n
        PROVE  OnlySeparators(path, 1, Len(path))
    <3>1. IsSeparator(path[n])
      BY <1>1, <1>4, <1>5, <1>11, <2>8
    <3>2. n = 1 \/ (n = 2 /\ path = <<Sep, Sep>>)
      BY <1>2, <3>1
    <3>3. n = 2 /\ path = <<Sep, Sep>> => IsSeparator(path[1])
      BY DEF IsSeparator
    <3>4. ASSUME NEW i \in 1..Len(path) PROVE IsSeparator(path[i])
      <4>1. i = 1 \/ i = n \/ i \in (n + 1)..Len(path)
        BY <1>1, <3>2, <3>4
      <4> QED
        BY <1>2, <3>1, <3>2, <3>3, <4>1
    <3> QED
      BY <3>4 DEF OnlySeparators
  <2>9. m \in 1..Len(path)
    BY <1>1, <2>1, <2>3
  <2> QED
    BY <1>6, <2>6, <2>7, <2>8, <2>9, Zenon
<1> QED
  BY <1>10, <1>11

-----------------------------------------------------------------------------
(* CreateDirectory's list of paths. *)

(* The repeated directory names of a path, as SubPaths takes them. *)
IsUp(up, path, m) ==
  up = [i \in 0..m |-> IF i = 0 THEN path ELSE DirectoryName(up[i - 1])]

LEMMA UpExists ==
  ASSUME NEW path
  PROVE  \A m \in Nat : \E up : IsUp(up, path, m)
<1> DEFINE P(m) == \E up : IsUp(up, path, m)
           Bad == {m \in Nat : ~P(m)}
<1> SUFFICES Bad = {}
  OBVIOUS
<1>1. P(0)
  <2> DEFINE up == [i \in 0..0 |-> path]
  <2>1. up = [i \in 0..0 |-> IF i = 0 THEN path ELSE DirectoryName(up[i - 1])]
    OBVIOUS
  <2> QED
    BY <2>1, Zenon DEF IsUp
<1>2. ASSUME NEW m \in Nat, P(m)
      PROVE  P(m + 1)
  <2>1. PICK g : IsUp(g, path, m)
    BY <1>2
  <2> DEFINE k == m + 1
             up == [i \in 0..k |-> IF i = k THEN DirectoryName(g[m]) ELSE g[i]]
  <2>2. ASSUME NEW i \in 0..k
        PROVE  up[i] = IF i = 0 THEN path ELSE DirectoryName(up[i - 1])
    <3>1. CASE i = k
      <4>1. i - 1 = m /\ m \in 0..k /\ m # k /\ i # 0
        BY <3>1
      <4>2. up[i - 1] = g[m]
        BY <4>1
      <4> QED
        BY <3>1, <4>1, <4>2
    <3>2. CASE i # k
      <4>1. i \in 0..m /\ (i # 0 => i - 1 \in 0..k /\ i - 1 # k)
        BY <3>2
      <4>2. g[i] = IF i = 0 THEN path ELSE DirectoryName(g[i - 1])
        BY <2>1, <4>1, Zenon DEF IsUp
      <4>3. up[i] = g[i] /\ (i # 0 => up[i - 1] = g[i - 1])
        BY <3>2, <4>1, Zenon
      <4> QED
        BY <4>2, <4>3, Zenon
    <3> QED
      BY <3>1, <3>2
  <2>3. up = [i \in 0..k |-> up[i]]
    OBVIOUS
  <2> HIDE DEF up, k
  <2>4. IsUp(up, path, k)
    BY <2>2, <2>3, Zenon DEF IsUp
  <2> QED
    BY <2>4, Zenon DEF k
<1> HIDE DEF P
<1>3. CASE Bad # {}
  <2>1. PICK m \in Bad : \A n \in Bad : m <= n
    BY <1>3, SmallestOf, Zenon
  <2>2. m \in Nat /\ m # 0 /\ ~P(m)
    BY <1>1, <2>1
  <2>3. m - 1 \in Nat /\ m - 1 \notin Bad /\ (m - 1) + 1 = m
    BY <2>1, <2>2
  <2>4. P((m - 1) + 1)
    BY <1>2, <2>3, Zenon
  <2> QED
    BY <2>2, <2>3, <2>4
<1> QED
  BY <1>3

LEMMA EmptyIsHere == DirectoryName(<<>>) = Here /\ <<>> \in Paths
<1>1. SubSeq(<<>>, 1, 0) = <<>>
  BY SubSeqEmpty
<1>2. StripTrailingSeparators(<<>>) = <<>>
  BY <1>1 DEF StripTrailingSeparators
<1>3. LastSeparator(<<>>) = 0
  BY DEF LastSeparator
<1>4. DirectoryName(<<>>) = Here
  BY <1>1, <1>2, <1>3 DEF DirectoryName, Here
<1>5. <<>> \in Paths
  BY DEF Paths
<1> QED
  BY <1>4, <1>5

(* The directory of a path is shorter, or the current directory, or it is  *)
(* the path itself.                                                        *)
LEMMA DirectoryNameShorter ==
  ASSUME NEW path \in Paths
  PROVE  /\ DirectoryName(path) \in Paths \ {<<>>}
         /\ \/ DirectoryName(path) = Here
            \/ DirectoryName(path) = path
            \/ Len(DirectoryName(path)) < Len(path)
         /\ DirectoryName(Here) = Here
<1>1. Here \in Paths /\ Here # <<>> /\ Len(Here) = 1
  <2>1. Here \in Seq(Tokens) /\ Len(Here) = 1
    <3>1. kCurrentDirectory \in Tokens
      BY TokensAssumption
    <3> QED
      BY <3>1 DEF Here
  <2>2. \A i \in 1..(Len(Here) - 1) : IsSeparator(Here[i]) \/ IsSeparator(Here[i + 1])
    BY <2>1
  <2>3. Here \in Paths
    BY <2>1, <2>2, Zenon DEF Paths
  <2> QED
    BY <2>1, <2>3
<1>2. DirectoryName(Here) = Here
  <2>1. Here[1] = kCurrentDirectory /\ ~IsSeparator(Here[1]) /\ Len(Here) = 1
    BY <1>1, TokensDiffer DEF Here
  <2>2. ~OnlySeparators(Here, 1, Len(Here))
    BY <2>1 DEF OnlySeparators
  <2>3. 1..(Len(Here) - 1) = {}
    BY <2>1
  <2> QED
    BY <1>1, <2>2, <2>3, DirectoryNameIs, Zenon
<1>3. CASE path = <<>>
  <2>1. DirectoryName(<<>>) = Here
    BY EmptyIsHere
  <2> QED
    BY <1>1, <1>2, <1>3, <2>1
<1>4. CASE path # <<>>
  <2>1. path \in Seq(Tokens) /\ Len(path) \in Nat \ {0}
    BY <1>4, LenProperties, EmptySeq DEF Paths
  <2>2. ASSUME NEW m \in 1..Len(path), DirectoryName(path) = SubSeq(path, 1, m)
        PROVE  /\ DirectoryName(path) \in Paths \ {<<>>}
               /\ DirectoryName(path) = path \/ Len(DirectoryName(path)) < Len(path)
    <3>1. m \in 0..Len(path)
      BY <2>1
    <3>2. DirectoryName(path) \in Paths /\ Len(DirectoryName(path)) = m
      BY <2>2, <3>1, PrefixOfPath
    <3>3. DirectoryName(path) # <<>>
      BY <2>1, <3>2
    <3>4. m = Len(path) => DirectoryName(path) = path
      BY <2>1, <2>2, SubSeqFull
    <3> QED
      BY <2>1, <3>2, <3>3, <3>4
  <2>3. \/ DirectoryName(path) = Here
        \/ \E m \in 1..Len(path) : DirectoryName(path) = SubSeq(path, 1, m)
    <3>1. 1..(Len(path) - 1) \subseteq 1..Len(path)
      BY <2>1
    <3> QED
      BY <1>4, <3>1, DirectoryNameIs, Zenon
  <2> QED
    BY <1>1, <1>2, <2>2, <2>3, Zenon
<1> QED
  BY <1>3, <1>4

(* The list: each path's directory is the one before it, the first is its  *)
(* own directory, and the last is the path.                                *)
LEMMA SubPathsAre ==
  ASSUME NEW path \in Paths
  PROVE  LET sub == SubPaths(path)
         IN /\ sub \in Seq(Paths) /\ Len(sub) \in Nat \ {0}
            /\ sub[Len(sub)] = path
            /\ \A i \in 2..Len(sub) : sub[i - 1] = DirectoryName(sub[i])
            /\ sub[1] = DirectoryName(sub[1])
            /\ path # <<>> => \A i \in 1..Len(sub) : sub[i] # <<>>
<1>1. path \in Seq(Tokens) /\ Len(path) \in Nat
  BY LenProperties DEF Paths
<1> DEFINE n == Len(path) + 2
           up == CHOOSE g : IsUp(g, path, n)
           same == {i \in 1..n : up[i] = up[i - 1]}
           depth == Min(same)
           sub == SubPaths(path)
<1>2. n \in Nat
  BY <1>1
<1>3. IsUp(up, path, n)
  <2> HIDE DEF n
  <2> QED
    BY <1>2, UpExists, Zenon
<1>4. sub = [i \in 1..depth |-> up[depth - i]]
  BY Zenon DEF SubPaths, IsUp
<1> HIDE DEF up, sub
<1>5. up[0] = path
  <2>1. 0 \in 0..n
    BY <1>2
  <2> QED
    BY <1>3, <2>1, Zenon DEF IsUp
<1>6. \A i \in 1..n : up[i] = DirectoryName(up[i - 1])
  <2>1. \A i \in 1..n : i \in 0..n /\ i # 0
    BY <1>2
  <2> QED
    BY <1>3, <2>1, Zenon DEF IsUp
<1>7. \A i \in 0..n : up[i] \in Paths /\ (i # 0 => up[i] # <<>>)
  <2> DEFINE Bad == {i \in 0..n : ~(up[i] \in Paths /\ (i # 0 => up[i] # <<>>))}
  <2>1. CASE Bad # {}
    <3>1. Bad \in SUBSET Nat
      BY <1>2
    <3>2. PICK i \in Bad : \A j \in Bad : i <= j
      BY <2>1, <3>1, SmallestOf, Zenon
    <3>3. i # 0
      BY <1>5, <3>2
    <3>4. i \in 1..n /\ i - 1 \in 0..n /\ i - 1 \notin Bad
      BY <1>2, <3>2, <3>3
    <3>5. up[i - 1] \in Paths /\ up[i] = DirectoryName(up[i - 1])
      BY <1>6, <3>4
    <3>6. up[i] \in Paths \ {<<>>}
      BY <3>5, DirectoryNameShorter
    <3> QED
      BY <3>2, <3>6
  <2> QED
    BY <2>1
<1>8. same # {}
  <2> SUFFICES ASSUME same = {} PROVE FALSE
    OBVIOUS
  <2> DEFINE m == Len(path) + 1
             Bad == {i \in 0..m : ~(Len(up[i]) <= Len(path) - i)}
  <2>1. ASSUME NEW i \in 1..m
        PROVE  up[i] # Here /\ up[i] # up[i - 1]
    <3>1. i \in 1..n /\ i + 1 \in 1..n /\ (i + 1) - 1 = i
      BY <1>1
    <3>2. up[i] # up[i - 1] /\ up[i + 1] # up[i]
      BY <3>1
    <3>3. up[i + 1] = DirectoryName(up[i])
      BY <1>6, <3>1
    <3>4. up[i] = Here => up[i + 1] = up[i]
      BY <1>5, <1>6, <3>3, DirectoryNameShorter
    <3> QED
      BY <3>2, <3>4
  <2>2. ASSUME NEW i \in 0..m
        PROVE  Len(up[i]) \in Nat
    <3>1. i \in 0..n
      BY <1>1
    <3>2. up[i] \in Seq(Tokens)
      BY <1>7, <3>1 DEF Paths
    <3> QED
      BY <3>2, LenProperties
  <2>3. CASE Bad # {}
    <3>1. Bad \in SUBSET Nat
      BY <1>1
    <3>2. PICK i \in Bad : \A j \in Bad : i <= j
      BY <2>3, <3>1, SmallestOf, Zenon
    <3>3. i # 0
      BY <1>1, <1>5, <3>2
    <3>4. i \in 1..m /\ i - 1 \in 0..m /\ i - 1 \notin Bad /\ i \in 1..n /\ i - 1 \in 0..n
      BY <1>1, <3>2, <3>3
    <3>5. up[i - 1] \in Paths /\ up[i] = DirectoryName(up[i - 1])
      BY <1>6, <1>7, <3>4
    <3>6. Len(up[i]) < Len(up[i - 1])
      BY <2>1, <3>4, <3>5, DirectoryNameShorter
    <3>7. Len(up[i - 1]) <= Len(path) - (i - 1)
      BY <3>4
    <3>8. Len(up[i]) \in Nat /\ Len(up[i - 1]) \in Nat /\ i \in Nat
      BY <2>2, <3>4
    <3>9. Len(up[i]) <= Len(path) - i
      BY <1>1, <3>6, <3>7, <3>8
    <3> QED
      BY <3>2, <3>9
  <2>4. CASE Bad = {}
    <3>1. m \in 0..m
      BY <1>1
    <3>2. Len(up[m]) <= Len(path) - m /\ Len(up[m]) \in Nat
      BY <2>2, <2>4, <3>1
    <3> QED
      BY <1>1, <3>2
  <2> QED
    BY <2>3, <2>4
<1>9. depth \in 1..n /\ up[depth] = up[depth - 1]
  <2>1. same \in SUBSET Nat
    BY <1>2
  <2>2. \E i \in same : \A j \in same : i <= j
    <3> HIDE DEF same
    <3> QED
      BY <1>8, <2>1, SmallestOf, Zenon
  <2>3. depth \in same
    <3> HIDE DEF same
    <3> QED
      BY <2>2, Zenon DEF Min
  <2> HIDE DEF depth
  <2> QED
    BY <2>3
<1> HIDE DEF depth, same
<1>10. Len(sub) = depth /\ sub \in Seq(Paths)
  <2>1. depth \in Nat
    BY <1>2, <1>9
  <2>2. \A i \in 1..depth : up[depth - i] \in Paths
    <3>1. \A i \in 1..depth : depth - i \in 0..n
      BY <1>2, <1>9
    <3> QED
      BY <1>7, <3>1
  <2> QED
    BY <1>4, <2>1, <2>2
<1>11. sub[depth] = path
  <2>1. depth \in 1..depth /\ depth - depth = 0
    BY <1>2, <1>9
  <2> QED
    BY <1>4, <1>5, <2>1
<1>12. ASSUME NEW i \in 2..depth PROVE sub[i - 1] = DirectoryName(sub[i])
  <2>1. i \in 1..depth /\ i - 1 \in 1..depth /\ depth - (i - 1) \in 1..n /\ (depth - (i - 1)) - 1 = depth - i
    BY <1>2, <1>9
  <2>2. sub[i - 1] = up[depth - (i - 1)] /\ sub[i] = up[depth - i]
    BY <1>4, <2>1
  <2>3. up[depth - (i - 1)] = DirectoryName(up[(depth - (i - 1)) - 1])
    BY <1>6, <2>1, Zenon
  <2> QED
    BY <2>1, <2>2, <2>3
<1>13. sub[1] = DirectoryName(sub[1])
  <2>1. 1 \in 1..depth
    BY <1>2, <1>9
  <2>2. sub[1] = up[depth - 1]
    BY <1>4, <2>1
  <2> QED
    BY <1>6, <1>9, <2>2
<1>14. ASSUME path # <<>>, NEW i \in 1..depth PROVE sub[i] # <<>>
  <2>1. depth - i \in 0..n /\ sub[i] = up[depth - i]
    BY <1>2, <1>4, <1>9
  <2> QED
    BY <1>5, <1>7, <1>14, <2>1
<1>15. depth \in Nat \ {0}
  BY <1>2, <1>9
<1> HIDE DEF n
<1> QED
  BY <1>10, <1>11, <1>12, <1>13, <1>14, <1>15 DEF sub

IsFold(iter, step, base, seq, m) ==
  iter = [s \in SUBSET (1..m) |->
            IF s = {} THEN base ELSE step[iter[s \ {Max(s)}], seq[Max(s)]]]

LEMMA FoldExists ==
  ASSUME NEW S, NEW T, NEW step \in [S \X T -> S], NEW base \in S,
         NEW seq \in Seq(T)
  PROVE  \A m \in 0..Len(seq) : \E iter \in [SUBSET (1..m) -> S] : IsFold(iter, step, base, seq, m)
<1> DEFINE P(m) == \E iter \in [SUBSET (1..m) -> S] : IsFold(iter, step, base, seq, m)
           Bad == {m \in 0..Len(seq) : ~P(m)}
<1> SUFFICES Bad = {}
  OBVIOUS
<1>1. P(0)
  <2> DEFINE iter == [s \in SUBSET (1..0) |-> base]
  <2>1. SUBSET (1..0) = {{}}
    OBVIOUS
  <2>2. iter \in [SUBSET (1..0) -> S] /\ IsFold(iter, step, base, seq, 0)
    BY <2>1 DEF IsFold
  <2> QED
    BY <2>2, Zenon
<1>2. ASSUME NEW m \in 0..Len(seq), m + 1 \in 0..Len(seq), P(m) PROVE P(m + 1)
  <2>1. PICK h \in [SUBSET (1..m) -> S] : IsFold(h, step, base, seq, m)
    BY <1>2
  <2> DEFINE k == m + 1
             iter == [s \in SUBSET (1..k) |-> IF k \notin s THEN h[s] ELSE step[h[s \ {k}], seq[k]]]
  <2>2. k \in 1..Len(seq) /\ seq[k] \in T
    BY <1>2, LenProperties
  <2>3. ASSUME NEW s \in SUBSET (1..k), k \notin s PROVE s \in SUBSET (1..m)
    BY <2>3, <1>2
  <2>4. ASSUME NEW s \in SUBSET (1..k) PROVE s \ {k} \in SUBSET (1..m)
    BY <1>2
  <2>5. iter \in [SUBSET (1..k) -> S]
    BY <2>2, <2>3, <2>4
  <2>6. ASSUME NEW s \in SUBSET (1..k), k \notin s
        PROVE  iter[s] = h[s]
    BY <2>6
  <2>7. ASSUME NEW s \in SUBSET (1..k), k \in s
        PROVE  iter[s] = step[h[s \ {k}], seq[k]] /\ iter[s \ {k}] = h[s \ {k}] /\ Max(s) = k
    <3>1. iter[s] = step[h[s \ {k}], seq[k]] /\ iter[s \ {k}] = h[s \ {k}]
      BY <2>7, Zenon
    <3>2. s \in SUBSET Int /\ \A n \in s : n <= k
      BY <2>2
    <3>3. Max(s) = k
      BY <2>7, <3>2, MaxIs
    <3> QED
      BY <3>1, <3>3
  <2>8. ASSUME NEW s \in SUBSET (1..k)
        PROVE iter[s] = IF s = {} THEN base ELSE step[iter[s \ {Max(s)}], seq[Max(s)]]
    <3>1. CASE k \in s
      BY <2>7, <3>1, Zenon
    <3>2. CASE k \notin s
      <4>1. h[s] = IF s = {} THEN base ELSE step[h[s \ {Max(s)}], seq[Max(s)]]
        BY <2>1, <2>3, <3>2, Zenon DEF IsFold
      <4>2. s \ {Max(s)} \in SUBSET (1..k) /\ k \notin s \ {Max(s)}
        BY <3>2
      <4> QED
        BY <4>1, <4>2, <2>6, <3>2, Zenon
    <3> QED
      BY <3>1, <3>2
  <2> HIDE DEF iter, k
  <2>9. IsFold(iter, step, base, seq, k)
    <3>1. iter = [s \in SUBSET (1..k) |-> iter[s]]
      BY <2>5
    <3> QED
      BY <3>1, <2>8, Zenon DEF IsFold
  <2>10. P(k)
    BY <2>5, <2>9, Zenon
  <2> QED
    BY <2>10 DEF k
<1> HIDE DEF P
<1>3. CASE Bad # {}
  <2>0. Bad \in SUBSET Nat
    BY LenProperties
  <2>1. PICK m \in Bad : \A n \in Bad : m <= n
    BY <1>3, <2>0, SmallestOf, Zenon
  <2>2. m # 0 /\ m \in 0..Len(seq) /\ ~P(m) /\ Len(seq) \in Nat
    BY <1>1, LenProperties
  <2>3. m - 1 \in 0..Len(seq) /\ m - 1 \notin Bad
    BY <2>1, <2>2
  <2>4. P(m - 1)
    BY <2>3
  <2>5. (m - 1) + 1 = m
    BY <2>2
  <2>6. P((m - 1) + 1)
    BY <1>2, <2>2, <2>3, <2>4, <2>5, Zenon
  <2> QED
    BY <2>2, <2>5, <2>6
<1> QED
  BY <1>3

(* A fold from the left, as a function of how much of the sequence is done *)

Places == Nodes \cup {NoNode}

LEMMA FollowType == ASSUME NEW n \in Places PROVE Follow(n) \in Places /\ (n \in Nodes => Follow(n) \in Nodes)
  BY NodesAssumption DEF Places, Follow

LEMMA WalkType ==
  ASSUME NEW n \in Places, NEW token
  PROVE  Walk(n, token) \in Places
<1> DEFINE from == Follow(n)
           to == Append(from, token)
<1>1. CASE n = NoNode \/ IsSeparator(token)
  BY <1>1 DEF Walk
<1>2. CASE n # NoNode /\ ~IsSeparator(token)
  <2>1. n \in Nodes /\ from \in Nodes
    BY <1>2, FollowType DEF Places
  <2>2. from # Root => Front(from) \in Nodes
    BY <2>1, NodesAssumption
  <2> HIDE DEF from, to
  <2>3. Root \in Nodes
    BY NodesAssumption
  <2>4. CASE tree[from] # "dir"
    BY <1>2, <2>4 DEF Walk, from, Places
  <2>5. CASE tree[from] = "dir" /\ token = kCurrentDirectory
    <3>1. Walk(n, token) = from
      BY <1>2, <2>5, TokensDiffer, Zenon DEF Walk, from
    <3> QED
      BY <2>1, <3>1 DEF Places
  <2>6. CASE tree[from] = "dir" /\ token = kParentDirectory
    <3>1. Walk(n, token) = IF from = Root THEN Root ELSE Front(from)
      BY <1>2, <2>6, TokensDiffer, Zenon DEF Walk, from
    <3> QED
      BY <2>1, <2>2, <2>3, <3>1 DEF Places
  <2>7. CASE tree[from] = "dir" /\ token # kCurrentDirectory /\ token # kParentDirectory
    <3>1. Walk(n, token) = IF to \in Nodes THEN to ELSE NoNode
      BY <1>2, <2>7, Zenon DEF Walk, from, to
    <3> QED
      BY <3>1 DEF Places
  <2> QED
    BY <2>4, <2>5, <2>6, <2>7
<1> QED
  BY <1>1, <1>2

IsWalk(iter, path, m) ==
  iter = [s \in SUBSET (1..m) |->
            IF s = {} THEN Root ELSE Walk(iter[s \ {Max(s)}], path[Max(s)])]

LEMMA LookupWalks ==
  ASSUME NEW path \in Seq(Tokens), path # <<>>
  PROVE  \E f \in [0..Len(path) -> Places] :
           /\ f[0] = Root
           /\ \A k \in 1..Len(path) : f[k] = Walk(f[k - 1], path[k])
           /\ Lookup(path) = f[Len(path)]
<1> DEFINE m == Len(path)
           step == [z \in Places \X Tokens |-> Walk(z[1], z[2])]
<1>1. m \in Nat /\ DOMAIN path = 1..m
  BY LenProperties
<1>2. \E iter : IsWalk(iter, path, m)
  <2>1. step \in [Places \X Tokens -> Places] /\ Root \in Places
    BY WalkType, NodesAssumption DEF Places
  <2> HIDE DEF step
  <2>2. PICK iter \in [SUBSET (1..m) -> Places] : IsFold(iter, step, Root, path, m)
    <3>1. m \in 0..Len(path)
      BY <1>1
    <3> HIDE DEF m
    <3> QED
      BY <2>1, <3>1, FoldExists, Zenon
  <2>3. ASSUME NEW s \in SUBSET (1..m), s # {}
        PROVE  step[iter[s \ {Max(s)}], path[Max(s)]] = Walk(iter[s \ {Max(s)}], path[Max(s)])
    <3>1. Max(s) \in 1..m
      BY <1>1, <2>3, MaxIn
    <3>2. path[Max(s)] \in Tokens /\ iter[s \ {Max(s)}] \in Places
      BY <1>1, <2>2, <3>1, ElementOfSeq
    <3> QED
      BY <3>2 DEF step
  <2>4. ASSUME NEW s \in SUBSET (1..m)
        PROVE  iter[s] = IF s = {} THEN Root ELSE Walk(iter[s \ {Max(s)}], path[Max(s)])
    <3>1. iter[s] = IF s = {} THEN Root ELSE step[iter[s \ {Max(s)}], path[Max(s)]]
      BY <2>2, Zenon DEF IsFold
    <3> QED
      BY <2>3, <3>1, Zenon
  <2>5. iter = [s \in SUBSET (1..m) |-> iter[s]]
    BY <2>2
  <2>6. IsWalk(iter, path, m)
    BY <2>4, <2>5, Zenon DEF IsWalk
  <2> QED
    BY <2>6, Zenon
<1> DEFINE iter == CHOOSE g : IsWalk(g, path, m)
           f == [k \in 0..m |-> iter[1..k]]
<1>3. IsWalk(iter, path, m)
  BY <1>2, Zenon
<1>4. Lookup(path) = iter[1..m]
  BY <1>1, Zenon DEF Lookup, FoldLeft, MapThenFoldSet, IsWalk
<1> HIDE DEF iter, m, step
<1>5. \A s \in SUBSET (1..m) :
        iter[s] = IF s = {} THEN Root ELSE Walk(iter[s \ {Max(s)}], path[Max(s)])
  BY <1>3, Zenon DEF IsWalk
<1>6. f[0] = Root
  <2>1. 1..0 = {} /\ 0 \in 0..m /\ {} \in SUBSET (1..m)
    BY <1>1
  <2> QED
    BY <1>5, <2>1, Zenon
<1>7. ASSUME NEW k \in 1..m PROVE f[k] = Walk(f[k - 1], path[k])
  <2>1. 1..k \in SUBSET (1..m) /\ (1..k) \ {k} = 1..(k - 1) /\ k \in 0..m /\ k - 1 \in 0..m
    BY <1>1
  <2>4. 1..k # {}
    <3>1. k \in 1..k
      BY <1>1
    <3> QED
      BY <3>1
  <2>2. 1..k \in SUBSET Int /\ k \in 1..k /\ \A n \in 1..k : n <= k
    BY <1>1
  <2>3. Max(1..k) = k
    BY <2>2, MaxIs
  <2> QED
    BY <1>5, <2>1, <2>3, <2>4, Zenon
<1>8. f \in [0..m -> Places]
  <2> DEFINE Bad == {k \in 0..m : f[k] \notin Places}
  <2>1. CASE Bad # {}
    <3>0. Bad \in SUBSET Nat
      BY <1>1
    <3>1. PICK k \in Bad : \A n \in Bad : k <= n
      BY <2>1, <3>0, SmallestOf, Zenon
    <3>2. f[0] \in Places
      BY <1>6, NodesAssumption DEF Places
    <3>3. k \in 1..m /\ k - 1 \in 0..m /\ k - 1 \notin Bad /\ f[k] \notin Places
      BY <1>1, <3>1, <3>2
    <3>4. f[k - 1] \in Places
      BY <3>3, Zenon
    <3>5. f[k] = Walk(f[k - 1], path[k])
      BY <1>7, <3>3, Zenon
    <3> QED
      BY <3>3, <3>4, <3>5, WalkType, Zenon
  <2>2. CASE Bad = {}
    BY <2>2
  <2> QED
    BY <2>1, <2>2
<1>9. Lookup(path) = f[m]
  BY <1>1, <1>4
<1> HIDE DEF f
<1> QED
  BY <1>6, <1>7, <1>8, <1>9, Zenon DEF m

(* Where a path has led to after its first k tokens. *)
Reached(path, k) == IF k = 0 THEN Root ELSE Lookup(SubSeq(path, 1, k))

WalksAlong(f, path, k) ==
  f[0] = Root /\ \A i \in 1..k : f[i] = Walk(f[i - 1], path[i])

LEMMA WalksAgree ==
  ASSUME NEW f, NEW g, NEW path, NEW k \in Nat,
         WalksAlong(f, path, k), WalksAlong(g, path, k)
  PROVE  f[k] = g[k]
<1> USE DEF WalksAlong
<1> DEFINE Bad == {i \in 0..k : f[i] # g[i]}
<1>1. CASE Bad # {}
  <2>1. Bad \in SUBSET Nat
    OBVIOUS
  <2>2. PICK i \in Bad : \A j \in Bad : i <= j
    BY <1>1, <2>1, SmallestOf, Zenon
  <2>3. i \in 1..k /\ i - 1 \in 0..k /\ i - 1 \notin Bad
    BY <2>2
  <2>4. f[i - 1] = g[i - 1]
    BY <2>3
  <2>5. f[i] = g[i]
    BY <2>3, <2>4, Zenon
  <2> QED
    BY <2>2, <2>5
<1>2. k \in 0..k
  OBVIOUS
<1> QED
  BY <1>1, <1>2

LEMMA ReachedIs ==
  ASSUME NEW path \in Paths
  PROVE  /\ Reached(path, 0) = Root
         /\ \A k \in 0..Len(path) : Reached(path, k) \in Places
         /\ \A k \in 1..Len(path) : Reached(path, k) = Walk(Reached(path, k - 1), path[k])
         /\ path # <<>> => Lookup(path) = Reached(path, Len(path))
<1>1. path \in Seq(Tokens) /\ Len(path) \in Nat
  BY LenProperties DEF Paths
<1>2. Reached(path, 0) = Root
  BY DEF Reached
<1>3. CASE path = <<>>
  <2>1. Len(path) = 0
    BY <1>3
  <2>2. Root \in Places
    BY NodesAssumption DEF Places
  <2> QED
    BY <1>2, <1>3, <2>1, <2>2
<1>4. CASE path # <<>>
  <2> DEFINE n == Len(path)
  <2>1. PICK f \in [0..n -> Places] :
           /\ f[0] = Root
           /\ \A k \in 1..n : f[k] = Walk(f[k - 1], path[k])
           /\ Lookup(path) = f[n]
    BY <1>1, <1>4, LookupWalks
  <2>2. n \in Nat \ {0}
    BY <1>1, <1>4, EmptySeq
  <2>3. ASSUME NEW k \in 1..n PROVE Reached(path, k) = f[k]
    <3> DEFINE sub == SubSeq(path, 1, k)
    <3>1. k \in 0..n /\ k # 0 /\ k \in Nat
      BY <2>2
    <3>2. sub \in Paths /\ Len(sub) = k /\ \A i \in 1..k : sub[i] = path[i]
      BY <3>1, PrefixOfPath
    <3>3. sub \in Seq(Tokens) /\ sub # <<>>
      BY <3>1, <3>2 DEF Paths
    <3> HIDE DEF sub
    <3>4. PICK g \in [0..Len(sub) -> Places] :
             /\ g[0] = Root
             /\ \A i \in 1..Len(sub) : g[i] = Walk(g[i - 1], sub[i])
             /\ Lookup(sub) = g[Len(sub)]
      BY <3>3, LookupWalks
    <3>5. \A i \in 1..k : g[i] = Walk(g[i - 1], path[i])
      BY <3>2, <3>4, Zenon
    <3>6. \A i \in 1..k : f[i] = Walk(f[i - 1], path[i])
      <4>1. 1..k \subseteq 1..n
        BY <2>2
      <4> QED
        BY <2>1, <4>1, Zenon
    <3>7. g[k] = f[k]
      <4>1. WalksAlong(f, path, k) /\ WalksAlong(g, path, k)
        BY <2>1, <3>4, <3>5, <3>6, Zenon DEF WalksAlong
      <4> QED
        BY <3>1, <4>1, WalksAgree, Zenon
    <3>8. Reached(path, k) = Lookup(sub)
      BY <3>1 DEF Reached, sub
    <3> QED
      BY <3>2, <3>4, <3>7, <3>8
  <2>4. ASSUME NEW k \in 0..n PROVE Reached(path, k) = f[k]
    <3>1. k = 0 \/ k \in 1..n
      BY <2>2
    <3> QED
      BY <1>2, <2>1, <2>3, <3>1, Zenon
  <2>5. ASSUME NEW k \in 1..n PROVE Reached(path, k) = Walk(Reached(path, k - 1), path[k])
    <3>1. k \in 0..n /\ k - 1 \in 0..n
      BY <2>2
    <3> QED
      BY <2>1, <2>4, <3>1, Zenon
  <2>6. \A k \in 0..n : Reached(path, k) \in Places
    BY <2>1, <2>4
  <2>7. n \in 0..n
    BY <2>2
  <2> QED
    BY <1>2, <2>1, <2>4, <2>5, <2>6, <2>7, Zenon
<1> QED
  BY <1>3, <1>4

LEMMA LookupType ==
  ASSUME NEW path \in Paths
  PROVE  /\ Lookup(path) \in Places /\ Target(path) \in Places
         /\ Target(path) = NoNode <=> Lookup(path) = NoNode
<1>1. Lookup(path) \in Places
  <2>1. CASE path = <<>>
    BY <2>1 DEF Lookup, Places
  <2>2. CASE path # <<>>
    <3>1. Len(path) \in 0..Len(path)
      BY LenProperties DEF Paths
    <3> QED
      BY <2>2, <3>1, ReachedIs
  <2> QED
    BY <2>1, <2>2
<1>2. Follow(NoNode) = NoNode
  BY NodesAssumption DEF Follow
<1> QED
  BY <1>1, <1>2, FollowType, NodesAssumption DEF Target, Places

(* Separators lead nowhere. *)
LEMMA SeparatorsStay ==
  ASSUME NEW path \in Paths, NEW a \in 0..Len(path), NEW b \in a..Len(path),
         OnlySeparators(path, a + 1, b)
  PROVE  Reached(path, b) = Reached(path, a)
<1>1. Len(path) \in Nat
  BY LenProperties DEF Paths
<1> DEFINE Bad == {i \in a..b : Reached(path, i) # Reached(path, a)}
<1>2. CASE Bad # {}
  <2>1. Bad \in SUBSET Nat
    BY <1>1
  <2>2. PICK i \in Bad : \A j \in Bad : i <= j
    BY <1>2, <2>1, SmallestOf, Zenon
  <2>3. i # a
    BY <2>2
  <2>4. i \in (a + 1)..b /\ i \in 1..Len(path) /\ i - 1 \in a..b /\ i - 1 \notin Bad
    BY <1>1, <2>2, <2>3
  <2>5. Reached(path, i) = Walk(Reached(path, i - 1), path[i])
    BY <2>4, ReachedIs
  <2>6. IsSeparator(path[i])
    BY <2>4 DEF OnlySeparators
  <2>7. Walk(Reached(path, i - 1), path[i]) = Reached(path, i - 1)
    BY <2>6, Zenon DEF Walk
  <2>8. Reached(path, i - 1) = Reached(path, a)
    BY <2>4, Zenon
  <2> QED
    BY <2>2, <2>5, <2>7, <2>8
<1>3. b \in a..b
  BY <1>1
<1> QED
  BY <1>2, <1>3, Zenon

-----------------------------------------------------------------------------
(* A path's last name, if it has one, leads on from its directory.         *)
NamePlace(path) ==
  CHOOSE j \in 1..Len(path) : ~IsSeparator(path[j]) /\ OnlySeparators(path, j + 1, Len(path))
LastName(path) == path[NamePlace(path)]
IsRootPath(path) == OnlySeparators(path, 1, Len(path))

LEMMA NamePlaceIs ==
  ASSUME NEW path \in Paths, NEW j \in 1..Len(path),
         ~IsSeparator(path[j]), OnlySeparators(path, j + 1, Len(path))
  PROVE  NamePlace(path) = j
<1> DEFINE i == NamePlace(path)
<1>1. i \in 1..Len(path) /\ ~IsSeparator(path[i]) /\ OnlySeparators(path, i + 1, Len(path))
  BY Zenon DEF NamePlace
<1> HIDE DEF i
<1>2. Len(path) \in Nat
  BY LenProperties DEF Paths
<1>3. ~(i < j)
  <2>1. CASE i < j
    <3>1. j \in (i + 1)..Len(path)
      BY <1>1, <1>2, <2>1
    <3> QED
      BY <1>1, <3>1 DEF OnlySeparators
  <2> QED
    BY <2>1
<1>4. ~(j < i)
  <2>1. CASE j < i
    <3>1. i \in (j + 1)..Len(path)
      BY <1>1, <1>2, <2>1
    <3> QED
      BY <1>1, <3>1 DEF OnlySeparators
  <2> QED
    BY <2>1
<1> QED
  BY <1>1, <1>2, <1>3, <1>4 DEF i

LEMMA RootPathLeadsToRoot ==
  ASSUME NEW path \in Paths, path # <<>>, IsRootPath(path)
  PROVE  Lookup(path) = Root
<1>1. Len(path) \in Nat /\ 0 \in 0..Len(path) /\ Len(path) \in 0..Len(path) /\ 0 + 1 = 1
  BY LenProperties DEF Paths
<1> QED
  BY <1>1, ReachedIs, SeparatorsStay DEF IsRootPath

LEMMA HereLeadsToRoot == tree[Root] = "dir" => Lookup(Here) = Root
<1> SUFFICES ASSUME tree[Root] = "dir" PROVE Lookup(Here) = Root
  OBVIOUS
<1>1. Here \in Paths \ {<<>>} /\ Len(Here) = 1 /\ Here[1] = kCurrentDirectory
  <2>1. DirectoryName(<<>>) = Here /\ <<>> \in Paths
    BY EmptyIsHere
  <2>2. Here \in Paths \ {<<>>}
    BY <2>1, DirectoryNameShorter
  <2> QED
    BY <2>2 DEF Here
<1>2. Lookup(Here) = Walk(Root, kCurrentDirectory)
  BY <1>1, ReachedIs
<1>3. Follow(Root) = Root
  BY NodesAssumption DEF Follow
<1>4. Root # NoNode
  BY NodesAssumption
<1>5. Walk(Root, kCurrentDirectory) = Root
  BY <1>3, <1>4, TokensDiffer, Zenon DEF Walk
<1> QED
  BY <1>2, <1>5

(* Where a path's name leads, in terms of the path's directory.            *)
LookupGoesOn(path) ==
  tree[Root] = "dir" =>
    IF IsRootPath(path) THEN Lookup(path) = Root
    ELSE /\ ~IsSeparator(LastName(path))
         /\ Lookup(path) = Walk(Lookup(DirectoryName(path)), LastName(path))

LEMMA LookupFromDirectory ==
  ASSUME NEW path \in Paths, path # <<>>
  PROVE  LookupGoesOn(path)
<1> SUFFICES ASSUME tree[Root] = "dir" PROVE LookupGoesOn(path)
  BY DEF LookupGoesOn
<1> DEFINE n == Len(path)
<1>1. n \in Nat \ {0} /\ path \in Seq(Tokens)
  BY LenProperties, EmptySeq DEF Paths
<1>2. CASE IsRootPath(path)
  BY <1>2, RootPathLeadsToRoot DEF LookupGoesOn
<1>3. CASE ~IsRootPath(path)
  <2>1. ASSUME NEW m \in 0..(n - 1), GoesOn(path, m),
               Lookup(DirectoryName(path)) = Reached(path, m)
        PROVE  /\ ~IsSeparator(LastName(path))
               /\ Lookup(path) = Walk(Lookup(DirectoryName(path)), LastName(path))
    <3>1. PICK j \in (m + 1)..n :
             /\ ~IsSeparator(path[j])
             /\ OnlySeparators(path, m + 1, j - 1)
             /\ OnlySeparators(path, j + 1, n)
      BY <2>1 DEF GoesOn
    <3>2. j \in 1..n /\ m \in 0..n /\ j - 1 \in m..n /\ j \in 0..n /\ n \in j..n
      BY <1>1, <3>1
    <3>3. LastName(path) = path[j]
      BY <3>1, <3>2, NamePlaceIs DEF LastName
    <3>4. Reached(path, j - 1) = Reached(path, m)
      BY <3>1, <3>2, SeparatorsStay
    <3>5. Reached(path, n) = Reached(path, j)
      BY <3>1, <3>2, SeparatorsStay
    <3>6. Reached(path, j) = Walk(Reached(path, j - 1), path[j])
      BY <3>2, ReachedIs
    <3>7. Lookup(path) = Reached(path, n)
      BY ReachedIs
    <3> QED
      BY <2>1, <3>1, <3>3, <3>4, <3>5, <3>6, <3>7, Zenon
  <2>2. CASE DirectoryName(path) = Here /\ GoesOn(path, 0)
    <3>1. Lookup(DirectoryName(path)) = Reached(path, 0) /\ 0 \in 0..(n - 1)
      BY <1>1, <2>2, HereLeadsToRoot DEF Reached
    <3> QED
      BY <1>3, <2>1, <2>2, <3>1, Zenon DEF LookupGoesOn
  <2>3. ASSUME NEW m \in 1..(n - 1), DirectoryName(path) = SubSeq(path, 1, m), GoesOn(path, m)
        PROVE  LookupGoesOn(path)
    <3>1. m \in 0..(n - 1) /\ m # 0
      BY <1>1
    <3>2. Lookup(DirectoryName(path)) = Reached(path, m)
      BY <2>3, <3>1 DEF Reached
    <3> QED
      BY <1>3, <2>1, <2>3, <3>1, <3>2, Zenon DEF LookupGoesOn
  <2> QED
    BY <1>3, <2>2, <2>3, DirectoryNameIs, Zenon DEF IsRootPath
<1> QED
  BY <1>2, <1>3

(* A path that is its own directory leads to the root. *)
LEMMA FixedLeadsToRoot ==
  ASSUME NEW path \in Paths, path # <<>>, path = DirectoryName(path), tree[Root] = "dir"
  PROVE  Lookup(path) = Root
<1>1. Len(path) \in Nat \ {0} /\ path \in Seq(Tokens)
  BY LenProperties, EmptySeq DEF Paths
<1>2. CASE path = Here
  BY <1>2, HereLeadsToRoot
<1>3. ASSUME NEW m \in 1..(Len(path) - 1), DirectoryName(path) = SubSeq(path, 1, m)
      PROVE  FALSE
  <2>1. m \in 0..Len(path) /\ m # Len(path)
    BY <1>1
  <2>2. Len(SubSeq(path, 1, m)) = m
    BY <2>1, PrefixOfPath
  <2> QED
    BY <1>3, <2>1, <2>2
<1>4. CASE OnlySeparators(path, 1, Len(path))
  BY <1>4, RootPathLeadsToRoot DEF IsRootPath
<1> QED
  BY <1>2, <1>3, <1>4, DirectoryNameIs, Zenon

-----------------------------------------------------------------------------
(* Paths with a name appended to them: where they lead, and that two of    *)
(* them are the same only if their names are.                              *)

(* The path that AppendTo puts before a name, and a path without           *)
(* separators at its end that could be stripped.                           *)
Base(path) ==
  IF path = Here THEN <<>>
  ELSE LET stripped == StripTrailingSeparators(path)
       IN IF stripped # <<>> /\ ~IsSeparator(stripped[Len(stripped)])
          THEN Append(stripped, Sep) ELSE stripped
BaseOf(path) == Base(StripTrailingSeparators(path))
IsStripped(path) ==
  /\ path \in Paths /\ path # <<>>
  /\ IsSeparator(path[Len(path)]) => Len(path) = 1 \/ path = <<Sep, Sep>>
EntryNames == Tokens \ {Sep}

LEMMA NothingStripped == StripTrailingSeparators(<<>>) = <<>>
<1>1. StripTrailingSeparators(<<>>) = SubSeq(<<>>, 1, 0)
  BY DEF StripTrailingSeparators
<1> QED
  BY <1>1, SubSeqEmpty

LEMMA StripIsStripped ==
  ASSUME NEW path \in Paths, path # <<>>
  PROVE  IsStripped(StripTrailingSeparators(path))
<1>1. PICK n \in 1..Len(path) :
           /\ StripTrailingSeparators(path) = SubSeq(path, 1, n)
           /\ \A i \in (n + 1)..Len(path) : IsSeparator(path[i])
           /\ IsSeparator(path[n]) => n = 1 \/ (n = 2 /\ path = <<Sep, Sep>>)
  BY StripIs
<1>2. path \in Seq(Tokens) /\ Len(path) \in Nat
  BY LenProperties DEF Paths
<1> PICK s : s = StripTrailingSeparators(path)
  OBVIOUS
<1>3. s \in Paths /\ Len(s) = n /\ \A i \in 1..n : s[i] = path[i]
  <2>1. n \in 0..Len(path)
    BY <1>2
  <2> QED
    BY <1>1, <2>1, PrefixOfPath
<1>4. s # <<>>
  BY <1>3
<1>5. IsSeparator(s[Len(s)]) => Len(s) = 1 \/ s = <<Sep, Sep>>
  <2>1. n \in 1..n
    BY <1>2
  <2>2. CASE n = 2 /\ path = <<Sep, Sep>>
    <3>1. StripTrailingSeparators(path) = path
      BY <2>2, Zenon DEF StripTrailingSeparators
    <3> QED
      BY <2>2, <3>1
  <2> QED
    BY <1>1, <1>3, <2>1, <2>2
<1> QED
  BY <1>3, <1>4, <1>5, Zenon DEF IsStripped

LEMMA StrippedStays ==
  ASSUME NEW path, IsStripped(path)
  PROVE  StripTrailingSeparators(path) = path
<1>0. /\ path \in Paths /\ path # <<>>
      /\ IsSeparator(path[Len(path)]) => Len(path) = 1 \/ path = <<Sep, Sep>>
  BY Zenon DEF IsStripped
<1>1. PICK n \in 1..Len(path) :
           /\ StripTrailingSeparators(path) = SubSeq(path, 1, n)
           /\ \A i \in (n + 1)..Len(path) : IsSeparator(path[i])
           /\ IsSeparator(path[n]) => n = 1 \/ (n = 2 /\ path = <<Sep, Sep>>)
  BY <1>0, StripIs, Zenon
<1>2. path \in Seq(Tokens) /\ Len(path) \in Nat
  BY <1>0, LenProperties DEF Paths
<1>3. CASE path = <<Sep, Sep>>
  BY <1>3, Zenon DEF StripTrailingSeparators
<1>4. CASE path # <<Sep, Sep>>
  <2>1. n < Len(path) => IsSeparator(path[Len(path)])
    BY <1>1, <1>2
  <2>2. n = Len(path)
    BY <1>0, <1>2, <1>4, <2>1
  <2>3. SubSeq(path, 1, Len(path)) = path
    BY <1>2, SubSeqFull
  <2> QED
    BY <1>1, <2>2, <2>3
<1> QED
  BY <1>3, <1>4

LEMMA StripType ==
  ASSUME NEW path \in Paths
  PROVE  StripTrailingSeparators(path) \in Paths
<1>1. CASE path = <<>>
  BY <1>1, NothingStripped, Zenon
<1>2. CASE path # <<>>
  BY <1>2, StripIsStripped, Zenon DEF IsStripped
<1> QED
  BY <1>1, <1>2

(* One more token is a path if there is a separator before it or it is one *)
LEMMA PathAppend ==
  ASSUME NEW path \in Paths, NEW x \in Tokens,
         path = <<>> \/ IsSeparator(path[Len(path)]) \/ IsSeparator(x)
  PROVE  /\ Append(path, x) \in Paths /\ Append(path, x) # <<>>
         /\ Len(Append(path, x)) = Len(path) + 1
         /\ Append(path, x)[Len(path) + 1] = x
         /\ \A i \in 1..Len(path) : Append(path, x)[i] = path[i]
<1>1. path \in Seq(Tokens) /\ Len(path) \in Nat /\ DOMAIN path = 1..Len(path)
  BY LenProperties DEF Paths
<1> DEFINE s == Append(path, x)
<1>2. s \in Seq(Tokens) /\ Len(s) = Len(path) + 1 /\ s[Len(path) + 1] = x
      /\ \A i \in 1..Len(path) : s[i] = path[i]
  BY <1>1, AppendProperties
<1> HIDE DEF s
<1>3. ASSUME NEW i \in 1..(Len(s) - 1) PROVE IsSeparator(s[i]) \/ IsSeparator(s[i + 1])
  <2> PICK n : n = Len(path)
    OBVIOUS
  <2>0. n \in Nat /\ Len(s) = n + 1 /\ i \in 1..n
    <3>1. n \in Nat /\ Len(s) = n + 1
      BY <1>1, <1>2
    <3> QED
      BY ONLY <3>1, i \in 1..(Len(s) - 1)
  <2>1. CASE i = n
    <3>1. s[i] = path[i] /\ s[i + 1] = x
      BY <1>2, <2>0, <2>1, Zenon
    <3>2. path # <<>>
      BY <1>1, <2>0
    <3> QED
      BY <2>1, <3>1, <3>2, Zenon
  <2>2. CASE i # n
    <3>0. i \in 1..(n - 1) /\ i \in 1..n /\ i + 1 \in 1..n
      BY ONLY <2>0, <2>2
    <3>1. i \in 1..(Len(path) - 1) /\ s[i] = path[i] /\ s[i + 1] = path[i + 1]
      BY <1>2, <3>0, Zenon
    <3>2. IsSeparator(path[i]) \/ IsSeparator(path[i + 1])
      BY <3>1, Zenon DEF Paths
    <3> QED
      BY <3>1, <3>2, Zenon
  <2> QED
    BY <2>1, <2>2
<1>4. s \in Paths
  BY <1>2, <1>3, Zenon DEF Paths
<1>5. s # <<>>
  BY <1>1, <1>2
<1> QED
  BY <1>2, <1>4, <1>5 DEF s

LEMMA BaseIs ==
  ASSUME NEW path \in Paths
  PROVE  /\ Base(path) \in Paths
         /\ Base(path) = <<>> \/ IsSeparator(Base(path)[Len(Base(path))])
<1> PICK s : s = StripTrailingSeparators(path)
  OBVIOUS
<1>1. s \in Paths
  BY StripType
<1>2. <<>> \in Paths
  BY EmptyIsHere
<1>3. CASE path = Here
  BY <1>2, <1>3 DEF Base
<1>4. CASE path # Here /\ s # <<>> /\ ~IsSeparator(s[Len(s)])
  <2>1. Base(path) = Append(s, Sep)
    BY <1>4, Zenon DEF Base
  <2>2. Sep \in Tokens /\ IsSeparator(Sep)
    BY TokensAssumption DEF IsSeparator
  <2> HIDE DEF Sep
  <2>3. /\ Append(s, Sep) \in Paths
        /\ Len(Append(s, Sep)) = Len(s) + 1
        /\ Append(s, Sep)[Len(s) + 1] = Sep
    BY <1>1, <2>2, PathAppend
  <2> QED
    BY <2>1, <2>2, <2>3, Zenon
<1>5. CASE path # Here /\ ~(s # <<>> /\ ~IsSeparator(s[Len(s)]))
  <2>1. Base(path) = s
    BY <1>5, Zenon DEF Base
  <2> QED
    BY <1>1, <1>5, <2>1
<1> QED
  BY <1>3, <1>4, <1>5

(* What AppendTo makes of a path and one name. *)
LEMMA AppendToIs ==
  ASSUME NEW path \in Paths, NEW x \in Tokens
  PROVE  AppendTo(path, <<x>>) = Append(Base(path), x)
<1> PICK s : s = StripTrailingSeparators(path)
  OBVIOUS
<1>1. s \in Seq(Tokens) /\ <<x>> \in Seq(Tokens) /\ <<x>> # <<>>
  BY StripType DEF Paths
<1>2. s \o <<x>> = Append(s, x)
  BY <1>1
<1>3. s \o <<>> = s
  BY <1>1
<1>4. s \o <<Sep>> = Append(s, Sep) /\ Append(s, Sep) \in Seq(Tokens)
  BY <1>1, TokensAssumption
<1>5. Append(s, Sep) \o <<x>> = Append(Append(s, Sep), x)
  BY <1>4
<1>6. <<x>> = Append(<<>>, x)
  OBVIOUS
<1>7. CASE path = Here
  BY <1>6, <1>7, Zenon DEF AppendTo, Base, Here
<1>8. CASE path # Here /\ s # <<>> /\ ~IsSeparator(s[Len(s)])
  <2>1. AppendTo(path, <<x>>) = s \o <<Sep>> \o <<x>>
    BY <1>1, <1>8, Zenon DEF AppendTo, Here
  <2>2. Base(path) = Append(s, Sep)
    BY <1>8, Zenon DEF Base
  <2> QED
    BY <1>4, <1>5, <2>1, <2>2, Zenon
<1>9. CASE path # Here /\ ~(s # <<>> /\ ~IsSeparator(s[Len(s)]))
  <2>1. AppendTo(path, <<x>>) = s \o <<>> \o <<x>>
    BY <1>9, Zenon DEF AppendTo, Here
  <2>2. Base(path) = s
    BY <1>9, Zenon DEF Base
  <2> QED
    BY <1>2, <1>3, <2>1, <2>2, Zenon
<1> QED
  BY <1>7, <1>8, <1>9

LEMMA AppendedIs ==
  ASSUME NEW path \in Paths, NEW x \in EntryNames
  PROVE  /\ AppendTo(path, <<x>>) = Append(Base(path), x)
         /\ Append(Base(path), x) \in Paths
         /\ Len(Append(Base(path), x)) = Len(Base(path)) + 1
         /\ Append(Base(path), x)[Len(Base(path)) + 1] = x
         /\ \A i \in 1..Len(Base(path)) : Append(Base(path), x)[i] = Base(path)[i]
         /\ IsStripped(Append(Base(path), x))
<1>0. x \in Tokens /\ ~IsSeparator(x)
  BY DEF EntryNames, IsSeparator
<1>1. Base(path) \in Paths /\ (Base(path) = <<>> \/ IsSeparator(Base(path)[Len(Base(path))]))
  BY BaseIs
<1>2. AppendTo(path, <<x>>) = Append(Base(path), x)
  BY <1>0, AppendToIs
<1> PICK b : b = Base(path)
  OBVIOUS
<1>3. /\ Append(b, x) \in Paths /\ Append(b, x) # <<>>
      /\ Len(Append(b, x)) = Len(b) + 1
      /\ Append(b, x)[Len(b) + 1] = x
      /\ \A i \in 1..Len(b) : Append(b, x)[i] = b[i]
  BY <1>0, <1>1, PathAppend
<1>4. IsStripped(Append(b, x))
  BY <1>0, <1>3, Zenon DEF IsStripped
<1> QED
  BY <1>2, <1>3, <1>4, Zenon

LEMMA BaseInjective ==
  ASSUME NEW path, NEW other, IsStripped(path), IsStripped(other),
         Base(path) = Base(other)
  PROVE  path = other
<1>1. /\ StripTrailingSeparators(path) = path /\ StripTrailingSeparators(other) = other
      /\ path # <<>> /\ other # <<>>
  BY StrippedStays, Zenon DEF IsStripped
<1>2. path \in Seq(Tokens) /\ other \in Seq(Tokens)
  BY Zenon DEF IsStripped, Paths
<1> DEFINE Ends(s) == IsSeparator(s[Len(s)])
<1>3. /\ Base(path) = IF path = Here THEN <<>> ELSE IF ~Ends(path) THEN Append(path, Sep) ELSE path
      /\ Base(other) = IF other = Here THEN <<>> ELSE IF ~Ends(other) THEN Append(other, Sep) ELSE other
  BY <1>1, Zenon DEF Base
<1>4. \A s, t \in Seq(Tokens) : Append(s, Sep) = Append(t, Sep) => s = t
  BY TokensAssumption, AppendInjective
<1>5. \A s \in Seq(Tokens) : Append(s, Sep) # <<>>
  <2>1. \A s \in Seq(Tokens) : Append(s, Sep) # <<>>
    BY TokensAssumption, AppendProperties
  <2> QED
    BY <2>1
(* A path that ends with a separator has that alone, or is two of them. *)
<1>6. ASSUME NEW s, NEW t, IsStripped(s), IsStripped(t), ~Ends(s), Ends(t), Append(s, Sep) = t
      PROVE  FALSE
  <2>1. s \in Seq(Tokens) /\ s # <<>> /\ Sep \in Tokens
    BY <1>6, TokensAssumption, Zenon DEF IsStripped, Paths
  <2>2. Len(t) = Len(s) + 1 /\ Len(s) \in Nat \ {0}
    BY <1>6, <2>1, AppendProperties, LenProperties, EmptySeq
  <2>3. t = <<Sep, Sep>>
    BY <1>6, <2>2 DEF IsStripped
  <2>4. Len(s) = 1 /\ s[1] = Sep
    <3>1. Len(t) = 2 /\ t[1] = Sep
      BY <2>3
    <3>2. 1 \in 1..Len(s)
      BY <2>2
    <3>3. Append(s, Sep)[1] = s[1]
      BY <2>1, <3>2, AppendProperties, LenProperties
    <3>4. Len(s) = 1
      <4> PICK n : n = Len(s)
        OBVIOUS
      <4> PICK m : m = Len(t)
        OBVIOUS
      <4>1. m = n + 1 /\ n \in Nat /\ m = 2
        BY <2>2, <3>1, Zenon
      <4>2. n = 1
        BY ONLY <4>1
      <4> QED
        BY <4>2
    <3>5. s[1] = Sep
      BY <1>6, <3>1, <3>3, Zenon
    <3> QED
      BY <3>4, <3>5
  <2> QED
    BY <1>6, <2>4 DEF IsSeparator
<1> QED
  BY <1>1, <1>2, <1>3, <1>4, <1>5, <1>6, Zenon

(* Where a name leads in a directory. *)
LEMMA LookupAppended ==
  ASSUME NEW path, IsStripped(path), NEW x \in EntryNames, tree[Root] = "dir"
  PROVE  Lookup(Append(Base(path), x)) = Walk(Lookup(path), x)
<1> PICK b : b = Base(path)
  OBVIOUS
<1> PICK full : full = Append(b, x)
  OBVIOUS
<1>1. path \in Paths /\ path # <<>> /\ StripTrailingSeparators(path) = path
  BY StrippedStays, Zenon DEF IsStripped
<1>2. /\ full \in Paths /\ Len(full) = Len(b) + 1
      /\ full[Len(b) + 1] = x
      /\ \A i \in 1..Len(b) : full[i] = b[i]
  BY <1>1, AppendedIs, Zenon
<1>3. b \in Paths /\ b \in Seq(Tokens) /\ Len(b) \in Nat /\ full \in Seq(Tokens)
  BY <1>1, <1>2, BaseIs, LenProperties DEF Paths
<1>4. Lookup(full) = Walk(Reached(full, Len(b)), x)
  <2>1. full # <<>> /\ Len(full) \in 1..Len(full) /\ Len(full) - 1 = Len(b)
    BY <1>2, <1>3
  <2>2. Lookup(full) = Reached(full, Len(full))
    BY <1>2, <2>1, ReachedIs
  <2>3. Reached(full, Len(full)) = Walk(Reached(full, Len(full) - 1), full[Len(full)])
    BY <1>2, <2>1, ReachedIs
  <2> QED
    BY <1>2, <2>1, <2>2, <2>3, Zenon
<1>5. SubSeq(full, 1, Len(b)) = b
  <2>1. Len(b) \in 0..Len(full)
    BY <1>2, <1>3
  <2> PICK s : s = SubSeq(full, 1, Len(b))
    OBVIOUS
  <2>2. s \in Paths /\ Len(s) = Len(b) /\ \A i \in 1..Len(b) : s[i] = full[i]
    BY <1>2, <2>1, PrefixOfPath
  <2>3. s \in Seq(Tokens)
    BY <2>2 DEF Paths
  <2>4. \A i \in 1..Len(s) : s[i] = b[i]
    BY <1>2, <2>2
  <2> QED
    BY <1>3, <2>2, <2>3, <2>4, SeqEqual
<1>6. Reached(full, Len(b)) = IF b = <<>> THEN Root ELSE Lookup(b)
  <2>1. Len(b) = 0 <=> b = <<>>
    BY <1>3, EmptySeq
  <2> QED
    BY <1>5, <2>1, Zenon DEF Reached
<1>7. CASE path = Here
  <2>1. b = <<>>
    BY <1>7 DEF Base
  <2> QED
    BY <1>4, <1>6, <1>7, <2>1, HereLeadsToRoot, Zenon
<1>8. CASE path # Here /\ IsSeparator(path[Len(path)])
  <2>1. b = path
    BY <1>1, <1>8, Zenon DEF Base
  <2> QED
    BY <1>1, <1>4, <1>6, <2>1, Zenon
<1>9. CASE path # Here /\ ~IsSeparator(path[Len(path)])
  <2>1. b = Append(path, Sep)
    BY <1>1, <1>9, Zenon DEF Base
  <2>2. path \in Seq(Tokens) /\ Len(path) \in Nat /\ Sep \in Tokens /\ Len(path) # 0
    BY <1>1, LenProperties, EmptySeq, TokensAssumption DEF Paths
  <2>3. Len(b) = Len(path) + 1 /\ b[Len(path) + 1] = Sep /\ b # <<>>
        /\ \A i \in 1..Len(path) : b[i] = path[i]
    BY <2>1, <2>2, AppendProperties
  <2>4. SubSeq(b, 1, Len(path)) = path
    <3>1. Len(path) \in 0..Len(b)
      BY <2>2, <2>3
    <3> PICK s : s = SubSeq(b, 1, Len(path))
      OBVIOUS
    <3>2. s \in Paths /\ Len(s) = Len(path) /\ \A i \in 1..Len(path) : s[i] = b[i]
      BY <1>3, <3>1, PrefixOfPath
    <3>3. s \in Seq(Tokens)
      BY <3>2 DEF Paths
    <3>4. \A i \in 1..Len(s) : s[i] = path[i]
      BY <2>3, <3>2
    <3> QED
      BY <2>2, <3>2, <3>3, <3>4, SeqEqual
  <2>5. Lookup(b) = Reached(b, Len(b)) /\ Reached(b, Len(path)) = Lookup(path)
    BY <1>3, <2>2, <2>3, <2>4, ReachedIs, Zenon DEF Reached
  <2>6. Reached(b, Len(b)) = Reached(b, Len(path))
    <3>1. Len(path) \in 0..Len(b) /\ Len(b) \in Len(path)..Len(b) /\ OnlySeparators(b, Len(path) + 1, Len(b))
      BY <2>2, <2>3 DEF OnlySeparators, IsSeparator
    <3> QED
      BY <1>3, <3>1, SeparatorsStay
  <2> QED
    BY <1>4, <1>6, <2>3, <2>5, <2>6, Zenon
<1> QED
  BY <1>7, <1>8, <1>9

-----------------------------------------------------------------------------
(* What an enumeration makes of the entries of a directory.                *)

Entry == [name : EntryNames, dir : BOOLEAN]
ListCalls ==
  [op : {"list"}, recursive : BOOLEAN, type : SUBSET Types, start : Paths,
   pattern : Tokens \cup {NoPattern}, root : Paths, dir_entries : Seq(Entry),
   current : Nat, pending : Seq(Paths), entries : Seq(Entry), left : SUBSET Names,
   seen : SUBSET Names, listed : Seq(Paths), result : BOOLEAN]

(* Fields of FileEnumerator's calls that change. *)
LEMMA ListCallUpdates ==
  ASSUME NEW c \in ListCalls
  PROVE  /\ \A r \in BOOLEAN : [c EXCEPT !.result = r] \in ListCalls
         /\ \A n \in Nat : [c EXCEPT !.current = n] \in ListCalls
         /\ \A path \in Paths : [c EXCEPT !.root = path] \in ListCalls
         /\ \A s \in Seq(Paths) : [c EXCEPT !.listed = s] \in ListCalls /\ [c EXCEPT !.pending = s] \in ListCalls
         /\ \A s \in Seq(Entry) : [c EXCEPT !.entries = s] \in ListCalls /\ [c EXCEPT !.dir_entries = s] \in ListCalls
         /\ \A s \in SUBSET Names : [c EXCEPT !.left = s] \in ListCalls /\ [c EXCEPT !.seen = s] \in ListCalls
  BY Zenon DEF ListCalls

LEMMA FullIs ==
  ASSUME NEW c \in ListCalls, NEW x \in EntryNames
  PROVE  /\ Full(c, x) = Append(Base(c.root), x) /\ Full(c, x) \in Paths
         /\ IsStripped(Full(c, x))
<1>1. c.root \in Paths
  BY DEF ListCalls
<1> QED
  BY <1>1, AppendedIs, Zenon DEF Full

LEMMA NamesAreEntries == Names \subseteq EntryNames /\ kCurrentDirectory \in EntryNames /\ kParentDirectory \in EntryNames
  BY TokensAssumption, TokensDiffer DEF Names, EntryNames, IsSeparator

-----------------------------------------------------------------------------
(* A sequence has been added to: of the first k of what there is, those    *)
(* that are wanted. *)
Gathers(old, new, k, want, what) ==
  /\ Len(old) <= Len(new) /\ \A i \in 1..Len(old) : new[i] = old[i]
  /\ \A i \in (Len(old) + 1)..Len(new) : \E j \in want : j <= k /\ new[i] = what[j]
  /\ \A j \in want : j <= k => \E i \in (Len(old) + 1)..Len(new) : new[i] = what[j]
  /\ \A a, b \in (Len(old) + 1)..Len(new) :
       a < b => \E i, j \in want : i < j /\ j <= k /\ new[a] = what[i] /\ new[b] = what[j]

LEMMA GathersNothing ==
  ASSUME NEW old, Len(old) \in Nat, NEW want, want \subseteq Nat \ {0}, NEW what
  PROVE  Gathers(old, old, 0, want, what)
<1>1. Len(old) <= Len(old) /\ (Len(old) + 1)..Len(old) = {}
  OBVIOUS
<1>2. \A j \in want : ~(j <= 0)
  OBVIOUS
<1> QED
  BY <1>1, <1>2, Zenon DEF Gathers

LEMMA GathersMore ==
  ASSUME NEW S, NEW old \in Seq(S), NEW new \in Seq(S), NEW k \in Nat,
         NEW want, want \subseteq Nat \ {0}, NEW what, Gathers(old, new, k, want, what)
  PROVE  /\ k + 1 \notin want => Gathers(old, new, k + 1, want, what)
         /\ k + 1 \in want /\ what[k + 1] \in S =>
              Gathers(old, Append(new, what[k + 1]), k + 1, want, what)
<1> PICK m : m = Len(old)
  OBVIOUS
<1> PICK n : n = Len(new)
  OBVIOUS
<1> PICK q : q = k + 1
  OBVIOUS
<1>0. m \in Nat /\ n \in Nat /\ q \in Nat
  BY LenProperties
<1>1. m <= n /\ \A i \in 1..m : new[i] = old[i]
  BY Zenon DEF Gathers
<1>2. \A i \in (m + 1)..n : \E j \in want : j <= k /\ new[i] = what[j]
  BY Zenon DEF Gathers
<1>3. \A j \in want : j <= k => \E i \in (m + 1)..n : new[i] = what[j]
  BY Zenon DEF Gathers
<1>4. \A a, b \in (m + 1)..n :
        a < b => \E i, j \in want : i < j /\ j <= k /\ new[a] = what[i] /\ new[b] = what[j]
  BY Zenon DEF Gathers
<1>5. \A j \in want : j <= k => j <= q /\ j < q
  OBVIOUS
<1>6. \A j \in want : j <= q => j <= k \/ j = q
  OBVIOUS
<1>7. CASE q \notin want
  <2>1. \A j \in want : j <= q => j <= k
    BY <1>6, <1>7, Zenon
  <2>2. \A i \in (m + 1)..n : \E j \in want : j <= q /\ new[i] = what[j]
    BY <1>2, <1>5, Zenon
  <2>3. \A j \in want : j <= q => \E i \in (m + 1)..n : new[i] = what[j]
    BY <1>3, <2>1, Zenon
  <2>4. ASSUME NEW a \in (m + 1)..n, NEW b \in (m + 1)..n, a < b
        PROVE  \E i, j \in want : i < j /\ j <= q /\ new[a] = what[i] /\ new[b] = what[j]
    <3>1. PICK i \in want, j \in want : i < j /\ j <= k /\ new[a] = what[i] /\ new[b] = what[j]
      BY <1>4, <2>4, Zenon
    <3> QED
      BY <1>5, <3>1, Zenon
  <2>5. Gathers(old, new, q, want, what)
    BY <1>1, <2>2, <2>3, <2>4, Zenon DEF Gathers
  <2> QED
    BY <1>7, <2>5, Zenon
<1>8. CASE q \in want /\ what[q] \in S
  <2> PICK s : s = Append(new, what[q])
    OBVIOUS
  <2> PICK l : l = Len(s)
    OBVIOUS
  <2>1. l = n + 1 /\ s[l] = what[q] /\ \A i \in 1..n : s[i] = new[i]
    BY <1>8, AppendProperties
  <2>2. m <= l /\ \A i \in 1..m : i \in 1..n
    BY ONLY <1>0, <1>1, <2>1
  <2>3. \A i \in 1..m : s[i] = old[i]
    BY <1>1, <2>1, <2>2, Zenon
  <2>4. \A i \in (m + 1)..l : i = l \/ i \in (m + 1)..n
    BY ONLY <1>0, <1>1, <2>1
  <2>5. \A i \in (m + 1)..n : i \in (m + 1)..l /\ i \in 1..n /\ i < l
    BY ONLY <1>0, <1>1, <2>1
  <2>6. \A i \in (m + 1)..n : s[i] = new[i]
    BY <2>1, <2>5, Zenon
  <2>7. l \in (m + 1)..l /\ q <= q
    BY ONLY <1>0, <1>1, <2>1
  <2>8. ASSUME NEW i \in (m + 1)..l PROVE \E j \in want : j <= q /\ s[i] = what[j]
    <3>1. CASE i = l
      BY <1>8, <2>1, <2>7, <3>1, Zenon
    <3>2. CASE i \in (m + 1)..n
      <4>1. PICK j \in want : j <= k /\ new[i] = what[j]
        BY <1>2, <3>2, Zenon
      <4> QED
        BY <1>5, <2>6, <3>2, <4>1, Zenon
    <3> QED
      BY <2>4, <3>1, <3>2, Zenon
  <2>9. ASSUME NEW j \in want, j <= q PROVE \E i \in (m + 1)..l : s[i] = what[j]
    <3>1. CASE j = q
      BY <2>1, <2>7, <3>1, Zenon
    <3>2. CASE j <= k
      <4>1. PICK i \in (m + 1)..n : new[i] = what[j]
        BY <1>3, <3>2, Zenon
      <4> QED
        BY <2>5, <2>6, <4>1, Zenon
    <3> QED
      BY <1>6, <2>9, <3>1, <3>2, Zenon
  <2>10. ASSUME NEW a \in (m + 1)..l, NEW b \in (m + 1)..l, a < b
         PROVE  \E i, j \in want : i < j /\ j <= q /\ s[a] = what[i] /\ s[b] = what[j]
    <3>1. a \in (m + 1)..n
      BY ONLY <1>0, <1>1, <2>1, <2>10
    <3>2. CASE b = l
      <4>1. PICK i \in want : i <= k /\ new[a] = what[i]
        BY <1>2, <3>1, Zenon
      <4> QED
        BY <1>5, <1>8, <2>1, <2>6, <2>7, <3>1, <3>2, <4>1, Zenon
    <3>3. CASE b \in (m + 1)..n
      <4>1. PICK i \in want, j \in want : i < j /\ j <= k /\ new[a] = what[i] /\ new[b] = what[j]
        BY <1>4, <2>10, <3>1, <3>3, Zenon
      <4> QED
        BY <1>5, <2>6, <3>1, <3>3, <4>1, Zenon
    <3> QED
      BY <2>4, <2>10, <3>2, <3>3, Zenon
  <2>11. Gathers(old, s, q, want, what)
    BY <2>2, <2>3, <2>8, <2>9, <2>10, ZenonT(60) DEF Gathers
  <2> QED
    BY <1>8, <2>11, Zenon
<1> QED
  BY <1>7, <1>8, Zenon

-----------------------------------------------------------------------------
(* What FileEnumerator makes of the entries of a directory. *)

Passes(c, e) == ~Skip(c, Full(c, e.name)) /\ Matches(c, Full(c, e.name))
WantedOf(c) ==
  {j \in 1..Len(c.entries) :
     /\ Passes(c, c.entries[j])
     /\ (IF c.entries[j].dir THEN "DIRECTORIES" ELSE "FILES") \in c.type}
EnteredOf(c) ==
  {j \in 1..Len(c.entries) :
     Passes(c, c.entries[j]) /\ c.recursive /\ c.entries[j].dir}
PathsOf(c) == [j \in 1..Len(c.entries) |-> Full(c, c.entries[j].name)]

SameScan(c, d) ==
  /\ d.recursive = c.recursive /\ d.type = c.type /\ d.start = c.start
  /\ d.pattern = c.pattern /\ d.root = c.root /\ d.listed = c.listed

TakenTo(c, d, k) ==
  /\ d \in ListCalls /\ SameScan(c, d) /\ d.current = 0
  /\ Gathers(<<>>, d.dir_entries, k, WantedOf(c), c.entries)
  /\ Gathers(c.pending, d.pending, k, EnteredOf(c), PathsOf(c))

TakesAlong(f, c) ==
  /\ f[0] = Cleared(c)
  /\ \A k \in 1..Len(c.entries) : f[k] = TakeEntry(f[k - 1], c.entries[k])

IsTaking(iter, c, m) ==
  iter = [s \in SUBSET (1..m) |->
            IF s = {} THEN Cleared(c) ELSE TakeEntry(iter[s \ {Max(s)}], c.entries[Max(s)])]

LEMMA TakeEntryIs ==
  ASSUME NEW d \in ListCalls, NEW e \in Entry
  PROVE  \/ ~Passes(d, e) /\ TakeEntry(d, e) = d
         \/ /\ Passes(d, e) /\ TakeEntry(d, e) \in ListCalls /\ SameScan(d, TakeEntry(d, e))
            /\ TakeEntry(d, e).current = d.current
            /\ TakeEntry(d, e).pending =
                 IF d.recursive /\ e.dir THEN Append(d.pending, Full(d, e.name)) ELSE d.pending
            /\ TakeEntry(d, e).dir_entries =
                 IF (IF e.dir THEN "DIRECTORIES" ELSE "FILES") \in d.type
                 THEN Append(d.dir_entries, e) ELSE d.dir_entries
<1> PICK path : path = Full(d, e.name)
  OBVIOUS
<1>1. path \in Paths
  BY FullIs DEF Entry
<1>2. CASE Skip(d, path) \/ ~Matches(d, path)
  BY <1>2, Zenon DEF TakeEntry, Passes
<1>3. CASE ~(Skip(d, path) \/ ~Matches(d, path))
  <2> PICK pending : pending = IF d.recursive /\ e.dir THEN Append(d.pending, path) ELSE d.pending
    OBVIOUS
  <2> PICK entries : entries = IF (IF e.dir THEN "DIRECTORIES" ELSE "FILES") \in d.type
                               THEN Append(d.dir_entries, e) ELSE d.dir_entries
    OBVIOUS
  <2>1. pending \in Seq(Paths) /\ entries \in Seq(Entry)
    <3>1. d.pending \in Seq(Paths) /\ d.dir_entries \in Seq(Entry)
      BY DEF ListCalls
    <3> QED
      BY <1>1, <3>1, AppendProperties
  <2>2. TakeEntry(d, e) = [d EXCEPT !.pending = pending, !.dir_entries = entries]
    BY <1>3, Zenon DEF TakeEntry
  <2>3. [d EXCEPT !.pending = pending] \in ListCalls
    BY <2>1, ListCallUpdates
  <2>4. TakeEntry(d, e) \in ListCalls
    <3> PICK g : g = [d EXCEPT !.pending = pending]
      OBVIOUS
    <3>1. [g EXCEPT !.dir_entries = entries] \in ListCalls
      BY <2>1, <2>3, ListCallUpdates
    <3> QED
      BY <2>2, <3>1
  <2>5. /\ TakeEntry(d, e).pending = pending /\ TakeEntry(d, e).dir_entries = entries
        /\ TakeEntry(d, e).current = d.current /\ SameScan(d, TakeEntry(d, e))
    BY <2>2 DEF ListCalls, SameScan
  <2>6. Passes(d, e)
    BY <1>3, Zenon DEF Passes
  <2> QED
    BY <2>4, <2>5, <2>6, Zenon
<1> QED
  BY <1>2, <1>3

LEMMA ClearedType ==
  ASSUME NEW c \in ListCalls
  PROVE  /\ Cleared(c) \in ListCalls /\ SameScan(c, Cleared(c))
         /\ Cleared(c).current = 0 /\ Cleared(c).dir_entries = <<>>
         /\ Cleared(c).pending = c.pending
<1>1. <<>> \in Seq(Entry)
  OBVIOUS
<1>2. [c EXCEPT !.dir_entries = <<>>] \in ListCalls
  BY <1>1, ListCallUpdates
<1>3. Cleared(c) \in ListCalls
  <2> PICK d : d = [c EXCEPT !.dir_entries = <<>>]
    OBVIOUS
  <2>1. [d EXCEPT !.current = 0] \in ListCalls
    BY <1>2, ListCallUpdates
  <2> QED
    BY <2>1 DEF Cleared
<1> QED
  BY <1>3 DEF Cleared, ListCalls, SameScan

LEMMA EntriesTaken ==
  ASSUME NEW c \in ListCalls
  PROVE  \E f \in [0..Len(c.entries) -> ListCalls] :
           TakesAlong(f, c) /\ FoldLeft(TakeEntry, Cleared(c), c.entries) = f[Len(c.entries)]
<1> PICK seq : seq = c.entries
  OBVIOUS
<1>0. seq \in Seq(Entry)
  BY DEF ListCalls
<1> DEFINE m == Len(seq)
           step == [z \in ListCalls \X Entry |-> TakeEntry(z[1], z[2])]
<1>1. m \in Nat /\ DOMAIN seq = 1..m
  BY <1>0, LenProperties
<1>2. \E iter : IsTaking(iter, c, m)
  <2>1. step \in [ListCalls \X Entry -> ListCalls] /\ Cleared(c) \in ListCalls
    BY TakeEntryIs, ClearedType
  <2> HIDE DEF step
  <2>2. PICK iter \in [SUBSET (1..m) -> ListCalls] : IsFold(iter, step, Cleared(c), seq, m)
    <3>1. m \in 0..Len(seq)
      BY <1>1
    <3> HIDE DEF m
    <3> QED
      BY <1>0, <2>1, <3>1, FoldExists, Zenon
  <2>3. ASSUME NEW s \in SUBSET (1..m), s # {}
        PROVE  step[iter[s \ {Max(s)}], seq[Max(s)]] = TakeEntry(iter[s \ {Max(s)}], seq[Max(s)])
    <3>1. Max(s) \in 1..m
      BY <1>1, <2>3, MaxIn
    <3>2. seq[Max(s)] \in Entry /\ iter[s \ {Max(s)}] \in ListCalls
      BY <1>0, <1>1, <2>2, <3>1, ElementOfSeq
    <3> QED
      BY <3>2 DEF step
  <2>4. ASSUME NEW s \in SUBSET (1..m)
        PROVE  iter[s] = IF s = {} THEN Cleared(c) ELSE TakeEntry(iter[s \ {Max(s)}], seq[Max(s)])
    <3>1. iter[s] = IF s = {} THEN Cleared(c) ELSE step[iter[s \ {Max(s)}], seq[Max(s)]]
      BY <2>2, Zenon DEF IsFold
    <3> QED
      BY <2>3, <3>1, Zenon
  <2>5. iter = [s \in SUBSET (1..m) |-> iter[s]]
    BY <2>2
  <2>6. IsTaking(iter, c, m)
    BY <2>4, <2>5, Zenon DEF IsTaking
  <2> QED
    BY <2>6, Zenon
<1> DEFINE iter == CHOOSE g : IsTaking(g, c, m)
           f == [k \in 0..m |-> iter[1..k]]
<1>3. IsTaking(iter, c, m)
  BY <1>2, Zenon
<1>4. FoldLeft(TakeEntry, Cleared(c), c.entries) = iter[1..m]
  BY <1>1, Zenon DEF FoldLeft, MapThenFoldSet, IsTaking
<1> HIDE DEF iter, m, step
<1>5. \A s \in SUBSET (1..m) :
        iter[s] = IF s = {} THEN Cleared(c) ELSE TakeEntry(iter[s \ {Max(s)}], seq[Max(s)])
  BY <1>3, Zenon DEF IsTaking
<1>6. f[0] = Cleared(c)
  <2>1. 1..0 = {} /\ 0 \in 0..m /\ {} \in SUBSET (1..m)
    BY <1>1
  <2> QED
    BY <1>5, <2>1, Zenon
<1>7. ASSUME NEW k \in 1..m PROVE f[k] = TakeEntry(f[k - 1], seq[k])
  <2>1. 1..k \in SUBSET (1..m) /\ (1..k) \ {k} = 1..(k - 1) /\ k \in 0..m /\ k - 1 \in 0..m
    BY <1>1
  <2>2. 1..k \in SUBSET Int /\ k \in 1..k /\ \A n \in 1..k : n <= k
    BY <1>1
  <2>3. Max(1..k) = k /\ 1..k # {}
    BY <2>2, MaxIs
  <2> QED
    BY <1>5, <2>1, <2>3, Zenon
<1>8. f \in [0..m -> ListCalls]
  <2> DEFINE Bad == {k \in 0..m : f[k] \notin ListCalls}
  <2>1. CASE Bad # {}
    <3>0. Bad \in SUBSET Nat
      BY <1>1
    <3>1. PICK k \in Bad : \A n \in Bad : k <= n
      BY <2>1, <3>0, SmallestOf, Zenon
    <3>2. f[0] \in ListCalls
      BY <1>6, ClearedType
    <3>3. k \in 1..m /\ k - 1 \in 0..m /\ k - 1 \notin Bad /\ f[k] \notin ListCalls
      BY <1>1, <3>1, <3>2
    <3>4. f[k - 1] \in ListCalls
      BY <3>3, Zenon
    <3>5. f[k] = TakeEntry(f[k - 1], seq[k])
      BY <1>7, <3>3, Zenon
    <3>6. seq[k] \in Entry
      BY <1>0, <3>3, ElementOfSeq DEF m
    <3> QED
      BY <3>3, <3>4, <3>5, <3>6, TakeEntryIs, Zenon
  <2>2. CASE Bad = {}
    BY <2>2
  <2> QED
    BY <2>1, <2>2
<1>9. FoldLeft(TakeEntry, Cleared(c), c.entries) = f[m]
  BY <1>1, <1>4
<1> HIDE DEF f
<1>10. TakesAlong(f, c)
  BY <1>6, <1>7, Zenon DEF TakesAlong, m
<1> QED
  BY <1>8, <1>9, <1>10, Zenon DEF m

LEMMA SameScanSame ==
  ASSUME NEW c, NEW d, SameScan(c, d)
  PROVE  /\ \A x : Full(d, x) = Full(c, x)
         /\ \A path : Skip(d, path) <=> Skip(c, path)
         /\ \A path : Matches(d, path) <=> Matches(c, path)
         /\ \A e : Passes(d, e) <=> Passes(c, e)
<1>1. d.root = c.root /\ d.type = c.type /\ d.pattern = c.pattern /\ d.start = c.start
  BY DEF SameScan
<1>2. \A x : Full(d, x) = Full(c, x)
  BY <1>1, Zenon DEF Full
<1>3. \A path : Skip(d, path) <=> Skip(c, path)
  BY <1>1, Zenon DEF Skip
<1>4. \A path : Matches(d, path) <=> Matches(c, path)
  BY <1>1, Zenon DEF Matches
<1> QED
  BY <1>2, <1>3, <1>4, Zenon DEF Passes

LEMMA TakenNext ==
  ASSUME NEW c \in ListCalls, NEW d, NEW k \in 1..Len(c.entries), TakenTo(c, d, k - 1)
  PROVE  TakenTo(c, TakeEntry(d, c.entries[k]), k)
<1> PICK e : e = c.entries[k]
  OBVIOUS
<1>1. e \in Entry /\ k \in Nat \ {0} /\ (k - 1) + 1 = k /\ k - 1 \in Nat
  BY ElementOfSeq, LenProperties DEF ListCalls
<1> PICK t : t = TakeEntry(d, e)
  OBVIOUS
<1>2. /\ d \in ListCalls /\ SameScan(c, d) /\ d.current = 0
      /\ Gathers(<<>>, d.dir_entries, k - 1, WantedOf(c), c.entries)
      /\ Gathers(c.pending, d.pending, k - 1, EnteredOf(c), PathsOf(c))
  BY Zenon DEF TakenTo
<1>3. /\ Passes(d, e) <=> Passes(c, e)
      /\ Full(d, e.name) = Full(c, e.name) /\ d.type = c.type /\ d.recursive = c.recursive
  BY <1>2, SameScanSame, ZenonT(60) DEF SameScan
<1>4. /\ k \in WantedOf(c) <=> Passes(c, e) /\ (IF e.dir THEN "DIRECTORIES" ELSE "FILES") \in c.type
      /\ k \in EnteredOf(c) <=> Passes(c, e) /\ c.recursive /\ e.dir
  BY DEF WantedOf, EnteredOf
<1>5. c.entries[k] = e /\ PathsOf(c)[k] = Full(c, e.name) /\ Full(c, e.name) \in Paths
  BY <1>1, FullIs DEF PathsOf, Entry
<1>6. /\ t \in ListCalls /\ SameScan(c, t) /\ t.current = 0
      /\ t.dir_entries = IF k \in WantedOf(c) THEN Append(d.dir_entries, e) ELSE d.dir_entries
      /\ t.pending = IF k \in EnteredOf(c) THEN Append(d.pending, Full(c, e.name)) ELSE d.pending
  <2>1. SameScan(d, t) \/ t = d
    BY <1>1, <1>2, TakeEntryIs, Zenon
  <2>2. SameScan(c, t)
    BY <1>2, <2>1 DEF SameScan
  <2>3. CASE ~Passes(d, e) /\ t = d
    BY <1>2, <1>3, <1>4, <2>3, Zenon
  <2>4. CASE /\ Passes(d, e) /\ t \in ListCalls
             /\ t.current = d.current
             /\ t.pending = IF d.recursive /\ e.dir THEN Append(d.pending, Full(d, e.name)) ELSE d.pending
             /\ t.dir_entries = IF (IF e.dir THEN "DIRECTORIES" ELSE "FILES") \in d.type
                                THEN Append(d.dir_entries, e) ELSE d.dir_entries
    BY <1>2, <1>3, <1>4, <2>2, <2>4, Zenon
  <2> QED
    BY <1>1, <1>2, <2>3, <2>4, TakeEntryIs, Zenon
<1>7. WantedOf(c) \subseteq Nat \ {0} /\ EnteredOf(c) \subseteq Nat \ {0}
  BY DEF WantedOf, EnteredOf
<1>8. d.dir_entries \in Seq(Entry) /\ d.pending \in Seq(Paths) /\ c.pending \in Seq(Paths) /\ <<>> \in Seq(Entry)
  BY <1>2 DEF ListCalls
<1> PICK j : j = k - 1
  OBVIOUS
<1>9. j \in Nat /\ j + 1 = k
  BY <1>1
<1>10. Gathers(<<>>, t.dir_entries, k, WantedOf(c), c.entries)
  <2>1. /\ j + 1 \notin WantedOf(c) => Gathers(<<>>, d.dir_entries, j + 1, WantedOf(c), c.entries)
        /\ j + 1 \in WantedOf(c) /\ c.entries[j + 1] \in Entry =>
             Gathers(<<>>, Append(d.dir_entries, c.entries[j + 1]), j + 1, WantedOf(c), c.entries)
    BY <1>2, <1>7, <1>8, <1>9, GathersMore, Zenon
  <2> QED
    BY <1>1, <1>5, <1>6, <1>9, <2>1, Zenon
<1>11. Gathers(c.pending, t.pending, k, EnteredOf(c), PathsOf(c))
  <2>1. /\ j + 1 \notin EnteredOf(c) => Gathers(c.pending, d.pending, j + 1, EnteredOf(c), PathsOf(c))
        /\ j + 1 \in EnteredOf(c) /\ PathsOf(c)[j + 1] \in Paths =>
             Gathers(c.pending, Append(d.pending, PathsOf(c)[j + 1]), j + 1, EnteredOf(c), PathsOf(c))
    BY <1>2, <1>7, <1>8, <1>9, GathersMore, Zenon
  <2> QED
    BY <1>5, <1>6, <1>9, <2>1, Zenon
<1> QED
  BY <1>6, <1>10, <1>11, Zenon DEF TakenTo

LEMMA TakenFirst ==
  ASSUME NEW c \in ListCalls
  PROVE  TakenTo(c, Cleared(c), 0)
<1>1. WantedOf(c) \subseteq Nat \ {0} /\ EnteredOf(c) \subseteq Nat \ {0}
  BY DEF WantedOf, EnteredOf
<1>2. Len(c.pending) \in Nat /\ Len(<<>>) \in Nat
  BY LenProperties DEF ListCalls
<1>3. Gathers(<<>>, <<>>, 0, WantedOf(c), c.entries)
  BY <1>1, <1>2, GathersNothing, Zenon
<1>4. Gathers(c.pending, c.pending, 0, EnteredOf(c), PathsOf(c))
  BY <1>1, <1>2, GathersNothing, Zenon
<1> QED
  BY <1>3, <1>4, ClearedType, Zenon DEF TakenTo

(* All that has been read of a directory has been taken. *)
LEMMA AllTaken ==
  ASSUME NEW c \in ListCalls
  PROVE  TakenTo(c, FoldLeft(TakeEntry, Cleared(c), c.entries), Len(c.entries))
<1> PICK m : m = Len(c.entries)
  OBVIOUS
<1>1. m \in Nat
  BY LenProperties DEF ListCalls
<1>2. PICK f : TakesAlong(f, c) /\ FoldLeft(TakeEntry, Cleared(c), c.entries) = f[m]
  BY EntriesTaken, Zenon
<1> DEFINE Bad == {k \in 0..m : ~TakenTo(c, f[k], k)}
<1>3. CASE Bad # {}
  <2>1. Bad \in SUBSET Nat
    BY <1>1
  <2>2. PICK k \in Bad : \A n \in Bad : k <= n
    BY <1>3, <2>1, SmallestOf, Zenon
  <2>3. TakenTo(c, f[0], 0)
    BY <1>2, TakenFirst, Zenon DEF TakesAlong
  <2>4. k \in 1..m /\ k - 1 \in 0..m /\ ~(k <= k - 1) /\ ~TakenTo(c, f[k], k)
    BY <1>1, <2>2, <2>3
  <2>5. TakenTo(c, f[k - 1], k - 1)
    BY <2>2, <2>4, Zenon
  <2>6. TakenTo(c, TakeEntry(f[k - 1], c.entries[k]), k)
    BY <2>4, <2>5, TakenNext, Zenon
  <2>7. f[k] = TakeEntry(f[k - 1], c.entries[k])
    BY <1>2, <2>4, Zenon DEF TakesAlong
  <2> QED
    BY <2>4, <2>6, <2>7, Zenon
<1>4. CASE Bad = {}
  <2>1. m \in 0..m
    BY <1>1
  <2> QED
    BY <1>2, <1>4, <2>1, Zenon
<1> QED
  BY <1>3, <1>4

-----------------------------------------------------------------------------
(* The state: the tree, and a call of the right kind wherever a process is. *)

Labels == {"idle", "open", "fstat", "read", "terminated", "create", "write", "close",
           "exists", "mkdir", "recheck", "next", "readdir", "stat", "returned"}

ReadCalls ==
  [op : {"read"}, path : Paths, max : Nat, inode : Nat, size : Nat, soFar : Nat,
   total : Int, out : Seq(Int), failed : BOOLEAN, result : BOOLEAN]
WriteCalls ==
  [op : {"write"}, path : Paths, data : Seq(Int), inode : Nat, stored : Nat,
   total : Int, failed : BOOLEAN, result : BOOLEAN]
CreateCalls ==
  [op : {"mkdir"}, path : Paths, todo : Seq(Paths), result : BOOLEAN]
PlaceOK(label, c) ==
  /\ label \in {"open", "fstat", "read", "terminated"} => c \in ReadCalls
  /\ label \in {"create", "write", "close"} => c \in WriteCalls
  /\ label \in {"exists", "mkdir", "recheck"} => c \in CreateCalls /\ c.todo # <<>>
  /\ label \in {"next", "readdir", "stat"} => c \in ListCalls
  /\ label = "stat" => c.entries # <<>>
  /\ label = "returned" =>
       c \in ReadCalls \/ c \in WriteCalls \/ c \in CreateCalls \/ c \in ListCalls

TypeInv ==
  /\ TypeOK
  /\ content \in Seq(Seq(Int))
  /\ pc \in [Processes -> Labels]
  /\ DOMAIN call = Processes
  /\ \A p \in Processes : PlaceOK(pc[p], call[p])

(* The place of one process changes, and its call. *)
LEMMA GoIs ==
  ASSUME TypeInv, NEW p \in Processes, NEW label, NEW record, Go(p, label, record)
  PROVE  /\ pc'[p] = label /\ call'[p] = record
         /\ \A q \in Processes : q # p => pc'[q] = pc[q] /\ call'[q] = call[q]
         /\ label \in Labels => pc' \in [Processes -> Labels]
         /\ DOMAIN call' = Processes
         /\ calls' = calls /\ removes' = removes
  BY DEF Go, TypeInv

LEMMA BeginIs ==
  ASSUME TypeInv, NEW p \in Processes, NEW label \in Labels, NEW record, Begin(p, label, record)
  PROVE  /\ pc'[p] = label /\ call'[p] = record
         /\ \A q \in Processes : q # p => pc'[q] = pc[q] /\ call'[q] = call[q]
         /\ pc' \in [Processes -> Labels]
         /\ DOMAIN call' = Processes
         /\ calls' \in 0..MaxCalls /\ UNCHANGED <<kernel, removes>>
         /\ still' \in [Processes -> SUBSET Nodes] /\ still'[p] = Nodes
         /\ clear' \in [Processes -> SUBSET Nodes] /\ clear'[p] = Nodes
         /\ \A q \in Processes : q # p => still'[q] = still[q] /\ clear'[q] = clear[q]
  BY SizesAssumption DEF Begin, TypeInv, TypeOK

(* What a step of a process that leaves the files as they are has to show. *)
Goes(p) == \E label \in Labels : \E record : Go(p, label, record) /\ PlaceOK(label, record)

LEMMA GoesKeepsTypes ==
  ASSUME TypeInv, NEW p \in Processes, Goes(p),
         TypeOK', content' \in Seq(Seq(Int))
  PROVE  TypeInv'
<1>0. PICK label \in Labels : \E record : Go(p, label, record) /\ PlaceOK(label, record)
  BY DEF Goes
<1>1. PICK record : Go(p, label, record) /\ PlaceOK(label, record)
  BY <1>0
<1>2. /\ pc'[p] = label /\ call'[p] = record
      /\ \A q \in Processes : q # p => pc'[q] = pc[q] /\ call'[q] = call[q]
      /\ pc' \in [Processes -> Labels]
      /\ DOMAIN call' = Processes
  BY <1>1, GoIs
<1>3. ASSUME NEW q \in Processes PROVE PlaceOK(pc'[q], call'[q])
  <2>1. CASE q = p
    BY <1>1, <1>2, <2>1, Zenon
  <2>2. CASE q # p
    BY <1>2, <2>2, Zenon DEF TypeInv
  <2> QED
    BY <2>1, <2>2
<1>4. (\A q \in Processes : PlaceOK(pc[q], call[q]))'
  BY <1>3 DEF PlaceOK
<1> QED
  BY <1>2, <1>4, Zenon DEF TypeInv

LEMMA TypeOKUnchanged ==
  ASSUME TypeOK, UNCHANGED <<kernel, history>>, calls' = calls, removes' = removes
  PROVE  TypeOK'
  BY DEF TypeOK, kernel, history

LEMMA QuietStepKeepsTypes ==
  ASSUME TypeInv, NEW p \in Processes, Goes(p), UNCHANGED <<kernel, history>>
  PROVE  TypeInv'
<1>1. calls' = calls /\ removes' = removes
  BY Zenon DEF Goes, Go
<1>2. TypeOK' /\ content' \in Seq(Seq(Int))
  BY <1>1, TypeOKUnchanged DEF TypeInv, kernel
<1> QED
  BY <1>2, GoesKeepsTypes

(* Fields of calls that change. *)
LEMMA ReadCallUpdates ==
  ASSUME NEW c \in ReadCalls
  PROVE  /\ \A r \in BOOLEAN :
              [c EXCEPT !.result = r] \in ReadCalls
         /\ \A n \in Nat : [c EXCEPT !.inode = n] \in ReadCalls /\ [c EXCEPT !.size = n] \in ReadCalls
         /\ \A out \in Seq(Int) : [c EXCEPT !.out = out] \in ReadCalls
         /\ [c EXCEPT !.failed = TRUE] \in ReadCalls
  BY Zenon DEF ReadCalls

LEMMA WriteCallUpdates ==
  ASSUME NEW c \in WriteCalls
  PROVE  /\ \A r \in BOOLEAN :
              [c EXCEPT !.result = r] \in WriteCalls /\ [c EXCEPT !.failed = r] \in WriteCalls
         /\ \A n \in Nat : [c EXCEPT !.inode = n] \in WriteCalls /\ [c EXCEPT !.stored = n] \in WriteCalls
         /\ \A n \in Int : [c EXCEPT !.total = n] \in WriteCalls
  BY Zenon DEF WriteCalls

LEMMA CreateCallUpdates ==
  ASSUME NEW c \in CreateCalls
  PROVE  /\ \A r \in BOOLEAN : [c EXCEPT !.result = r] \in CreateCalls
         /\ \A todo \in Seq(Paths) : [c EXCEPT !.todo = todo] \in CreateCalls
  BY Zenon DEF CreateCalls

-----------------------------------------------------------------------------
(* What a call of ReadFile or WriteFile has done so far. *)

KeptFile(p, file) == \E n \in still[p] : inode[n] = file

(* total is what has been read since soFar, unless that is more than an    *)
(* int holds.                                                              *)
CountOK(total, filled) ==
  /\ total \in -(MaxInt + 1)..MaxInt /\ total <= filled
  /\ filled <= MaxInt => total = filled

ReadWell(c, file) ==
  Least(c.max, Len(file)) <= MaxInt =>
    /\ c.result <=> ~c.failed
    /\ c.result => c.out = SubSeq(file, 1, Least(c.max, Len(file)))
    /\ IsPrefix(c.out, file)

ReadOK(p, label, c) ==
  /\ label = "open" => c.inode = 0
  /\ label \in {"open", "fstat"} =>
       c.size = 0 /\ c.soFar = 0 /\ c.total = 0 /\ c.out = <<>> /\ ~c.failed
  /\ label \in {"fstat", "read", "terminated"} => c.inode \in 1..Len(content)
  /\ label = "read" =>
       /\ ~c.failed
       /\ c.soFar <= Len(c.out) /\ Len(c.out) < c.size /\ c.size <= c.max
       /\ c.size = 1 => c.max = 1
       /\ CountOK(c.total, Len(c.out) - c.soFar)
       /\ KeptFile(p, c.inode) => IsPrefix(c.out, content[c.inode])
  /\ label = "terminated" /\ KeptFile(p, c.inode) => Len(content[c.inode]) > MaxInt
  /\ label = "returned" /\ c.op = "read" /\ c.inode # 0 =>
       /\ c.inode \in 1..Len(content)
       /\ KeptFile(p, c.inode) => ReadWell(c, content[c.inode])

WroteWell(c, file) ==
  /\ c.result => file = c.data
  /\ IsPrefix(file, c.data)
  /\ Len(c.data) <= MaxInt => (c.result <=> ~c.failed)

WriteOK(p, label, c) ==
  /\ label = "create" => c.stored = 0 /\ c.total = 0 /\ ~c.failed /\ c.inode = 0
  /\ label \in {"write", "close"} =>
       /\ c.inode \in 1..Len(content)
       /\ c.stored <= Len(c.data)
       /\ KeptFile(p, c.inode) => content[c.inode] = SubSeq(c.data, 1, c.stored)
       /\ ~c.failed => (c.stored <= MaxInt => c.total = c.stored)
  /\ label = "write" => ~c.failed /\ c.stored < Len(c.data)
  /\ label = "close" => IF c.failed THEN c.total = -1 ELSE c.stored = Len(c.data)
  /\ label = "returned" /\ c.op = "write" /\ c.inode # 0 =>
       /\ c.inode \in 1..Len(content)
       /\ KeptFile(p, c.inode) => WroteWell(c, content[c.inode])

CallOK(p, label, c) == PlaceOK(label, c) /\ ReadOK(p, label, c) /\ WriteOK(p, label, c)

(* The invariant, for any number of processes, calls, files and bytes.     *)
FilesInv == TypeInv /\ \A p \in Processes : CallOK(p, pc[p], call[p])

(* A step of p that leaves the files as they are. *)
Steps(p) ==
  \E label \in Labels : \E record :
    /\ Go(p, label, record) /\ CallOK(p, label, record)
    /\ record \in CreateCalls => call[p] \in CreateCalls
    /\ record \in ListCalls => call[p] \in ListCalls

LEMMA OpsDiffer ==
  ASSUME NEW c
  PROVE  /\ c \in ReadCalls \/ c \in WriteCalls \/ c \in ListCalls => c \notin CreateCalls
         /\ c \in ReadCalls \/ c \in WriteCalls \/ c \in CreateCalls => c \notin ListCalls
<1>1. /\ c \in CreateCalls => c.op = "mkdir"
      /\ c \in ReadCalls => c.op = "read"
      /\ c \in WriteCalls => c.op = "write"
      /\ c \in ListCalls => c.op = "list"
  BY DEF ReadCalls, WriteCalls, CreateCalls, ListCalls
<1> QED
  BY <1>1

LEMMA GoesOnSteps ==
  ASSUME NEW p, NEW label \in {"fstat", "read", "terminated", "write", "close"}, NEW record,
         Go(p, label, record), PlaceOK(label, record), ReadOK(p, label, record),
         WriteOK(p, label, record)
  PROVE  Steps(p)
<1>1. label \in Labels
  BY DEF Labels
<1>2. record \in ReadCalls \/ record \in WriteCalls
  BY DEF PlaceOK
<1>3. record \notin CreateCalls /\ record \notin ListCalls
  BY <1>2, OpsDiffer
<1> QED
  BY <1>1, <1>3, Zenon DEF Steps, CallOK

Elsewhere(label, c) ==
  \/ label \in {"exists", "mkdir", "recheck", "next", "readdir", "stat", "idle"}
  \/ label = "returned" /\ (c \in CreateCalls \/ c \in ListCalls)

LEMMA ElsewhereOK ==
  ASSUME NEW p, NEW label, NEW c, Elsewhere(label, c)
  PROVE  ReadOK(p, label, c) /\ WriteOK(p, label, c)
<1>1. c \in CreateCalls => c.op = "mkdir"
  BY DEF CreateCalls
<1>2. c \in ListCalls => c.op = "list"
  BY DEF ListCalls
<1> QED
  BY <1>1, <1>2 DEF ReadOK, WriteOK, Elsewhere

LEMMA ElsewhereSteps ==
  ASSUME NEW p, NEW label \in Labels, NEW record,
         Go(p, label, record), PlaceOK(label, record), Elsewhere(label, record),
         \/ record \in CreateCalls /\ call[p] \in CreateCalls
         \/ record \in ListCalls /\ call[p] \in ListCalls
  PROVE  Steps(p)
<1>1. /\ record \in CreateCalls => call[p] \in CreateCalls
      /\ record \in ListCalls => call[p] \in ListCalls
  BY OpsDiffer, Zenon
<1> QED
  BY <1>1, ElsewhereOK, Zenon DEF Steps, CallOK

-----------------------------------------------------------------------------
(* FileEnumerator's steps, of which nothing has to be known here. *)

SameCall(c, d) ==
  /\ d.recursive = c.recursive /\ d.type = c.type
  /\ d.start = c.start /\ d.pattern = c.pattern
SameList(c, d) ==
  /\ SameCall(c, d) /\ d.listed = c.listed /\ d.dir_entries = c.dir_entries
  /\ d.current = c.current

(* What the steps make of a call. *)
Emits(c, d) ==
  /\ c.current < Len(c.dir_entries)
  /\ SameCall(c, d) /\ d.root = c.root /\ d.pending = c.pending
  /\ d.dir_entries = c.dir_entries /\ d.current = c.current + 1
  /\ d.listed = Append(c.listed, Full(c, c.dir_entries[c.current + 1].name))
Ends(c, d) ==
  /\ c.current >= Len(c.dir_entries) /\ c.pending = <<>>
  /\ SameList(c, d) /\ d.root = c.root /\ d.pending = c.pending
Pops(c, d) ==
  /\ c.current >= Len(c.dir_entries) /\ c.pending # <<>>
  /\ SameList(c, d) /\ d.root = StripTrailingSeparators(Last(c.pending))
  /\ d.pending = Front(c.pending)
Opens(c, d) ==
  /\ Pops(c, d) /\ d.seen = {} /\ d.left = {Last(n) : n \in Children(Target(d.root))}
  /\ d.entries = <<[name |-> kCurrentDirectory, dir |-> TRUE],
                   [name |-> kParentDirectory, dir |-> TRUE]>>
Reads(c, d, name) ==
  /\ SameList(c, d) /\ d.root = c.root /\ d.pending = c.pending /\ d.left = c.left
  /\ d.seen = c.seen \cup {name}
  /\ d.entries = Append(c.entries, [name |-> name, dir |-> FALSE])
Stats(c, d, isDirectory) ==
  /\ SameList(c, d) /\ d.root = c.root /\ d.pending = c.pending
  /\ d.left = c.left /\ d.seen = c.seen
  /\ d.entries = [c.entries EXCEPT ![Len(c.entries)].dir = isDirectory]

LEMMA NamesOfChildren ==
  ASSUME NEW at
  PROVE  {Last(n) : n \in Children(at)} \in SUBSET Names
<1> SUFFICES ASSUME NEW n \in Nodes, n # Root PROVE Last(n) \in Names
  BY Zenon DEF Children
<1>1. n \in Seq(Names) /\ Root = <<>>
  BY NodesAssumption DEF Root
<1>2. Len(n) \in 1..Len(n)
  BY <1>1, EmptySeq, LenProperties
<1> QED
  BY <1>1, <1>2, ElementOfSeq DEF Last

LEMMA NextEntryGoes ==
  ASSUME TypeInv, NEW p \in Processes, NextEntry(p)
  PROVE  /\ call[p] \in ListCalls /\ pc[p] = "next" /\ UNCHANGED <<kernel, history>>
         /\ \E d \in ListCalls : Go(p, "next", d) /\ Emits(call[p], d)
<1> PICK c : c = call[p]
  BY Zenon
<1>1. c \in ListCalls /\ pc[p] = "next" /\ c.current < Len(c.dir_entries)
      /\ UNCHANGED <<kernel, history>>
  BY Zenon DEF NextEntry, TypeInv, PlaceOK
<1>2. c.current \in Nat /\ c.dir_entries \in Seq(Entry) /\ c.listed \in Seq(Paths)
  BY <1>1 DEF ListCalls
<1>3. c.current + 1 \in 1..Len(c.dir_entries) /\ c.current + 1 \in Nat
  BY <1>1, <1>2, LenProperties
<1>4. Full(c, c.dir_entries[c.current + 1].name) \in Paths
  <2>1. c.dir_entries[c.current + 1] \in Entry
    BY <1>2, <1>3, ElementOfSeq
  <2> QED
    BY <1>1, <2>1, FullIs DEF Entry
<1> PICK listed : listed = Append(c.listed, Full(c, c.dir_entries[c.current + 1].name))
  OBVIOUS
<1>5. listed \in Seq(Paths)
  BY <1>2, <1>4, AppendProperties
<1> PICK e : e = [c EXCEPT !.listed = listed]
  OBVIOUS
<1> PICK d : d = [e EXCEPT !.current = c.current + 1]
  OBVIOUS
<1>6. e \in ListCalls /\ d \in ListCalls
  <2>1. e \in ListCalls
    BY <1>1, <1>5, ListCallUpdates
  <2> QED
    BY <1>3, <2>1, ListCallUpdates
<1>7. d = [c EXCEPT !.listed = listed, !.current = @ + 1]
  BY <1>1, <1>3 DEF ListCalls
<1>8. Go(p, "next", d)
  BY <1>7, Zenon DEF NextEntry
<1>9. Emits(c, d)
  BY <1>1, <1>3 DEF Emits, SameCall, ListCalls
<1> QED
  BY <1>1, <1>6, <1>8, <1>9, Zenon

LEMMA NextDirectoryGoes ==
  ASSUME TypeInv, NEW p \in Processes, NextDirectory(p)
  PROVE  /\ call[p] \in ListCalls /\ pc[p] = "next" /\ UNCHANGED <<kernel, history>>
         /\ \E d \in ListCalls :
              \/ Go(p, "returned", d) /\ Ends(call[p], d)
              \/ Go(p, "next", d) /\ Pops(call[p], d) /\ ~DirectoryExists(d.root)
              \/ Go(p, "readdir", d) /\ Opens(call[p], d) /\ DirectoryExists(d.root)
<1> PICK c : c = call[p]
  BY Zenon
<1>1. c \in ListCalls /\ pc[p] = "next" /\ c.current >= Len(c.dir_entries)
      /\ UNCHANGED <<kernel, history>>
  BY Zenon DEF NextDirectory, TypeInv, PlaceOK
<1>2. CASE c.pending = <<>>
  <2> PICK d : d = [c EXCEPT !.result = TRUE]
    OBVIOUS
  <2>1. Go(p, "returned", d)
    BY <1>2, Zenon DEF NextDirectory, Return
  <2>2. d \in ListCalls
    BY <1>1, ListCallUpdates
  <2>3. Ends(c, d)
    BY <1>1, <1>2 DEF Ends, SameList, SameCall, ListCalls
  <2> QED
    BY <1>1, <2>1, <2>2, <2>3, Zenon
<1>3. CASE c.pending # <<>>
  <2> PICK root : root = StripTrailingSeparators(Last(c.pending))
    OBVIOUS
  <2> PICK e : e = [c EXCEPT !.root = root]
    OBVIOUS
  <2> PICK popped : popped = [e EXCEPT !.pending = Front(c.pending)]
    OBVIOUS
  <2>1. popped \in ListCalls
    <3>1. c.pending \in Seq(Paths)
      BY <1>1 DEF ListCalls
    <3>2. Len(c.pending) \in 1..Len(c.pending)
      BY <1>3, <3>1, EmptySeq, LenProperties
    <3>3. Last(c.pending) \in Paths
      BY <3>1, <3>2, ElementOfSeq DEF Last
    <3>4. root \in Paths
      BY <3>3, StripType
    <3>5. Front(c.pending) \in Seq(Paths)
      BY <3>1, <3>2 DEF Front
    <3>6. e \in ListCalls
      BY <1>1, <3>4, ListCallUpdates
    <3> QED
      BY <3>5, <3>6, ListCallUpdates
  <2>2. popped = [c EXCEPT !.root = root, !.pending = Front(@)]
    BY <1>1 DEF ListCalls
  <2>3. Pops(c, popped)
    BY <1>1, <1>3 DEF Pops, SameList, SameCall, ListCalls
  <2>4. popped.root = root
    BY <2>3, Zenon DEF Pops
  <2>5. CASE ~DirectoryExists(root)
    <3>1. Go(p, "next", popped)
      BY <1>3, <2>2, <2>5, Zenon DEF NextDirectory
    <3> QED
      BY <1>1, <2>1, <2>3, <2>4, <2>5, <3>1, Zenon
  <2>6. CASE DirectoryExists(root)
    <3> PICK entries : entries = <<[name |-> kCurrentDirectory, dir |-> TRUE],
                                   [name |-> kParentDirectory, dir |-> TRUE]>>
      OBVIOUS
    <3> PICK left : left = {Last(n) : n \in Children(Target(root))}
      OBVIOUS
    <3> PICK f : f = [popped EXCEPT !.entries = entries]
      OBVIOUS
    <3> PICK g : g = [f EXCEPT !.left = left]
      OBVIOUS
    <3> PICK d : d = [g EXCEPT !.seen = {}]
      OBVIOUS
    <3>1. Go(p, "readdir", [popped EXCEPT !.entries = entries, !.left = left, !.seen = {}])
      BY <1>3, <2>2, <2>6, Zenon DEF NextDirectory
    <3>2. entries \in Seq(Entry) /\ left \in SUBSET Names
      <4>1. [name |-> kCurrentDirectory, dir |-> TRUE] \in Entry
            /\ [name |-> kParentDirectory, dir |-> TRUE] \in Entry
        BY NamesAreEntries DEF Entry
      <4> QED
        BY <4>1, NamesOfChildren
    <3>3. f \in ListCalls
      BY <2>1, <3>2, ListCallUpdates
    <3>4. g \in ListCalls
      BY <3>2, <3>3, ListCallUpdates
    <3>5. d \in ListCalls
      <4>1. {} \in SUBSET Names
        OBVIOUS
      <4> QED
        BY <3>4, <4>1, ListCallUpdates
    <3>6. d = [popped EXCEPT !.entries = entries, !.left = left, !.seen = {}]
      BY <2>1 DEF ListCalls
    <3>7. /\ SameList(popped, d) /\ d.root = popped.root /\ d.pending = popped.pending
          /\ d.entries = entries /\ d.left = left /\ d.seen = {}
      BY <2>1, <3>6, ZenonT(60) DEF SameList, SameCall, ListCalls
    <3>8. Opens(c, d)
      BY <2>3, <2>4, <3>7, Zenon DEF Opens, Pops, SameList, SameCall
    <3> QED
      BY <1>1, <2>4, <2>6, <3>1, <3>5, <3>6, <3>7, <3>8, Zenon
  <2> QED
    BY <2>5, <2>6
<1> QED
  BY <1>2, <1>3

LEMMA ReadEntryGoes ==
  ASSUME TypeInv, NEW p \in Processes, ReadEntry(p)
  PROVE  /\ call[p] \in ListCalls /\ pc[p] = "readdir" /\ UNCHANGED <<kernel, history>>
         /\ \E d \in ListCalls : \E name \in (call[p].left \cup Present(call[p])) \ call[p].seen :
              Go(p, "stat", d) /\ Reads(call[p], d, name) /\ d.entries # <<>>
<1> PICK c : c = call[p]
  BY Zenon
<1>1. c \in ListCalls /\ pc[p] = "readdir" /\ UNCHANGED <<kernel, history>>
  BY Zenon DEF ReadEntry, TypeInv, PlaceOK
<1>2. PICK name \in (c.left \cup Present(c)) \ c.seen :
        Go(p, "stat", [c EXCEPT !.seen = @ \cup {name},
                                !.entries = Append(@, [name |-> name, dir |-> FALSE])])
  BY Zenon DEF ReadEntry
<1>3. c.left \in SUBSET Names /\ c.seen \in SUBSET Names /\ c.entries \in Seq(Entry)
  BY <1>1 DEF ListCalls
<1>4. name \in Names
  BY <1>3, NamesOfChildren DEF Present
<1> PICK read : read = [name |-> name, dir |-> FALSE]
  OBVIOUS
<1>5. read \in Entry
  BY <1>4, NamesAreEntries DEF Entry
<1>6. Append(c.entries, read) \in Seq(Entry) /\ Append(c.entries, read) # <<>>
      /\ c.seen \cup {name} \in SUBSET Names
  BY <1>3, <1>4, <1>5, AppendProperties
<1> PICK entries : entries = Append(c.entries, read)
  OBVIOUS
<1> PICK seen : seen = c.seen \cup {name}
  OBVIOUS
<1> PICK e : e = [c EXCEPT !.seen = seen]
  OBVIOUS
<1> PICK d : d = [e EXCEPT !.entries = entries]
  OBVIOUS
<1>7. d \in ListCalls
  <2>1. e \in ListCalls
    BY <1>1, <1>6, ListCallUpdates
  <2> QED
    BY <1>6, <2>1, ListCallUpdates
<1>8. d = [c EXCEPT !.seen = @ \cup {name}, !.entries = Append(@, read)]
  BY <1>1 DEF ListCalls
<1>9. d.entries = entries /\ d.seen = seen /\ SameList(c, d) /\ d.root = c.root
      /\ d.pending = c.pending /\ d.left = c.left
  BY <1>1 DEF SameList, SameCall, ListCalls
<1>10. Reads(c, d, name)
  BY <1>9, Zenon DEF Reads
<1> QED
  BY <1>1, <1>2, <1>6, <1>7, <1>8, <1>9, <1>10, ZenonT(60)

LEMMA StatEntryGoes ==
  ASSUME TypeInv, NEW p \in Processes, StatEntry(p)
  PROVE  /\ call[p] \in ListCalls /\ pc[p] = "stat" /\ UNCHANGED <<kernel, history>>
         /\ \E d \in ListCalls :
              /\ Go(p, "readdir", d)
              /\ Stats(call[p], d,
                       KindAt(Shown(call[p], Full(call[p], Last(call[p].entries).name))) = "dir")
<1> PICK c : c = call[p]
  BY Zenon
<1>1. c \in ListCalls /\ pc[p] = "stat" /\ UNCHANGED <<kernel, history>> /\ c.entries # <<>>
  BY Zenon DEF StatEntry, TypeInv, PlaceOK
<1> PICK isDir : isDir = (KindAt(Shown(c, Full(c, Last(c.entries).name))) = "dir")
  OBVIOUS
<1>2. Go(p, "readdir", [c EXCEPT !.entries[Len(c.entries)].dir = isDir])
  BY Zenon DEF StatEntry
<1> PICK entries : entries = [c.entries EXCEPT ![Len(c.entries)].dir = isDir]
  OBVIOUS
<1>3. entries \in Seq(Entry)
  <2>1. c.entries \in Seq(Entry)
    BY <1>1 DEF ListCalls
  <2>2. Len(c.entries) \in 1..Len(c.entries)
    BY <1>1, <2>1, EmptySeq, LenProperties
  <2>3. c.entries[Len(c.entries)] \in Entry
    BY <2>1, <2>2, ElementOfSeq
  <2> PICK new : new = [c.entries[Len(c.entries)] EXCEPT !.dir = isDir]
    OBVIOUS
  <2>4. isDir \in BOOLEAN
    BY Zenon
  <2>5. new \in Entry
    BY <2>3, <2>4, Zenon DEF Entry
  <2>6. entries = [c.entries EXCEPT ![Len(c.entries)] = new]
    BY Zenon
  <2> QED
    BY <2>1, <2>2, <2>5, <2>6, ExceptSeq
<1> PICK d : d = [c EXCEPT !.entries = entries]
  OBVIOUS
<1>4. d \in ListCalls
  BY <1>1, <1>3, ListCallUpdates
<1>5. d = [c EXCEPT !.entries[Len(c.entries)].dir = isDir]
  BY <1>1, Zenon DEF ListCalls
<1>6. /\ SameList(c, d) /\ d.root = c.root /\ d.pending = c.pending
      /\ d.left = c.left /\ d.seen = c.seen /\ d.entries = entries
  BY <1>1 DEF SameList, SameCall, ListCalls
<1>7. Stats(c, d, isDir)
  BY <1>6, Zenon DEF Stats
<1> QED
  BY <1>1, <1>2, <1>4, <1>5, <1>7, Zenon

LEMMA EndDirectoryGoes ==
  ASSUME TypeInv, NEW p \in Processes, EndDirectory(p)
  PROVE  /\ call[p] \in ListCalls /\ pc[p] = "readdir" /\ UNCHANGED <<kernel, history>>
         /\ call[p].left \cap Present(call[p]) \subseteq call[p].seen
         /\ \E d \in ListCalls :
              Go(p, "next", d) /\ TakenTo(call[p], d, Len(call[p].entries))
<1> PICK c : c = call[p]
  BY Zenon
<1>1. c \in ListCalls /\ pc[p] = "readdir" /\ UNCHANGED <<kernel, history>>
      /\ c.left \cap Present(c) \subseteq c.seen
  BY Zenon DEF EndDirectory, TypeInv, PlaceOK
<1> PICK taken : taken = FoldLeft(TakeEntry, Cleared(c), c.entries)
  OBVIOUS
<1>2. Go(p, "next", [taken EXCEPT !.entries = <<>>, !.left = {}, !.seen = {}])
  BY Zenon DEF EndDirectory
<1>3. TakenTo(c, taken, Len(c.entries))
  BY <1>1, AllTaken
<1> PICK f : f = [taken EXCEPT !.entries = <<>>]
  OBVIOUS
<1> PICK g : g = [f EXCEPT !.left = {}]
  OBVIOUS
<1> PICK d : d = [g EXCEPT !.seen = {}]
  OBVIOUS
<1>4. taken \in ListCalls
  BY <1>3 DEF TakenTo
<1>5. <<>> \in Seq(Entry) /\ {} \in SUBSET Names
  OBVIOUS
<1>6. f \in ListCalls
  BY <1>4, <1>5, ListCallUpdates
<1>7. g \in ListCalls
  BY <1>5, <1>6, ListCallUpdates
<1>8. d \in ListCalls
  BY <1>5, <1>7, ListCallUpdates
<1>9. d = [taken EXCEPT !.entries = <<>>, !.left = {}, !.seen = {}]
  BY <1>4, Zenon DEF ListCalls
<1>10. /\ SameScan(taken, d) /\ d.current = taken.current
       /\ d.dir_entries = taken.dir_entries /\ d.pending = taken.pending
  BY <1>4, <1>9 DEF SameScan, ListCalls
<1>11. TakenTo(c, d, Len(c.entries))
  BY <1>3, <1>8, <1>10, Zenon DEF TakenTo, SameScan
<1> QED
  BY <1>1, <1>2, <1>8, <1>9, <1>11, Zenon

LEMMA ListSteps ==
  ASSUME TypeInv, NEW p \in Processes,
         \/ NextEntry(p) \/ NextDirectory(p) \/ ReadEntry(p)
         \/ StatEntry(p) \/ EndDirectory(p)
  PROVE  Steps(p) /\ UNCHANGED <<kernel, history>>
<1>1. ASSUME NEW label \in {"next", "readdir", "stat", "returned"}, NEW record \in ListCalls,
             Go(p, label, record), call[p] \in ListCalls, label = "stat" => record.entries # <<>>
      PROVE  Steps(p)
  <2>1. label \in Labels /\ PlaceOK(label, record) /\ Elsewhere(label, record)
    BY <1>1 DEF Labels, PlaceOK, Elsewhere
  <2> QED
    BY <1>1, <2>1, ElsewhereSteps
<1>2. CASE NextEntry(p)
  BY <1>1, <1>2, NextEntryGoes
<1>3. CASE NextDirectory(p)
  BY <1>1, <1>3, NextDirectoryGoes
<1>4. CASE ReadEntry(p)
  BY <1>1, <1>4, ReadEntryGoes
<1>5. CASE StatEntry(p)
  BY <1>1, <1>5, StatEntryGoes
<1>6. CASE EndDirectory(p)
  BY <1>1, <1>6, EndDirectoryGoes
<1> QED
  BY <1>2, <1>3, <1>4, <1>5, <1>6

-----------------------------------------------------------------------------
(* CreateDirectory's steps. *)

LEMMA NextPathSteps ==
  ASSUME TypeInv, NEW p \in Processes, call[p] \in CreateCalls, call[p].todo # <<>>, NextPath(p)
  PROVE  Steps(p)
<1> DEFINE c == call[p]
           rest == [c EXCEPT !.todo = Tail(@)]
           end == [rest EXCEPT !.result = TRUE]
<1>1. c.todo \in Seq(Paths)
  BY DEF CreateCalls
<1>2. Tail(c.todo) \in Seq(Paths)
  BY <1>1, HeadTailProperties
<1>3. rest \in CreateCalls
  BY <1>2, CreateCallUpdates
<1>4. \/ rest.todo = <<>> /\ Go(p, "returned", end)
      \/ rest.todo # <<>> /\ Go(p, "exists", rest)
  BY Zenon DEF NextPath, Return
<1>5. end \in CreateCalls
  <2> HIDE DEF rest
  <2> QED
    BY <1>3, CreateCallUpdates
<1> HIDE DEF rest, end
<1>6. CASE rest.todo = <<>> /\ Go(p, "returned", end)
  <2>1. "returned" \in Labels /\ PlaceOK("returned", end) /\ Elsewhere("returned", end)
    BY <1>5 DEF Labels, PlaceOK, Elsewhere
  <2> QED
    BY <1>5, <1>6, <2>1, ElsewhereSteps
<1>7. CASE rest.todo # <<>> /\ Go(p, "exists", rest)
  <2>1. "exists" \in Labels /\ PlaceOK("exists", rest) /\ Elsewhere("exists", rest)
    BY <1>3, <1>7 DEF Labels, PlaceOK, Elsewhere
  <2> QED
    BY <1>3, <1>7, <2>1, ElsewhereSteps
<1> QED
  BY <1>4, <1>6, <1>7

LEMMA CreateSteps ==
  ASSUME TypeInv, NEW p \in Processes,
         CheckExists(p) \/ CheckAgain(p) \/ MakeDirectory(p)
  PROVE  Steps(p)
<1> DEFINE c == call[p]
<1>1. pc[p] \in {"exists", "mkdir", "recheck"} => c \in CreateCalls /\ c.todo # <<>>
  BY Zenon DEF TypeInv, PlaceOK
<1>2. ASSUME NEW label \in {"mkdir", "recheck"}, Go(p, label, c), c \in CreateCalls, c.todo # <<>>
      PROVE  Steps(p)
  <2>1. label \in Labels /\ PlaceOK(label, c) /\ Elsewhere(label, c)
    BY <1>2 DEF Labels, PlaceOK, Elsewhere
  <2> QED
    BY <1>2, <2>1, ElsewhereSteps
<1>3. CASE CheckExists(p)
  <2>1. c \in CreateCalls /\ c.todo # <<>>
    BY <1>1, <1>3 DEF CheckExists
  <2>2. NextPath(p) \/ Go(p, "mkdir", c)
    BY <1>3, Zenon DEF CheckExists
  <2> QED
    BY <1>2, <2>1, <2>2, NextPathSteps, Zenon
<1>4. CASE MakeDirectory(p)
  <2>1. c \in CreateCalls /\ c.todo # <<>>
    BY <1>1, <1>4 DEF MakeDirectory
  <2>2. NextPath(p) \/ Go(p, "recheck", c)
    BY <1>4, Zenon DEF MakeDirectory
  <2> QED
    BY <1>2, <2>1, <2>2, NextPathSteps, Zenon
<1>5. CASE CheckAgain(p)
  <2>1. c \in CreateCalls /\ c.todo # <<>>
    BY <1>1, <1>5 DEF CheckAgain
  <2>2. NextPath(p) \/ Go(p, "returned", [c EXCEPT !.result = FALSE])
    BY <1>5, Zenon DEF CheckAgain, Return
  <2> DEFINE end == [c EXCEPT !.result = FALSE]
  <2>3. end \in CreateCalls
    BY <2>1, CreateCallUpdates
  <2> HIDE DEF end
  <2>4. "returned" \in Labels /\ PlaceOK("returned", end) /\ Elsewhere("returned", end)
    BY <2>3 DEF Labels, PlaceOK, Elsewhere
  <2>5. CASE Go(p, "returned", end)
    BY <2>1, <2>3, <2>4, <2>5, ElsewhereSteps
  <2> QED
    BY <2>1, <2>2, <2>5, NextPathSteps, Zenon DEF end
<1> QED
  BY <1>3, <1>4, <1>5

-----------------------------------------------------------------------------
(* Numbers and sequences that ReadFile and WriteFile are about. *)

LEMMA ModFacts ==
  ASSUME NEW y \in Int, NEW b \in Nat, b > 0
  PROVE  /\ y % b \in 0..(b - 1)
         /\ y \in 0..(b - 1) => y % b = y
         /\ y >= 0 => y % b <= y
  OBVIOUS

LEMMA Int32Is ==
  ASSUME NEW n \in Int
  PROVE  /\ Int32(n) \in -(MaxInt + 1)..MaxInt
         /\ n \in -(MaxInt + 1)..MaxInt => Int32(n) = n
         /\ n >= -(MaxInt + 1) => Int32(n) <= n
<1> DEFINE y == n + MaxInt + 1
           b == 2 * (MaxInt + 1)
           m == y % b
<1>1. MaxInt \in Nat /\ MaxInt > 0
  BY SizesAssumption
<1>2. y \in Int /\ b \in Nat /\ b > 0
  BY <1>1
<1>3. Int32(n) = m - (MaxInt + 1)
  BY DEF Int32
<1> HIDE DEF m
<1>4. /\ m \in 0..(b - 1)
      /\ y \in 0..(b - 1) => m = y
      /\ y >= 0 => m <= y
  <2> HIDE DEF y, b
  <2> QED
    BY <1>2, ModFacts DEF m
<1> QED
  BY <1>1, <1>3, <1>4

LEMMA CountGoesOn ==
  ASSUME NEW total \in Int, NEW filled \in Nat, CountOK(total, filled), NEW r \in Nat
  PROVE  CountOK(Int32(total + r), filled + r)
<1> DEFINE next == Int32(total + r)
<1>1. MaxInt \in Nat
  BY SizesAssumption
<1>2. total \in -(MaxInt + 1)..MaxInt /\ total <= filled /\ (filled <= MaxInt => total = filled)
  BY DEF CountOK
<1>3. total + r \in Int /\ total + r >= -(MaxInt + 1)
  BY <1>1, <1>2
<1>4. /\ next \in -(MaxInt + 1)..MaxInt
      /\ total + r \in -(MaxInt + 1)..MaxInt => next = total + r
      /\ next <= total + r
  BY <1>3, Int32Is
<1> HIDE DEF next
<1>5. CountOK(next, filled + r)
  BY <1>1, <1>2, <1>4 DEF CountOK
<1> QED
  BY <1>5 DEF next

(* A beginning of a file, in terms of its bytes. *)
Begins(s, t) == Len(s) <= Len(t) /\ \A i \in 1..Len(s) : s[i] = t[i]

LEMMA PrefixIs ==
  ASSUME NEW s \in Seq(Int), NEW t \in Seq(Int)
  PROVE  /\ IsPrefix(s, t) <=> Begins(s, t)
         /\ IsPrefix(s, t) => s = SubSeq(t, 1, Len(s))
<1>1. Len(s) \in Nat /\ Len(t) \in Nat /\ SubSeq(s, 1, Len(s)) = s
  BY LenProperties, SubSeqFull
<1>2. ASSUME Len(s) <= Len(t)
      PROVE  s = SubSeq(t, 1, Len(s)) <=> \A i \in 1..Len(s) : s[i] = t[i]
  <2> DEFINE u == SubSeq(t, 1, Len(s))
  <2>1. \A i \in 1..Len(s) : t[i] \in Int
    BY <1>1, <1>2, ElementOfSeq
  <2>2. u \in Seq(Int) /\ Len(u) = Len(s) /\ \A i \in 1..Len(s) : u[i] = t[i]
    BY <1>1, <2>1, SubSeqProperties
  <2> HIDE DEF u
  <2>3. ASSUME \A i \in 1..Len(s) : s[i] = t[i] PROVE s = u
    <3>1. \A i \in 1..Len(s) : s[i] = u[i]
      BY <2>2, <2>3
    <3> QED
      BY <2>2, <3>1, SeqEqual
  <2> QED
    BY <2>2, <2>3 DEF u
<1> QED
  BY <1>1, <1>2, Zenon DEF IsPrefix, Begins

LEMMA BeginningIs ==
  ASSUME NEW s \in Seq(Int), NEW n \in 0..Len(s)
  PROVE  /\ SubSeq(s, 1, n) \in Seq(Int) /\ Len(SubSeq(s, 1, n)) = n
         /\ \A i \in 1..n : SubSeq(s, 1, n)[i] = s[i]
<1>1. \A i \in 1..n : s[i] \in Int
  BY LenProperties, ElementOfSeq
<1> QED
  BY <1>1, LenProperties, SubSeqProperties

LEMMA ShorterPrefix ==
  ASSUME NEW s \in Seq(Int), NEW t \in Seq(Int), IsPrefix(s, t), NEW n \in 0..Len(s)
  PROVE  /\ IsPrefix(SubSeq(s, 1, n), t)
         /\ SubSeq(s, 1, n) = SubSeq(t, 1, n)
<1> DEFINE u == SubSeq(s, 1, n)
<1>1. Len(s) \in Nat /\ Len(t) \in Nat
  BY LenProperties
<1>2. u \in Seq(Int) /\ Len(u) = n /\ \A i \in 1..n : u[i] = s[i]
  BY BeginningIs
<1> HIDE DEF u
<1>3. Begins(s, t)
  BY PrefixIs
<1>4. Begins(u, t)
  <2>1. Len(s) <= Len(t) /\ \A i \in 1..Len(s) : s[i] = t[i]
    BY <1>3 DEF Begins
  <2>2. Len(u) <= Len(t)
    BY <1>1, <1>2, <2>1
  <2>3. ASSUME NEW i \in 1..Len(u) PROVE u[i] = t[i]
    <3>1. i \in 1..n /\ i \in 1..Len(s)
      BY <1>1, <1>2
    <3> QED
      BY <1>2, <2>1, <3>1
  <2> QED
    BY <2>2, <2>3 DEF Begins
<1>5. IsPrefix(u, t) /\ u = SubSeq(t, 1, n)
  BY <1>2, <1>4, PrefixIs
<1> QED
  BY <1>5 DEF u

(* The next bytes of a file after a beginning of it make a longer one. *)
LEMMA ReadOn ==
  ASSUME NEW out \in Seq(Int), NEW file \in Seq(Int),
         NEW r \in 0..Len(SubSeq(file, Len(out) + 1, Len(file)))
  PROVE  LET left == SubSeq(file, Len(out) + 1, Len(file))
             more == out \o SubSeq(left, 1, r)
         IN /\ more \in Seq(Int) /\ Len(more) = Len(out) + r
            /\ IsPrefix(out, file) => IsPrefix(more, file)
            /\ IsPrefix(out, file) /\ left = <<>> => out = file
<1> DEFINE left == SubSeq(file, Len(out) + 1, Len(file))
           next == SubSeq(left, 1, r)
           more == out \o next
<1>1. Len(out) \in Nat /\ Len(file) \in Nat
  BY LenProperties
<1>2. \A i \in (Len(out) + 1)..Len(file) : file[i] \in Int
  BY <1>1, ElementOfSeq
<1>3. /\ left \in Seq(Int)
      /\ Len(left) = IF Len(out) + 1 <= Len(file) THEN Len(file) - (Len(out) + 1) + 1 ELSE 0
      /\ \A i \in 1..(Len(file) - (Len(out) + 1) + 1) : left[i] = file[(Len(out) + 1) + i - 1]
  BY <1>1, <1>2, SubSeqProperties
<1>4. r \in 0..Len(left)
  OBVIOUS
<1> HIDE DEF left
<1>5. next \in Seq(Int) /\ Len(next) = r /\ \A i \in 1..r : next[i] = left[i]
  BY <1>3, <1>4, BeginningIs
<1> HIDE DEF next
<1>6. /\ more \in Seq(Int) /\ Len(more) = Len(out) + r
      /\ \A i \in 1..(Len(out) + r) : more[i] = IF i <= Len(out) THEN out[i] ELSE next[i - Len(out)]
  BY <1>1, <1>5, ConcatProperties
<1> HIDE DEF more
<1>7. ASSUME IsPrefix(out, file)
      PROVE  IsPrefix(more, file)
  <2>1. Begins(out, file)
    BY <1>7, PrefixIs
  <2>2. Len(more) <= Len(file) /\ r \in Nat
    BY <1>1, <1>3, <1>4, <1>6, <2>1 DEF Begins
  <2>3. ASSUME NEW i \in 1..Len(more) PROVE more[i] = file[i]
    <3>0. Len(more) = Len(out) + r
      BY <1>6
    <3>1. CASE i <= Len(out)
      <4>1. i \in 1..Len(out) /\ i \in 1..(Len(out) + r)
        BY <1>1, <2>2, <3>0, <3>1
      <4>2. more[i] = out[i]
        BY <1>6, <3>1, <4>1
      <4>3. out[i] = file[i]
        BY <2>1, <4>1 DEF Begins
      <4> QED
        BY <4>2, <4>3
    <3>2. CASE i > Len(out)
      <4> DEFINE k == i - Len(out)
      <4>1. k \in 1..r /\ k \in 1..(Len(file) - (Len(out) + 1) + 1) /\ i \in 1..(Len(out) + r)
            /\ (Len(out) + 1) + k - 1 = i /\ ~(i <= Len(out))
        BY <1>1, <2>2, <3>0, <3>2
      <4>2. more[i] = next[k]
        BY <1>6, <4>1
      <4> HIDE DEF k
      <4>3. next[k] = left[k] /\ left[k] = file[(Len(out) + 1) + k - 1]
        BY <1>3, <1>5, <4>1
      <4> QED
        BY <4>1, <4>2, <4>3
    <3> QED
      BY <1>1, <2>2, <2>3, <3>1, <3>2
  <2>4. Begins(more, file)
    BY <2>2, <2>3 DEF Begins
  <2> QED
    BY <1>6, <2>4, PrefixIs
<1>8. ASSUME IsPrefix(out, file), left = <<>>
      PROVE  out = file
  <2>1. Begins(out, file) /\ Len(left) = 0
    BY <1>8, PrefixIs
  <2>2. Len(out) = Len(file)
    BY <1>1, <1>3, <2>1 DEF Begins
  <2> QED
    BY <2>1, <2>2, SeqEqual DEF Begins
<1> QED
  BY <1>6, <1>7, <1>8 DEF more, next, left

(* What has been written at the end of a beginning makes a longer one. *)
LEMMA WriteOn ==
  ASSUME NEW data \in Seq(Int), NEW n \in 0..Len(data), NEW r \in 1..(Len(data) - n)
  PROVE  Written(SubSeq(data, 1, n), n, SubSeq(data, n + 1, n + r)) = SubSeq(data, 1, n + r)
<1> DEFINE old == SubSeq(data, 1, n)
           bytes == SubSeq(data, n + 1, n + r)
           new == SubSeq(data, 1, n + r)
<1>1. Len(data) \in Nat /\ n \in Nat /\ r \in Nat /\ n + r \in 0..Len(data)
  BY LenProperties
<1>2. \A i \in (n + 1)..(n + r) : data[i] \in Int
  BY <1>1, ElementOfSeq
<1>3. old \in Seq(Int) /\ Len(old) = n /\ \A i \in 1..n : old[i] = data[i]
  BY BeginningIs
<1>4. new \in Seq(Int) /\ Len(new) = n + r /\ \A i \in 1..(n + r) : new[i] = data[i]
  BY <1>1, BeginningIs
<1>5. /\ Len(bytes) = IF n + 1 <= n + r THEN (n + r) - (n + 1) + 1 ELSE 0
      /\ \A i \in 1..((n + r) - (n + 1) + 1) : bytes[i] = data[(n + 1) + i - 1]
  BY <1>1, <1>2, SubSeqProperties
<1> HIDE DEF old, new, bytes
<1>6. Len(bytes) = r
  BY <1>1, <1>5
<1> DEFINE made == Written(old, n, bytes)
<1>7. made = [i \in 1..(n + r) |-> IF i \in (n + 1)..(n + r) THEN bytes[i - n]
                                   ELSE IF i <= Len(old) THEN old[i] ELSE 0]
  <2>1. (IF Len(old) > n + Len(bytes) THEN Len(old) ELSE n + Len(bytes)) = n + r
    BY <1>1, <1>3, <1>6
  <2> QED
    BY <1>6, <2>1 DEF Written
<1>8. ASSUME NEW i \in 1..(n + r) PROVE made[i] = new[i]
  <2>1. CASE i > n
    <3> DEFINE k == i - n
    <3>1. k \in 1..((n + r) - (n + 1) + 1) /\ (n + 1) + k - 1 = i /\ i \in (n + 1)..(n + r)
      BY <1>1, <2>1
    <3>2. made[i] = bytes[k]
      BY <1>7, <3>1
    <3> HIDE DEF k
    <3> QED
      BY <1>4, <1>5, <3>1, <3>2
  <2>2. CASE ~(i > n)
    <3>1. i \in 1..n /\ i <= Len(old) /\ i \notin (n + 1)..(n + r)
      BY <1>1, <1>3, <2>2, SMTT(60)
    <3>2. made[i] = old[i]
      BY <1>7, <3>1
    <3> QED
      BY <1>3, <1>4, <3>1, <3>2
  <2> QED
    BY <2>1, <2>2
<1>9. made \in Seq(Int) /\ Len(made) = n + r
  <2>1. \A i \in 1..(n + r) : new[i] \in Int
    BY <1>1, <1>4, ElementOfSeq
  <2>2. made = [i \in 1..(n + r) |-> new[i]]
    BY <1>7, <1>8
  <2>3. n + r \in Nat
    BY <1>1
  <2> QED
    BY <2>1, <2>2, <2>3
<1> HIDE DEF made
<1>10. made = new
  BY <1>4, <1>8, <1>9, SeqEqual
<1> QED
  BY <1>10 DEF made, old, bytes, new

LEMMA WrittenType ==
  ASSUME NEW old \in Seq(Int), NEW offset \in Nat, NEW bytes \in Seq(Int)
  PROVE  Written(old, offset, bytes) \in Seq(Int)
<1> DEFINE n == IF Len(old) > offset + Len(bytes) THEN Len(old) ELSE offset + Len(bytes)
           e(i) == IF i \in (offset + 1)..(offset + Len(bytes)) THEN bytes[i - offset]
                   ELSE IF i <= Len(old) THEN old[i] ELSE 0
<1>1. Len(old) \in Nat /\ Len(bytes) \in Nat /\ n \in Nat
  BY LenProperties
<1>2. ASSUME NEW i \in 1..n PROVE e(i) \in Int
  <2>1. CASE i \in (offset + 1)..(offset + Len(bytes))
    <3>1. i - offset \in 1..Len(bytes)
      BY <1>1, <2>1
    <3> QED
      BY <2>1, <3>1, ElementOfSeq
  <2>2. CASE i \notin (offset + 1)..(offset + Len(bytes))
    <3>1. i <= Len(old) => i \in 1..Len(old)
      BY <1>1
    <3> QED
      BY <2>2, <3>1, ElementOfSeq
  <2> QED
    BY <2>1, <2>2
<1>3. Written(old, offset, bytes) = [i \in 1..n |-> e(i)]
  BY DEF Written
<1> HIDE DEF n, e
<1>4. [i \in 1..n |-> e(i)] \in Seq(Int)
  BY <1>1, <1>2
<1> QED
  BY <1>3, <1>4


-----------------------------------------------------------------------------
(* ReadFile's steps. *)

LEMMA ReadCallIs ==
  ASSUME NEW c \in ReadCalls
  PROVE  /\ c.op = "read" /\ c.max \in Nat /\ c.inode \in Nat /\ c.size \in Nat
         /\ c.soFar \in Nat /\ c.total \in Int /\ c.out \in Seq(Int)
         /\ c.failed \in BOOLEAN /\ c.result \in BOOLEAN
  BY DEF ReadCalls

SameRead(c, d) ==
  d \in ReadCalls /\ d.inode = c.inode /\ d.max = c.max

LEMMA ReadResult ==
  ASSUME NEW c \in ReadCalls, NEW r \in BOOLEAN
  PROVE  LET d == [c EXCEPT !.result = r]
         IN SameRead(c, d) /\ d.result = r /\ d.out = c.out /\ d.failed = c.failed
  BY Zenon DEF ReadCalls, SameRead

LEMMA ReadOut ==
  ASSUME NEW c \in ReadCalls, NEW out \in Seq(Int)
  PROVE  LET d == [c EXCEPT !.out = out]
         IN SameRead(c, d) /\ d.out = out /\ d.failed = c.failed
  BY Zenon DEF ReadCalls, SameRead

LEMMA ReadOutFailed ==
  ASSUME NEW c \in ReadCalls, NEW out \in Seq(Int)
  PROVE  LET d == [c EXCEPT !.out = out, !.failed = TRUE]
         IN SameRead(c, d) /\ d.out = out /\ d.failed = TRUE
  BY Zenon DEF ReadCalls, SameRead

LEMMA ReadFailed ==
  ASSUME NEW c \in ReadCalls
  PROVE  LET d == [c EXCEPT !.failed = TRUE]
         IN SameRead(c, d) /\ d.failed = TRUE
  BY Zenon DEF ReadCalls, SameRead

LEMMA ReadOpened ==
  ASSUME NEW c \in ReadCalls, NEW n \in Nat
  PROVE  LET d == [c EXCEPT !.inode = n]
         IN /\ d \in ReadCalls /\ d.inode = n
            /\ d.size = c.size /\ d.soFar = c.soFar /\ d.total = c.total /\ d.out = c.out
            /\ d.failed = c.failed
  BY Zenon DEF ReadCalls

LEMMA ReadSized ==
  ASSUME NEW c \in ReadCalls, NEW n \in Nat
  PROVE  LET d == [c EXCEPT !.size = n]
         IN /\ SameRead(c, d) /\ d.size = n
            /\ d.soFar = c.soFar /\ d.total = c.total /\ d.out = c.out /\ d.failed = c.failed
  BY Zenon DEF ReadCalls, SameRead

LEMMA ReadMore ==
  ASSUME NEW c \in ReadCalls, NEW out \in Seq(Int), NEW n \in Int
  PROVE  LET d == [c EXCEPT !.out = out, !.total = n]
         IN /\ SameRead(c, d) /\ d.out = out /\ d.total = n
            /\ d.size = c.size /\ d.soFar = c.soFar /\ d.failed = c.failed
  BY Zenon DEF ReadCalls, SameRead

LEMMA ReadNext ==
  ASSUME NEW c \in ReadCalls, NEW n \in Nat
  PROVE  LET d == [c EXCEPT !.soFar = n, !.total = 0]
         IN /\ SameRead(c, d) /\ d.soFar = n /\ d.total = 0
            /\ d.size = c.size /\ d.out = c.out /\ d.failed = c.failed
<1>1. 0 \in Int
  OBVIOUS
<1> QED
  BY <1>1, Zenon DEF ReadCalls, SameRead

LEMMA ReadReturns ==
  ASSUME NEW p, NEW c \in ReadCalls, Go(p, "returned", c),
         c.inode # 0 => c.inode \in 1..Len(content),
         c.inode # 0 /\ KeptFile(p, c.inode) => ReadWell(c, content[c.inode])
  PROVE  Steps(p)
<1>1. c.op = "read"
  BY DEF ReadCalls
<1>2. ReadOK(p, "returned", c) /\ WriteOK(p, "returned", c) /\ PlaceOK("returned", c)
  BY <1>1 DEF ReadOK, WriteOK, PlaceOK
<1>3. "returned" \in Labels
  BY DEF Labels
<1> QED
  BY <1>2, <1>3, OpsDiffer, Zenon DEF Steps, CallOK

LEMMA ReadFile ==
  ASSUME TypeInv, NEW file \in 1..Len(content)
  PROVE  content[file] \in Seq(Int) /\ Len(content[file]) \in Nat
<1>1. content[file] \in Seq(Int)
  BY ElementOfSeq DEF TypeInv
<1> QED
  BY <1>1, LenProperties

LEMMA BeginningPrefix ==
  ASSUME NEW s \in Seq(Int), NEW n \in 0..Len(s)
  PROVE  IsPrefix(SubSeq(s, 1, n), s)
<1> DEFINE u == SubSeq(s, 1, n)
<1>1. u \in Seq(Int) /\ Len(u) = n /\ \A i \in 1..n : u[i] = s[i]
  BY BeginningIs
<1> HIDE DEF u
<1>2. Len(s) \in Nat /\ Len(u) <= Len(s)
  BY <1>1, LenProperties
<1>3. Begins(u, s)
  BY <1>1, <1>2 DEF Begins
<1>4. IsPrefix(u, s)
  BY <1>1, <1>3, PrefixIs
<1> QED
  BY <1>4 DEF u

LEMMA OpenReadSteps ==
  ASSUME FilesInv, NEW p \in Processes, OpenRead(p)
  PROVE  Steps(p)
<1> DEFINE c == call[p]
           node == Target(c.path)
<1>1. pc[p] = "open" /\ c \in ReadCalls /\ ReadOK(p, "open", c)
  BY Zenon DEF OpenRead, FilesInv, CallOK, PlaceOK
<1>2. c.inode = 0 /\ c.size = 0 /\ c.soFar = 0 /\ c.total = 0 /\ c.out = <<>> /\ ~c.failed
  BY <1>1 DEF ReadOK
<1>3. TypeInv /\ c.path \in Paths
  BY <1>1, Zenon DEF FilesInv, ReadCalls
<1>4. node \in Places
  BY <1>3, LookupType DEF TypeInv, TypeOK
<1> DEFINE file == IF node = NoNode THEN 0 ELSE inode[node]
<1>5. file \in 0..Len(content)
  <2>1. Len(content) \in Nat
    BY <1>3, LenProperties DEF TypeInv
  <2>2. node # NoNode => node \in Nodes
    BY <1>4 DEF Places
  <2> QED
    BY <1>3, <2>1, <2>2 DEF TypeInv, TypeOK
<1>6. \/ file = 0 /\ Go(p, "returned", [[c EXCEPT !.failed = TRUE] EXCEPT !.result = FALSE])
      \/ file # 0 /\ Go(p, "fstat", [c EXCEPT !.inode = file])
  BY Zenon DEF OpenRead, Return
<1> HIDE DEF file, node, c
<1>7. CASE file = 0 /\ Go(p, "returned", [[c EXCEPT !.failed = TRUE] EXCEPT !.result = FALSE])
  <2> DEFINE d == [c EXCEPT !.failed = TRUE]
             e == [d EXCEPT !.result = FALSE]
  <2>1. d \in ReadCalls /\ d.inode = 0
    BY <1>1, <1>2, ReadFailed DEF SameRead
  <2> HIDE DEF d
  <2>2. e \in ReadCalls /\ e.inode = 0
    BY <2>1, ReadResult DEF SameRead
  <2>3. Go(p, "returned", e)
    BY <1>7 DEF d
  <2> HIDE DEF e
  <2> QED
    BY <2>2, <2>3, ReadReturns
<1>8. CASE file # 0 /\ Go(p, "fstat", [c EXCEPT !.inode = file])
  <2> DEFINE d == [c EXCEPT !.inode = file]
  <2>1. Len(content) \in Nat /\ file \in Nat /\ file \in 1..Len(content)
    <3>1. Len(content) \in Nat
      BY <1>3, LenProperties DEF TypeInv
    <3> QED
      BY <1>5, <1>8, <3>1
  <2>2. /\ d \in ReadCalls /\ d.inode = file
        /\ d.size = 0 /\ d.soFar = 0 /\ d.total = 0 /\ d.out = <<>> /\ ~d.failed
    BY <1>1, <1>2, <2>1, ReadOpened
  <2> HIDE DEF d
  <2>3. PlaceOK("fstat", d) /\ ReadOK(p, "fstat", d) /\ WriteOK(p, "fstat", d)
    BY <2>1, <2>2 DEF PlaceOK, ReadOK, WriteOK
  <2>4. "fstat" \in Labels
    BY DEF Labels
  <2> QED
    BY <1>8, <2>3, <2>4, GoesOnSteps DEF d
<1> QED
  BY <1>6, <1>7, <1>8

LEMMA FstatSteps ==
  ASSUME FilesInv, NEW p \in Processes, Fstat(p)
  PROVE  Steps(p)
<1> DEFINE c == call[p]
<1>1. pc[p] = "fstat" /\ c \in ReadCalls /\ ReadOK(p, "fstat", c) /\ TypeInv
  BY Zenon DEF Fstat, FilesInv, CallOK, PlaceOK
<1>2. c.size = 0 /\ c.soFar = 0 /\ c.total = 0 /\ c.out = <<>> /\ ~c.failed
  BY <1>1 DEF ReadOK
<1>3. c.inode \in 1..Len(content)
  BY <1>1 DEF ReadOK
<1> DEFINE file == content[c.inode]
<1>4. file \in Seq(Int) /\ Len(file) \in Nat
  BY <1>1, <1>3, ReadFile
<1>5. PICK st_size \in {Len(file), 0} :
        LET wanted == IF st_size > 0 THEN st_size + 1 ELSE InitialAlloc
            size == Least(wanted, c.max)
        IN IF size = 0 THEN Return(p, c, TRUE)
           ELSE Go(p, "read", [c EXCEPT !.size = size])
  BY Zenon DEF Fstat
<1> DEFINE wanted == IF st_size > 0 THEN st_size + 1 ELSE InitialAlloc
           size == Least(wanted, c.max)
<1>6. wanted \in Nat /\ wanted >= 2
  BY <1>4, SizesAssumption
<1>7. c.max \in Nat
  BY <1>1, ReadCallIs
<1> HIDE DEF wanted
<1>8. size \in Nat /\ size <= c.max /\ (size = 0 => c.max = 0) /\ (size = 1 => c.max = 1)
  BY <1>6, <1>7 DEF Least
<1>9. \/ size = 0 /\ Go(p, "returned", [c EXCEPT !.result = TRUE])
      \/ size # 0 /\ Go(p, "read", [c EXCEPT !.size = size])
  BY <1>5, Zenon DEF Return, wanted
<1> HIDE DEF size
<1>10. IsPrefix(<<>>, file) /\ <<>> = SubSeq(file, 1, 0)
  <2> DEFINE none == SubSeq(file, 1, 0)
  <2>1. none \in Seq(Int) /\ Len(none) = 0
    BY <1>4, BeginningIs
  <2>2. IsPrefix(none, file)
    BY <1>4, BeginningPrefix
  <2> HIDE DEF none
  <2>3. none = <<>>
    BY <2>1
  <2> QED
    BY <2>2, <2>3 DEF none
<1>11. CASE size = 0 /\ Go(p, "returned", [c EXCEPT !.result = TRUE])
  <2> DEFINE d == [c EXCEPT !.result = TRUE]
  <2>1. SameRead(c, d) /\ d.result = TRUE /\ d.out = <<>> /\ ~d.failed
    BY <1>1, <1>2, ReadResult
  <2> HIDE DEF d
  <2>2. d \in ReadCalls /\ d.inode = c.inode /\ d.max = 0
    BY <1>8, <1>11, <2>1 DEF SameRead
  <2> HIDE DEF c
  <2>3. Least(d.max, Len(file)) = 0
    BY <1>4, <2>2 DEF Least
  <2>4. ReadWell(d, file)
    BY <1>10, <2>1, <2>3 DEF ReadWell
  <2>5. Go(p, "returned", d)
    BY <1>11 DEF d
  <2>6. d.inode \in 1..Len(content) /\ ReadWell(d, content[d.inode])
    BY <1>3, <2>2, <2>4
  <2> QED
    BY <2>2, <2>5, <2>6, ReadReturns
<1>12. CASE size # 0 /\ Go(p, "read", [c EXCEPT !.size = size])
  <2> DEFINE d == [c EXCEPT !.size = size]
  <2>1. /\ SameRead(c, d) /\ d.size = size
        /\ d.soFar = 0 /\ d.total = 0 /\ d.out = <<>> /\ ~d.failed
    BY <1>1, <1>2, <1>8, ReadSized
  <2> HIDE DEF d
  <2>2. d \in ReadCalls /\ d.inode = c.inode /\ d.max = c.max
    BY <2>1 DEF SameRead
  <2>3. Len(d.out) = 0
    BY <2>1
  <2>4. CountOK(d.total, Len(d.out) - d.soFar)
    BY <2>1, <2>3, SizesAssumption DEF CountOK
  <2>5. IsPrefix(d.out, content[d.inode]) /\ d.inode \in 1..Len(content)
    BY <1>3, <1>10, <2>1, <2>2
  <2>6. d.soFar <= Len(d.out) /\ Len(d.out) < d.size /\ d.size <= d.max /\ (d.size = 1 => d.max = 1)
    BY <1>7, <1>8, <1>12, <2>1, <2>2, <2>3
  <2>7. PlaceOK("read", d) /\ ReadOK(p, "read", d) /\ WriteOK(p, "read", d)
    BY <2>1, <2>2, <2>4, <2>5, <2>6 DEF PlaceOK, ReadOK, WriteOK
  <2>8. "read" \in Labels
    BY DEF Labels
  <2> QED
    BY <1>12, <2>7, <2>8, GoesOnSteps DEF d
<1> QED
  BY <1>9, <1>11, <1>12

LEMMA ReadFailsSteps ==
  ASSUME FilesInv, NEW p \in Processes, ReadFails(p)
  PROVE  Steps(p)
<1> DEFINE c == call[p]
<1>1. pc[p] \in {"fstat", "read"} /\ c \in ReadCalls /\ ReadOK(p, pc[p], c) /\ TypeInv
  BY Zenon DEF ReadFails, FilesInv, CallOK, PlaceOK
<1>2. c.inode \in 1..Len(content)
  BY <1>1 DEF ReadOK
<1> DEFINE file == content[c.inode]
           out == SubSeq(c.out, 1, c.soFar)
           d == [c EXCEPT !.out = out, !.failed = TRUE]
           e == [d EXCEPT !.result = FALSE]
<1>3. file \in Seq(Int) /\ Len(file) \in Nat
  BY <1>1, <1>2, ReadFile
<1>4. c.out \in Seq(Int) /\ c.soFar \in Nat /\ Len(c.out) \in Nat
  BY <1>1, ReadCallIs, LenProperties
<1>5. c.soFar <= Len(c.out) /\ (KeptFile(p, c.inode) => IsPrefix(c.out, file))
  <2>1. CASE pc[p] = "fstat"
    <3>1. c.soFar = 0 /\ c.out = <<>>
      BY <1>1, <2>1 DEF ReadOK
    <3>2. IsPrefix(SubSeq(file, 1, 0), file) /\ SubSeq(file, 1, 0) = <<>>
      <4> DEFINE none == SubSeq(file, 1, 0)
      <4>1. none \in Seq(Int) /\ Len(none) = 0
        BY <1>3, BeginningIs
      <4>2. IsPrefix(none, file)
        BY <1>3, BeginningPrefix
      <4> HIDE DEF none
      <4>3. none = <<>>
        BY <4>1
      <4> QED
        BY <4>2, <4>3 DEF none
    <3>3. c.soFar <= Len(c.out)
      BY <1>4, <3>1
    <3>4. IsPrefix(c.out, file)
      BY <3>1, <3>2, Zenon
    <3> QED
      BY <3>3, <3>4
  <2>2. CASE pc[p] = "read"
    BY <1>1, <2>2 DEF ReadOK
  <2> QED
    BY <1>1, <2>1, <2>2
<1>6. out \in Seq(Int) /\ (KeptFile(p, c.inode) => IsPrefix(out, file))
  <2>1. c.soFar \in 0..Len(c.out)
    BY <1>4, <1>5
  <2>2. out \in Seq(Int)
    BY <1>4, <2>1, BeginningIs
  <2> QED
    BY <1>3, <1>4, <1>5, <2>1, <2>2, ShorterPrefix
<1>7. Go(p, "returned", e)
  BY Zenon DEF ReadFails, Return
<1> HIDE DEF out
<1>8. SameRead(c, d) /\ d.out = out /\ d.failed = TRUE
  BY <1>1, <1>6, ReadOutFailed
<1> HIDE DEF d
<1>9. SameRead(d, e) /\ e.result = FALSE /\ e.out = out /\ e.failed = TRUE
  BY <1>8, ReadResult DEF SameRead
<1> HIDE DEF e
<1>10. e \in ReadCalls /\ e.inode = c.inode
  BY <1>8, <1>9 DEF SameRead
<1> HIDE DEF c
<1>11. KeptFile(p, c.inode) => ReadWell(e, file)
  BY <1>6, <1>9 DEF ReadWell
<1>12. e.inode \in 1..Len(content) /\ (KeptFile(p, e.inode) => ReadWell(e, content[e.inode]))
  BY <1>2, <1>10, <1>11
<1> QED
  BY <1>7, <1>10, <1>12, ReadReturns

(* What ReadFull made of the container is a beginning of the file: the     *)
(* call goes on if there may be more, and otherwise it has all of it.      *)
ReadFullOK(p, c) ==
  /\ c.inode \in 1..Len(content) /\ ~c.failed
  /\ c.soFar <= Len(c.out) /\ Len(c.out) <= c.size /\ 0 < c.size /\ c.size <= c.max
  /\ c.size = 1 => c.max = 1
  /\ CountOK(c.total, Len(c.out) - c.soFar)
  /\ KeptFile(p, c.inode) =>
       /\ IsPrefix(c.out, content[c.inode])
       /\ Len(c.out) < c.size => c.out = content[c.inode]

LEMMA GrownIs ==
  ASSUME NEW size \in Nat, NEW max \in Nat, 0 < size, size <= max
  PROVE  /\ Grown(size, max) \in Nat /\ Grown(size, max) <= max
         /\ size > 1 /\ Grown(size, max) <= size => size = max
  BY DEF Grown, Least

LEMMA ReadFullSteps ==
  ASSUME TypeInv, NEW p \in Processes, NEW c \in ReadCalls,
         ReadFullOK(p, c), ReadFullReturns(p, c)
  PROVE  Steps(p)
<1> DEFINE file == content[c.inode]
           least == Least(c.max, Len(file))
           soFar == c.soFar + c.total
           size == Grown(c.size, c.max)
           next == [c EXCEPT !.soFar = soFar, !.total = 0]
<1>1. /\ c.max \in Nat /\ c.inode \in Nat /\ c.size \in Nat /\ c.soFar \in Nat
      /\ c.total \in Int /\ c.out \in Seq(Int)
  BY ReadCallIs
<1>2. c.inode \in 1..Len(content) /\ ~c.failed /\ c.inode # 0
  BY DEF ReadFullOK
<1>3. file \in Seq(Int) /\ Len(file) \in Nat /\ Len(c.out) \in Nat
  BY <1>1, <1>2, ReadFile, LenProperties
<1>4. /\ c.soFar <= Len(c.out) /\ Len(c.out) <= c.size /\ 0 < c.size /\ c.size <= c.max
      /\ c.size = 1 => c.max = 1
  BY DEF ReadFullOK
<1>5. /\ c.total <= Len(c.out) - c.soFar
      /\ Len(c.out) - c.soFar <= MaxInt => c.total = Len(c.out) - c.soFar
      /\ MaxInt \in Nat
  BY SizesAssumption DEF ReadFullOK, CountOK
<1>6. /\ KeptFile(p, c.inode) => IsPrefix(c.out, file)
      /\ KeptFile(p, c.inode) /\ Len(c.out) < c.size => c.out = file
  BY DEF ReadFullOK
<1>7. KeptFile(p, c.inode) => Len(c.out) <= Len(file)
  BY <1>1, <1>3, <1>6, PrefixIs DEF Begins
<1>8. soFar \in Int /\ soFar <= Len(c.out)
  BY <1>1, <1>3, <1>5
<1>9. size \in Nat /\ size <= c.max /\ (c.size > 1 /\ size <= c.size => c.size = c.max)
  BY <1>1, <1>4, GrownIs
<1>10. least \in Nat /\ least <= c.max /\ least <= Len(file) /\ (least = c.max \/ least = Len(file))
  BY <1>1, <1>3 DEF Least
<1>11. KeptFile(p, c.inode) => Len(c.out) <= least
  BY <1>1, <1>3, <1>4, <1>7, <1>10
<1>12. KeptFile(p, c.inode) /\ least <= MaxInt => soFar = Len(c.out)
  BY <1>1, <1>3, <1>5, <1>10, <1>11
<1>13. KeptFile(p, c.inode) => file = SubSeq(file, 1, Len(file))
  BY <1>3, SubSeqFull
<1>14. ASSUME NEW d \in ReadCalls, Go(p, "returned", d), d.inode = c.inode,
              KeptFile(p, c.inode) => ReadWell(d, file)
       PROVE  Steps(p)
  BY <1>2, <1>14, ReadReturns
<1> HIDE DEF file, least, soFar, size
<1>15. \/ c.total = -1 /\ Return(p, [c EXCEPT !.out = SubSeq(@, 1, c.soFar)], FALSE)
       \/ c.total # -1 /\ soFar < 0 /\ Go(p, "terminated", c)
       \/ c.total # -1 /\ soFar \in 0..(c.size - 1) /\ Return(p, [next EXCEPT !.out = SubSeq(@, 1, soFar)], TRUE)
       \/ c.total # -1 /\ soFar \in c.size..(size - 1) /\ Go(p, "read", [next EXCEPT !.size = size])
       \/ /\ c.total # -1 /\ ~(soFar < 0) /\ soFar \notin 0..(c.size - 1) /\ soFar \notin c.size..(size - 1)
          /\ Return(p, [next EXCEPT !.size = size], TRUE)
  <2>1. \/ c.total = -1
        \/ c.total # -1 /\ soFar < 0
        \/ c.total # -1 /\ soFar \in 0..(c.size - 1)
        \/ c.total # -1 /\ soFar \in c.size..(size - 1)
        \/ c.total # -1 /\ ~(soFar < 0) /\ soFar \notin 0..(c.size - 1) /\ soFar \notin c.size..(size - 1)
    BY Zenon
  <2>2. /\ ~(soFar < 0 /\ soFar \in 0..(c.size - 1)) /\ ~(soFar < 0 /\ soFar \in c.size..(size - 1))
        /\ ~(soFar \in 0..(c.size - 1) /\ soFar \in c.size..(size - 1))
    BY <1>1, <1>8, <1>9
  <2> QED
    BY <2>1, <2>2, Zenon DEF ReadFullReturns, soFar, size
<1>16. CASE c.total = -1 /\ Return(p, [c EXCEPT !.out = SubSeq(@, 1, c.soFar)], FALSE)
  <2> DEFINE out == SubSeq(c.out, 1, c.soFar)
             d == [c EXCEPT !.out = out]
             e == [d EXCEPT !.result = FALSE]
  <2>1. out \in Seq(Int)
    <3>1. c.soFar \in 0..Len(c.out)
      BY <1>1, <1>3, <1>4
    <3> QED
      BY <1>1, <3>1, BeginningIs
  <2>2. Go(p, "returned", e)
    BY <1>16, Zenon DEF Return
  <2> HIDE DEF out
  <2>3. SameRead(c, d)
    BY <2>1, ReadOut
  <2> HIDE DEF d
  <2>4. SameRead(d, e)
    BY <2>3, ReadResult DEF SameRead
  <2> HIDE DEF e
  <2>5. e \in ReadCalls /\ e.inode = c.inode /\ e.max = c.max
    BY <2>3, <2>4 DEF SameRead
  <2>6. ~(KeptFile(p, c.inode) /\ least <= MaxInt)
    BY <1>1, <1>3, <1>4, <1>5, <1>10, <1>11, <1>16
  <2>7. KeptFile(p, c.inode) => ReadWell(e, file)
    BY <2>5, <2>6, Zenon DEF ReadWell, least
  <2> QED
    BY <1>14, <2>2, <2>5, <2>7
<1>17. CASE c.total # -1 /\ soFar < 0 /\ Go(p, "terminated", c)
  <2>1. KeptFile(p, c.inode) => Len(file) > MaxInt
    BY <1>1, <1>3, <1>5, <1>7, <1>8, <1>17 DEF soFar
  <2>2. PlaceOK("terminated", c) /\ WriteOK(p, "terminated", c) /\ "terminated" \in Labels
    BY DEF PlaceOK, WriteOK, Labels
  <2>3. ReadOK(p, "terminated", c)
    BY <1>2, <2>1 DEF ReadOK, file
  <2> QED
    BY <1>17, <2>2, <2>3, GoesOnSteps
<1>18. CASE /\ c.total # -1 /\ soFar \in 0..(c.size - 1)
            /\ Return(p, [next EXCEPT !.out = SubSeq(@, 1, soFar)], TRUE)
  <2>1. soFar \in Nat /\ soFar \in 0..Len(c.out)
    BY <1>1, <1>3, <1>8, <1>18
  <2>2. SameRead(c, next) /\ next.out = c.out /\ ~next.failed
    BY <1>2, <2>1, ReadNext
  <2> DEFINE out == SubSeq(c.out, 1, soFar)
             d == [next EXCEPT !.out = out]
             e == [d EXCEPT !.result = TRUE]
  <2>3. out \in Seq(Int)
    BY <1>1, <2>1, BeginningIs
  <2>4. Go(p, "returned", e)
    <3>1. Return(p, d, TRUE)
      <4> HIDE DEF next
      <4>1. [next EXCEPT !.out = SubSeq(@, 1, soFar)] = d
        BY <2>2, Zenon
      <4> QED
        BY <1>18, <4>1
    <3> QED
      BY <3>1, Zenon DEF Return
  <2> HIDE DEF out, next
  <2>5. SameRead(next, d) /\ d.out = out /\ ~d.failed
    BY <2>2, <2>3, ReadOut DEF SameRead
  <2> HIDE DEF d
  <2>6. SameRead(d, e) /\ e.out = out /\ ~e.failed /\ e.result = TRUE
    BY <2>5, ReadResult DEF SameRead
  <2> HIDE DEF e
  <2>7. e \in ReadCalls /\ e.inode = c.inode /\ e.max = c.max
    BY <2>2, <2>5, <2>6 DEF SameRead
  <2>8. ASSUME KeptFile(p, c.inode), least <= MaxInt
        PROVE  out = SubSeq(file, 1, least) /\ IsPrefix(out, file)
    <3>1. soFar = Len(c.out) /\ Len(c.out) < c.size
      BY <1>1, <1>3, <1>12, <1>18, <2>8
    <3>2. c.out = file /\ out = file
      BY <1>1, <1>6, <2>8, <3>1, SubSeqFull DEF out
    <3>3. least = Len(file)
      BY <1>1, <1>3, <1>4, <1>10, <3>1, <3>2
    <3>4. file = SubSeq(file, 1, Len(file))
      BY <1>13, <2>8
    <3>5. IsPrefix(SubSeq(file, 1, Len(file)), file)
      BY <1>3, BeginningPrefix
    <3> QED
      BY <3>2, <3>3, <3>4, <3>5
  <2>9. KeptFile(p, c.inode) => ReadWell(e, file)
    BY <2>6, <2>7, <2>8, Zenon DEF ReadWell, least
  <2> QED
    BY <1>14, <2>4, <2>7, <2>9
<1>19. CASE c.total # -1 /\ soFar \in c.size..(size - 1) /\ Go(p, "read", [next EXCEPT !.size = size])
  <2>1. soFar = Len(c.out) /\ Len(c.out) = c.size /\ c.size < size /\ soFar \in Nat
    BY <1>1, <1>3, <1>4, <1>8, <1>9, <1>19
  <2>2. /\ SameRead(c, next) /\ next.out = c.out /\ ~next.failed
        /\ next.soFar = soFar /\ next.total = 0
    BY <1>2, <2>1, ReadNext
  <2> HIDE DEF next
  <2> DEFINE d == [next EXCEPT !.size = size]
  <2>3. /\ SameRead(next, d) /\ d.out = c.out /\ ~d.failed
        /\ d.soFar = soFar /\ d.total = 0 /\ d.size = size
    BY <1>9, <2>2, ReadSized DEF SameRead
  <2> HIDE DEF d
  <2>4. d \in ReadCalls /\ d.inode = c.inode /\ d.max = c.max
    BY <2>2, <2>3 DEF SameRead
  <2>5. CountOK(d.total, Len(d.out) - d.soFar)
    BY <1>3, <2>1, <2>3, SizesAssumption DEF CountOK
  <2>6. d.soFar <= Len(d.out) /\ Len(d.out) < d.size /\ d.size <= d.max /\ (d.size = 1 => d.max = 1)
    BY <1>1, <1>3, <1>4, <1>9, <2>1, <2>3, <2>4
  <2>7. d.inode \in 1..Len(content) /\ (KeptFile(p, d.inode) => IsPrefix(d.out, content[d.inode]))
    BY <1>2, <1>6, <2>3, <2>4 DEF file
  <2>8. PlaceOK("read", d) /\ ReadOK(p, "read", d) /\ WriteOK(p, "read", d) /\ "read" \in Labels
    BY <2>3, <2>4, <2>5, <2>6, <2>7 DEF PlaceOK, ReadOK, WriteOK, Labels
  <2> QED
    BY <1>19, <2>8, GoesOnSteps DEF d
<1>20. CASE /\ c.total # -1 /\ ~(soFar < 0) /\ soFar \notin 0..(c.size - 1) /\ soFar \notin c.size..(size - 1)
            /\ Return(p, [next EXCEPT !.size = size], TRUE)
  <2>1. soFar = Len(c.out) /\ Len(c.out) = c.size /\ size <= c.size /\ soFar \in Nat
    BY <1>1, <1>3, <1>4, <1>8, <1>9, <1>20, SMTT(60)
  <2>2. SameRead(c, next) /\ next.out = c.out /\ ~next.failed
    BY <1>2, <2>1, ReadNext
  <2> HIDE DEF next
  <2> DEFINE d == [next EXCEPT !.size = size]
             e == [d EXCEPT !.result = TRUE]
  <2>3. SameRead(next, d) /\ d.out = c.out /\ ~d.failed
    BY <1>9, <2>2, ReadSized DEF SameRead
  <2>4. Go(p, "returned", e)
    BY <1>20, Zenon DEF Return
  <2> HIDE DEF d
  <2>5. SameRead(d, e) /\ e.out = c.out /\ ~e.failed /\ e.result = TRUE
    BY <2>3, ReadResult DEF SameRead
  <2> HIDE DEF e
  <2>6. e \in ReadCalls /\ e.inode = c.inode /\ e.max = c.max
    BY <2>2, <2>3, <2>5 DEF SameRead
  <2>7. c.size = c.max
    BY <1>1, <1>4, <1>9, <2>1
  <2>8. ASSUME KeptFile(p, c.inode)
        PROVE  c.out = SubSeq(file, 1, least) /\ IsPrefix(c.out, file)
    <3>1. least = Len(c.out)
      BY <1>1, <1>3, <1>4, <1>10, <1>11, <2>1, <2>7, <2>8
    <3>2. c.out = SubSeq(file, 1, Len(c.out))
      BY <1>1, <1>3, <1>6, <2>8, PrefixIs
    <3> QED
      BY <1>6, <2>8, <3>1, <3>2
  <2>9. KeptFile(p, c.inode) => ReadWell(e, file)
    BY <2>5, <2>6, <2>8, Zenon DEF ReadWell, least
  <2> QED
    BY <1>14, <2>4, <2>6, <2>9
<1> QED
  BY <1>15, <1>16, <1>17, <1>18, <1>19, <1>20

LEMMA ReadSteps ==
  ASSUME FilesInv, NEW p \in Processes, Read(p)
  PROVE  Steps(p)
<1> DEFINE c == call[p]
           file == content[c.inode]
           wanted == c.size - c.soFar - Filled(c)
           left == SubSeq(file, Len(c.out) + 1, Len(file))
<1>1. pc[p] = "read" /\ c \in ReadCalls /\ ReadOK(p, "read", c) /\ TypeInv
  BY Zenon DEF Read, FilesInv, CallOK, PlaceOK
<1>2. /\ c.inode \in 1..Len(content) /\ ~c.failed
      /\ c.soFar <= Len(c.out) /\ Len(c.out) < c.size /\ c.size <= c.max
      /\ c.size = 1 => c.max = 1
      /\ CountOK(c.total, Len(c.out) - c.soFar)
      /\ KeptFile(p, c.inode) => IsPrefix(c.out, file)
  BY <1>1 DEF ReadOK
<1>3. /\ c.max \in Nat /\ c.inode \in Nat /\ c.size \in Nat /\ c.soFar \in Nat
      /\ c.total \in Int /\ c.out \in Seq(Int) /\ Len(c.out) \in Nat
      /\ file \in Seq(Int)
  BY <1>1, <1>2, ReadCallIs, ReadFile, LenProperties
<1>4. PICK r \in 0..Least(wanted, Len(left)) :
        LET after == [c EXCEPT !.out = @ \o SubSeq(left, 1, r), !.total = Int32(@ + r)]
        IN /\ r = 0 <=> left = <<>>
           /\ IF r # 0 /\ r < wanted THEN Go(p, "read", after)
              ELSE ReadFullReturns(p, after)
  BY Zenon DEF Read
<1>5. wanted = c.size - Len(c.out)
  BY <1>3 DEF Filled
<1>6. Len(left) \in Nat
  <2>1. Len(c.out) + 1 \in Int /\ Len(file) \in Nat
    BY <1>3, LenProperties
  <2>2. \A i \in (Len(c.out) + 1)..Len(file) : file[i] \in Int
    BY <1>3, <2>1, ElementOfSeq
  <2>3. left \in Seq(Int)
    BY <2>1, <2>2, SubSeqProperties
  <2> QED
    BY <2>3, LenProperties
<1> HIDE DEF wanted
<1>0. c.soFar <= Len(c.out) /\ Len(c.out) < c.size /\ Len(c.out) \in Nat /\ c.size \in Nat
  BY <1>2, <1>3
<1>7. r \in 0..Len(left) /\ r \in Nat /\ r <= wanted
  <2> HIDE DEF left, c
  <2>1. wanted \in Nat
    BY <1>0, <1>5
  <2> QED
    BY <1>6, <2>1 DEF Least
<1> DEFINE more == c.out \o SubSeq(left, 1, r)
           total == Int32(c.total + r)
           after == [c EXCEPT !.out = more, !.total = total]
<1>8. /\ more \in Seq(Int) /\ Len(more) = Len(c.out) + r
      /\ IsPrefix(c.out, file) => IsPrefix(more, file)
      /\ IsPrefix(c.out, file) /\ left = <<>> => c.out = file
  BY <1>3, <1>7, ReadOn
<1>9. left = <<>> => more = c.out
  <2> SUFFICES ASSUME left = <<>> PROVE more = c.out
    OBVIOUS
  <2> HIDE DEF left
  <2>1. r = 0
    BY <1>4
  <2>2. SubSeq(left, 1, r) = <<>>
    BY <2>1
  <2>3. c.out \o <<>> = c.out
    BY <1>3, ConcatEmptySeq
  <2> QED
    BY <2>2, <2>3
<1>10. (r = 0 <=> left = <<>>) /\ (IF r # 0 /\ r < wanted THEN Go(p, "read", after)
                                   ELSE ReadFullReturns(p, after))
  BY <1>4, Zenon
<1> HIDE DEF more, left, file
<1>11. CountOK(total, Len(more) - c.soFar) /\ total \in Int
  <2> DEFINE filled == Len(c.out) - c.soFar
  <2>1. filled \in Nat /\ CountOK(c.total, filled)
    BY <1>2, <1>3
  <2>2. Len(more) - c.soFar = filled + r
    BY <1>3, <1>7, <1>8
  <2> HIDE DEF filled
  <2>3. CountOK(total, filled + r)
    BY <1>3, <1>7, <2>1, CountGoesOn
  <2>4. total \in -(MaxInt + 1)..MaxInt
    BY <2>3 DEF CountOK
  <2> QED
    BY <2>2, <2>3, <2>4, SizesAssumption
<1> HIDE DEF total
<1>12. /\ SameRead(c, after) /\ after.out = more /\ after.total = total
       /\ after.size = c.size /\ after.soFar = c.soFar /\ ~after.failed
  <2>1. c \in ReadCalls /\ more \in Seq(Int) /\ total \in Int /\ ~c.failed
    BY <1>1, <1>2, <1>8, <1>11
  <2> HIDE DEF c
  <2>2. /\ SameRead(c, after) /\ after.out = more /\ after.total = total
        /\ after.size = c.size /\ after.soFar = c.soFar /\ after.failed = c.failed
    BY <2>1, Zenon DEF ReadCalls, SameRead
  <2> QED
    BY <2>1, <2>2
<1> HIDE DEF after
<1>13. after \in ReadCalls /\ after.inode = c.inode /\ after.max = c.max
  BY <1>12 DEF SameRead
<1> HIDE DEF c
<1>14. KeptFile(p, c.inode) => IsPrefix(more, file)
  BY <1>2, <1>8
<1>17. Len(more) = Len(c.out) + r
  BY <1>8
<1>15. CASE r # 0 /\ r < wanted
  <2>1. Go(p, "read", after)
    BY <1>10, <1>15
  <2>2. after.soFar <= Len(after.out) /\ Len(after.out) < after.size
    BY <1>0, <1>3, <1>5, <1>7, <1>12, <1>15, <1>17
  <2>3. /\ after.size <= after.max /\ (after.size = 1 => after.max = 1)
        /\ after.inode \in 1..Len(content)
        /\ CountOK(after.total, Len(after.out) - after.soFar)
        /\ KeptFile(p, after.inode) => IsPrefix(after.out, content[after.inode])
    BY <1>2, <1>11, <1>12, <1>13, <1>14, Zenon DEF file
  <2>4. PlaceOK("read", after) /\ ReadOK(p, "read", after) /\ WriteOK(p, "read", after) /\ "read" \in Labels
    BY <1>12, <1>13, <2>2, <2>3 DEF PlaceOK, ReadOK, WriteOK, Labels
  <2> QED
    BY <2>1, <2>4, GoesOnSteps
<1>16. CASE ~(r # 0 /\ r < wanted)
  <2>1. ReadFullReturns(p, after)
    BY <1>10, <1>16
  <2>2. /\ after.soFar <= Len(after.out) /\ Len(after.out) <= after.size
        /\ 0 < after.size
        /\ Len(after.out) < after.size => r = 0
    BY <1>0, <1>3, <1>5, <1>7, <1>12, <1>16, <1>17
  <2>3. KeptFile(p, c.inode) /\ r = 0 => more = file
    BY <1>2, <1>8, <1>9, <1>10
  <2>4. /\ after.size <= after.max /\ (after.size = 1 => after.max = 1)
        /\ after.inode \in 1..Len(content)
        /\ CountOK(after.total, Len(after.out) - after.soFar)
        /\ KeptFile(p, after.inode) => IsPrefix(after.out, content[after.inode])
    BY <1>2, <1>11, <1>12, <1>13, <1>14, Zenon DEF file
  <2>5. KeptFile(p, after.inode) /\ Len(after.out) < after.size => after.out = content[after.inode]
    BY <1>12, <1>13, <2>2, <2>3 DEF file
  <2>6. ReadFullOK(p, after)
    BY <1>12, <2>2, <2>4, <2>5 DEF ReadFullOK
  <2> QED
    BY <1>1, <1>13, <2>1, <2>6, ReadFullSteps
<1> QED
  BY <1>15, <1>16

-----------------------------------------------------------------------------
(* What a step means for the calls. *)

(* Files that a process's call has not been disturbed at stay as they are. *)
Quiet(q) ==
  /\ Len(content) <= Len(content')
  /\ \A f \in 1..Len(content) :
       KeptFile(q, f)' => KeptFile(q, f) /\ content'[f] = content[f]

LEMMA QuietKeeps ==
  ASSUME FilesInv, content' \in Seq(Seq(Int)), NEW q \in Processes, Quiet(q),
         pc'[q] = pc[q], call'[q] = call[q]
  PROVE  CallOK(q, pc[q], call[q])'
<1> DEFINE label == pc[q]
           c == call[q]
           f == c.inode
<1>1. PlaceOK(label, c) /\ ReadOK(q, label, c) /\ WriteOK(q, label, c)
  BY DEF FilesInv, CallOK
<1>2. f \in 1..Len(content) => f \in 1..Len(content')
  <2>1. Len(content) \in Nat /\ Len(content') \in Nat
    BY LenProperties DEF FilesInv, TypeInv
  <2> QED
    BY <2>1 DEF Quiet
<1>3. f \in 1..Len(content) /\ KeptFile(q, f)' => KeptFile(q, f) /\ content'[f] = content[f]
  BY DEF Quiet
<1>4. PlaceOK(pc[q], call[q])'
  BY <1>1 DEF PlaceOK
<1>5. ReadOK(q, pc[q], call[q])'
  BY <1>1, <1>2, <1>3 DEF ReadOK, KeptFile
<1>6. WriteOK(q, pc[q], call[q])'
  BY <1>1, <1>2, <1>3 DEF WriteOK, KeptFile
<1> QED
  BY <1>4, <1>5, <1>6 DEF CallOK

LEMMA QuietStep ==
  ASSUME FilesInv, UNCHANGED <<kernel, history>>, NEW q \in Processes
  PROVE  Quiet(q)
<1>1. Len(content) \in Nat
  BY LenProperties DEF FilesInv, TypeInv
<1> QED
  BY <1>1 DEF Quiet, KeptFile, kernel, history

LEMMA StepKeeps ==
  ASSUME FilesInv, NEW p \in Processes, NEW label \in Labels, NEW record,
         Go(p, label, record), CallOK(p, label, record)',
         TypeOK', content' \in Seq(Seq(Int)),
         \A q \in Processes : q # p => Quiet(q)
  PROVE  FilesInv'
<1>1. TypeInv
  BY DEF FilesInv
<1>2. /\ pc'[p] = label /\ call'[p] = record
      /\ \A q \in Processes : q # p => pc'[q] = pc[q] /\ call'[q] = call[q]
  BY <1>1, GoIs
<1>3. CallOK(p, pc[p], call[p])'
  BY <1>2 DEF CallOK, PlaceOK, ReadOK, WriteOK, KeptFile
<1>4. \A q \in Processes : CallOK(q, pc[q], call[q])'
  BY <1>2, <1>3, QuietKeeps
<1>5. PlaceOK(label, record)
  BY DEF CallOK
<1>6. TypeInv'
  BY <1>1, <1>5, GoesKeepsTypes, Zenon DEF Goes
<1> QED
  BY <1>4, <1>6 DEF FilesInv

LEMMA StepsKeep ==
  ASSUME FilesInv, NEW p \in Processes, Steps(p), UNCHANGED <<kernel, history>>
  PROVE  FilesInv'
<1>1. PICK label \in Labels : \E record : Go(p, label, record) /\ CallOK(p, label, record)
  BY Zenon DEF Steps
<1>2. PICK record : Go(p, label, record) /\ CallOK(p, label, record)
  BY <1>1
<1>3. CallOK(p, label, record)'
  BY <1>2 DEF CallOK, PlaceOK, ReadOK, WriteOK, KeptFile, kernel, history
<1>4. calls' = calls /\ removes' = removes
  BY <1>2 DEF Go
<1>5. TypeOK' /\ content' \in Seq(Seq(Int))
  BY <1>4, TypeOKUnchanged DEF FilesInv, TypeInv, kernel
<1> QED
  BY <1>2, <1>3, <1>5, QuietStep, StepKeeps

-----------------------------------------------------------------------------
(* WriteFile's steps. *)

LEMMA WriteCallIs ==
  ASSUME NEW c \in WriteCalls
  PROVE  /\ c.op = "write" /\ c.path \in Paths /\ c.data \in Seq(Int) /\ c.inode \in Nat
         /\ c.stored \in Nat /\ c.total \in Int /\ c.failed \in BOOLEAN /\ c.result \in BOOLEAN
  BY DEF WriteCalls

SameWrite(c, d) ==
  d \in WriteCalls /\ d.inode = c.inode /\ d.data = c.data

LEMMA WriteResult ==
  ASSUME NEW c \in WriteCalls, NEW f \in BOOLEAN, NEW r \in BOOLEAN
  PROVE  LET d == [[c EXCEPT !.failed = f] EXCEPT !.result = r]
         IN SameWrite(c, d) /\ d.result = r /\ d.failed = f
  BY Zenon DEF WriteCalls, SameWrite

LEMMA WriteFailed ==
  ASSUME NEW c \in WriteCalls, NEW n \in Int
  PROVE  LET d == [c EXCEPT !.total = n, !.failed = TRUE]
         IN SameWrite(c, d) /\ d.total = n /\ d.failed = TRUE /\ d.stored = c.stored
  BY Zenon DEF WriteCalls, SameWrite

LEMMA WriteMore ==
  ASSUME NEW c \in WriteCalls, NEW n \in Nat, NEW t \in Int
  PROVE  LET d == [c EXCEPT !.stored = n, !.total = t]
         IN SameWrite(c, d) /\ d.stored = n /\ d.total = t /\ d.failed = c.failed
  BY Zenon DEF WriteCalls, SameWrite

LEMMA WriteOpened ==
  ASSUME NEW c \in WriteCalls, NEW n \in Nat
  PROVE  LET d == [c EXCEPT !.inode = n]
         IN /\ d \in WriteCalls /\ d.inode = n /\ d.data = c.data
            /\ d.stored = c.stored /\ d.total = c.total /\ d.failed = c.failed
  BY Zenon DEF WriteCalls

LEMMA OpenWriteFailsSteps ==
  ASSUME FilesInv, NEW p \in Processes, OpenWriteFails(p)
  PROVE  Steps(p)
<1> DEFINE c == call[p]
           d == [[c EXCEPT !.failed = TRUE] EXCEPT !.result = FALSE]
<1>1. pc[p] = "create" /\ c \in WriteCalls /\ WriteOK(p, "create", c)
  BY Zenon DEF OpenWriteFails, FilesInv, CallOK, PlaceOK
<1>2. c.inode = 0
  BY <1>1 DEF WriteOK
<1>3. Go(p, "returned", d)
  BY Zenon DEF OpenWriteFails, Return
<1>4. SameWrite(c, d)
  BY <1>1, WriteResult
<1> HIDE DEF d
<1>5. d \in WriteCalls /\ d.inode = 0 /\ d.op = "write"
  BY <1>2, <1>4, WriteCallIs DEF SameWrite
<1>6. PlaceOK("returned", d) /\ ReadOK(p, "returned", d) /\ WriteOK(p, "returned", d)
  BY <1>5 DEF PlaceOK, ReadOK, WriteOK
<1>7. "returned" \in Labels
  BY DEF Labels
<1> QED
  BY <1>3, <1>5, <1>6, <1>7, OpsDiffer, Zenon DEF Steps, CallOK

LEMMA WriteFailsSteps ==
  ASSUME FilesInv, NEW p \in Processes, WriteFails(p)
  PROVE  Steps(p)
<1> DEFINE c == call[p]
           d == [c EXCEPT !.total = -1, !.failed = TRUE]
<1>1. pc[p] = "write" /\ c \in WriteCalls /\ WriteOK(p, "write", c)
  BY Zenon DEF WriteFails, FilesInv, CallOK, PlaceOK
<1>2. /\ c.inode \in 1..Len(content) /\ c.stored <= Len(c.data)
      /\ KeptFile(p, c.inode) => content[c.inode] = SubSeq(c.data, 1, c.stored)
  BY <1>1 DEF WriteOK
<1>3. Go(p, "close", d)
  BY Zenon DEF WriteFails
<1>4. -1 \in Int
  OBVIOUS
<1>5. SameWrite(c, d) /\ d.total = -1 /\ d.failed = TRUE /\ d.stored = c.stored
  BY <1>1, <1>4, WriteFailed
<1> HIDE DEF d
<1>6. d \in WriteCalls /\ d.inode = c.inode /\ d.data = c.data
  BY <1>5 DEF SameWrite
<1>7. PlaceOK("close", d) /\ ReadOK(p, "close", d) /\ WriteOK(p, "close", d)
  BY <1>2, <1>5, <1>6 DEF PlaceOK, ReadOK, WriteOK
<1>8. "close" \in Labels
  BY DEF Labels
<1> QED
  BY <1>3, <1>7, <1>8, GoesOnSteps

LEMMA CloseSteps ==
  ASSUME FilesInv, NEW p \in Processes, Close(p)
  PROVE  Steps(p)
<1> DEFINE c == call[p]
<1>1. pc[p] = "close" /\ c \in WriteCalls /\ WriteOK(p, "close", c) /\ TypeInv
  BY Zenon DEF Close, FilesInv, CallOK, PlaceOK
<1>2. /\ c.inode \in 1..Len(content) /\ c.stored <= Len(c.data)
      /\ KeptFile(p, c.inode) => content[c.inode] = SubSeq(c.data, 1, c.stored)
      /\ ~c.failed => (c.stored <= MaxInt => c.total = c.stored)
      /\ IF c.failed THEN c.total = -1 ELSE c.stored = Len(c.data)
  BY <1>1 DEF WriteOK
<1>3. /\ c.data \in Seq(Int) /\ c.stored \in Nat /\ c.total \in Int /\ c.failed \in BOOLEAN
      /\ Len(c.data) \in Nat
  BY <1>1, WriteCallIs, LenProperties
<1>4. PICK closed \in BOOLEAN :
        Return(p, [c EXCEPT !.failed = @ \/ ~closed], closed /\ c.total = Len(c.data))
  BY Zenon DEF Close
<1> DEFINE f == c.failed \/ ~closed
           r == closed /\ c.total = Len(c.data)
           d == [[c EXCEPT !.failed = f] EXCEPT !.result = r]
<1>5. Go(p, "returned", d)
  BY <1>4, Zenon DEF Return
<1>6. f \in BOOLEAN /\ r \in BOOLEAN
  BY Zenon
<1>7. r => ~c.failed /\ c.stored = Len(c.data)
  BY <1>2, <1>3
<1>8. Len(c.data) <= MaxInt => (r <=> ~f)
  BY <1>2, <1>3
<1> HIDE DEF f, r
<1>9. SameWrite(c, d) /\ d.result = r /\ d.failed = f
  BY <1>1, <1>6, WriteResult, ZenonT(60)
<1> HIDE DEF d
<1>10. d \in WriteCalls /\ d.inode = c.inode /\ d.data = c.data /\ d.op = "write"
  BY <1>9, WriteCallIs DEF SameWrite
<1> DEFINE file == content[c.inode]
<1>11. KeptFile(p, c.inode) => WroteWell(d, file)
  <2> SUFFICES ASSUME KeptFile(p, c.inode) PROVE WroteWell(d, file)
    OBVIOUS
  <2>1. file = SubSeq(c.data, 1, c.stored) /\ c.stored \in 0..Len(c.data)
    BY <1>2, <1>3
  <2>2. IsPrefix(file, c.data)
    BY <1>3, <2>1, BeginningPrefix
  <2>3. r => file = c.data
    BY <1>3, <1>7, <2>1, SubSeqFull
  <2> HIDE DEF file, c
  <2>4. (d.result => file = d.data) /\ IsPrefix(file, d.data)
    BY <1>9, <1>10, <2>2, <2>3
  <2>5. Len(d.data) <= MaxInt => (d.result <=> ~d.failed)
    BY <1>8, <1>9, <1>10, Zenon
  <2> QED
    BY <2>4, <2>5, Zenon DEF WroteWell
<1>12. PlaceOK("returned", d) /\ ReadOK(p, "returned", d)
  BY <1>10 DEF PlaceOK, ReadOK
<1>13. WriteOK(p, "returned", d)
  BY <1>2, <1>10, <1>11 DEF WriteOK
<1>14. "returned" \in Labels
  BY DEF Labels
<1> QED
  BY <1>5, <1>10, <1>12, <1>13, <1>14, OpsDiffer, Zenon DEF Steps, CallOK

LEMMA WriteKeeps ==
  ASSUME FilesInv, NEW p \in Processes, Write(p)
  PROVE  FilesInv'
<1> DEFINE c == call[p]
           left == Len(c.data) - c.stored
<1>1. pc[p] = "write" /\ c \in WriteCalls /\ WriteOK(p, "write", c) /\ TypeInv
  BY Zenon DEF Write, FilesInv, CallOK, PlaceOK
<1>2. /\ c.inode \in 1..Len(content) /\ c.stored < Len(c.data) /\ ~c.failed
      /\ KeptFile(p, c.inode) => content[c.inode] = SubSeq(c.data, 1, c.stored)
      /\ c.stored <= MaxInt => c.total = c.stored
  BY <1>1 DEF WriteOK
<1>3. /\ c.data \in Seq(Int) /\ c.stored \in Nat /\ c.total \in Int
      /\ Len(c.data) \in Nat
  BY <1>1, WriteCallIs, LenProperties
<1>4. PICK r \in 1..left :
        /\ content' = [content EXCEPT ![c.inode] =
                         Written(@, c.stored, SubSeq(c.data, c.stored + 1, c.stored + r))]
        /\ Go(p, IF r = left THEN "close" ELSE "write",
              [c EXCEPT !.stored = @ + r, !.total = Int32(@ + r)])
  BY Zenon DEF Write
<1>5. /\ still' = [q \in Processes |-> IF q \in {p} THEN still[q] ELSE still[q] \ NodesOf(c.inode)]
      /\ UNCHANGED <<tree, inode, clear>>
  BY Zenon DEF Write, Disturb, Unless
<1> DEFINE file == content[c.inode]
           bytes == SubSeq(c.data, c.stored + 1, c.stored + r)
           new == Written(file, c.stored, bytes)
           total == Int32(c.total + r)
           label == IF r = left THEN "close" ELSE "write"
           d == [c EXCEPT !.stored = c.stored + r, !.total = total]
<1>6. r \in Nat /\ r >= 1 /\ c.stored + r <= Len(c.data) /\ c.stored + r \in Nat
      /\ (r = left <=> c.stored + r = Len(c.data))
  <2>1. c.stored < Len(c.data) /\ c.stored \in Nat /\ Len(c.data) \in Nat
    BY <1>2, <1>3
  <2> HIDE DEF c
  <2> QED
    BY <2>1
<1>7. /\ total \in Int
      /\ c.stored + r <= MaxInt => total = c.stored + r
  <2>1. total \in -(MaxInt + 1)..MaxInt
    <3>1. c.total + r \in Int
      BY <1>3
    <3> HIDE DEF c
    <3> QED
      BY <3>1, Int32Is
  <2>2. ASSUME c.stored + r <= MaxInt PROVE total = c.stored + r
    <3>1. c.total = c.stored /\ c.total + r \in -(MaxInt + 1)..MaxInt
      BY <1>2, <1>3, <1>6, <2>2, SizesAssumption, SMTT(60)
    <3> QED
      BY <1>3, <3>1, Int32Is
  <2> HIDE DEF total
  <2> QED
    BY <2>1, <2>2, SizesAssumption
<1>8. bytes \in Seq(Int)
  <2>1. \A i \in (c.stored + 1)..(c.stored + r) : c.data[i] \in Int
    BY <1>3, <1>6, ElementOfSeq
  <2> QED
    BY <1>3, <1>6, <2>1, SubSeqProperties
<1>9. file \in Seq(Int) /\ Len(content) \in Nat
  BY <1>1, <1>2, ReadFile, LenProperties DEF TypeInv
<1>10. new \in Seq(Int)
  BY <1>3, <1>8, <1>9, WrittenType
<1>11. content' = [content EXCEPT ![c.inode] = new]
  BY <1>4, Zenon
<1>12. Go(p, label, d)
  BY <1>4, Zenon
<1>13. KeptFile(p, c.inode) => new = SubSeq(c.data, 1, c.stored + r)
  <2> SUFFICES ASSUME KeptFile(p, c.inode) PROVE new = SubSeq(c.data, 1, c.stored + r)
    OBVIOUS
  <2>1. file = SubSeq(c.data, 1, c.stored)
    BY <1>2
  <2>2. c.stored \in 0..Len(c.data) /\ r \in 1..(Len(c.data) - c.stored)
    BY <1>2, <1>3
  <2> QED
    BY <1>3, <2>1, <2>2, WriteOn
<1> HIDE DEF new, bytes, total
<1>14. SameWrite(c, d) /\ d.stored = c.stored + r /\ d.total = total /\ ~d.failed
  <2>1. c \in WriteCalls /\ c.stored + r \in Nat /\ total \in Int /\ ~c.failed
    BY <1>1, <1>2, <1>6, <1>7
  <2>2. SameWrite(c, d) /\ d.stored = c.stored + r /\ d.total = total /\ d.failed = c.failed
    BY <2>1, Zenon DEF WriteCalls, SameWrite
  <2> QED
    BY <2>1, <2>2
<1> HIDE DEF d
<1>15. d \in WriteCalls /\ d.inode = c.inode /\ d.data = c.data
  BY <1>14 DEF SameWrite
<1>16. /\ content' \in Seq(Seq(Int)) /\ Len(content') = Len(content)
       /\ content'[c.inode] = new
       /\ \A f \in 1..Len(content) : f # c.inode => content'[f] = content[f]
  BY <1>1, <1>2, <1>9, <1>10, <1>11 DEF TypeInv
<1>17. \A f : KeptFile(p, f)' => KeptFile(p, f)
  BY <1>5 DEF KeptFile
<1>18. calls' = calls /\ removes' = removes
  BY <1>12, Zenon DEF Go
<1>19. TypeOK'
  <2>1. still' \in [Processes -> SUBSET Nodes]
    BY <1>1, <1>5 DEF TypeInv, TypeOK
  <2>2. inode' \in [Nodes -> 0..Len(content')]
    BY <1>1, <1>5, <1>16 DEF TypeInv, TypeOK
  <2> QED
    BY <1>1, <1>5, <1>18, <2>1, <2>2 DEF TypeInv, TypeOK
<1>20. ASSUME NEW q \in Processes, q # p PROVE Quiet(q)
  <2>1. ASSUME NEW f \in 1..Len(content), KeptFile(q, f)'
        PROVE  KeptFile(q, f) /\ content'[f] = content[f]
    <3>1. PICK n \in still'[q] : inode'[n] = f
      BY <2>1 DEF KeptFile
    <3>2. n \in still[q] /\ n \notin NodesOf(c.inode) /\ inode[n] = f
      BY <1>5, <1>20, <3>1
    <3>3. f # c.inode
      BY <1>1, <1>20, <3>2 DEF NodesOf, TypeInv, TypeOK
    <3> QED
      BY <1>16, <3>2, <3>3 DEF KeptFile
  <2> QED
    BY <1>9, <1>16, <2>1 DEF Quiet
<1>21. label \in {"write", "close"} /\ (label = "write" <=> r # left) /\ label \in Labels
  BY Zenon DEF Labels
<1> HIDE DEF label
<1>22. PICK place \in {"write", "close"} : place = label
  BY <1>21
<1>23. PICK e : e = d
  OBVIOUS
<1> HIDE DEF c
<1>24. /\ e \in WriteCalls /\ e.inode \in 1..Len(content') /\ e.stored <= Len(e.data) /\ ~e.failed
       /\ content'[e.inode] = new /\ e.inode = c.inode
       /\ e.stored <= MaxInt => e.total = e.stored
       /\ place = "write" => e.stored < Len(e.data)
       /\ place = "close" => e.stored = Len(e.data)
  <2>1. /\ e.stored = c.stored + r /\ e.data = c.data /\ e.inode = c.inode /\ e.total = total
        /\ e \in WriteCalls /\ ~e.failed
    BY <1>14, <1>15, <1>23
  <2>2. e.stored <= Len(e.data)
    BY <1>6, <2>1
  <2>3. place = "write" => e.stored < Len(e.data)
    BY <1>3, <1>6, <1>21, <1>22, <2>1
  <2>4. place = "close" => e.stored = Len(e.data)
    BY <1>6, <1>21, <1>22, <2>1
  <2> QED
    BY <1>2, <1>7, <1>16, <2>1, <2>2, <2>3, <2>4
<1>25. KeptFile(p, e.inode)' => content'[e.inode] = SubSeq(e.data, 1, e.stored)
  <2> SUFFICES ASSUME KeptFile(p, e.inode)' PROVE content'[e.inode] = SubSeq(e.data, 1, e.stored)
    OBVIOUS
  <2>1. KeptFile(p, c.inode)
    BY <1>17, <1>24
  <2>2. e.stored = c.stored + r /\ e.data = c.data
    BY <1>14, <1>15, <1>23
  <2> QED
    BY <1>13, <1>24, <2>1, <2>2
<1>26. CallOK(p, place, e)'
  <2>1. PlaceOK(place, e)' /\ ReadOK(p, place, e)'
    BY <1>22, <1>24 DEF PlaceOK, ReadOK
  <2>2. WriteOK(p, place, e)'
    BY <1>22, <1>24, <1>25 DEF WriteOK, KeptFile
  <2> QED
    BY <2>1, <2>2 DEF CallOK
<1>27. place \in Labels /\ Go(p, place, e)
  BY <1>12, <1>21, <1>22, <1>23
<1> QED
  BY <1>16, <1>19, <1>20, <1>26, <1>27, StepKeeps

LEMMA OpenWriteKeeps ==
  ASSUME FilesInv, NEW p \in Processes, OpenWrite(p)
  PROVE  FilesInv'
<1> DEFINE c == call[p]
           node == Target(c.path)
           made == tree[node] = "none"
           file == IF made THEN Len(content) + 1 ELSE inode[node]
           label == IF c.data = <<>> THEN "close" ELSE "write"
           d == [c EXCEPT !.inode = file]
<1>1. pc[p] = "create" /\ c \in WriteCalls /\ WriteOK(p, "create", c) /\ TypeInv
  BY Zenon DEF OpenWrite, FilesInv, CallOK, PlaceOK
<1>2. c.stored = 0 /\ c.total = 0 /\ ~c.failed
  BY <1>1 DEF WriteOK
<1>3. c.data \in Seq(Int) /\ Len(c.data) \in Nat /\ c.path \in Paths /\ Len(content) \in Nat
  BY <1>1, WriteCallIs, LenProperties DEF TypeInv
<1>4. node \in Places
  BY <1>1, <1>3, LookupType DEF TypeInv, TypeOK
<1>5. /\ node # NoNode /\ tree[Front(node)] = "dir" /\ tree[node] \in {"none", "file"}
      /\ tree' = [tree EXCEPT ![node] = "file"]
      /\ inode' = [inode EXCEPT ![node] = file]
      /\ content' = IF made THEN Append(content, <<>>) ELSE [content EXCEPT ![file] = <<>>]
      /\ IF made THEN Spoil({p}, {node}) ELSE Disturb({p}, NodesOf(file)) /\ UNCHANGED clear
      /\ Go(p, label, d)
  BY Zenon DEF OpenWrite
<1>6. node \in Nodes
  BY <1>4, <1>5 DEF Places
<1> HIDE DEF node
<1>7. /\ made => file = Len(content) + 1
      /\ ~made => file \in 1..Len(content) /\ file = inode[node]
  BY <1>1, <1>3, <1>5, <1>6 DEF TypeInv, TypeOK
<1>8. file \in Nat /\ file # 0
  BY <1>3, <1>7
<1>9. node # Root /\ tree[Root] = "dir"
  BY <1>1, <1>5 DEF TypeInv, TypeOK
<1> HIDE DEF file, made
<1>10. /\ content' \in Seq(Seq(Int)) /\ Len(content') \in Nat
       /\ Len(content) <= Len(content') /\ file \in 1..Len(content') /\ content'[file] = <<>>
       /\ \A f \in 1..Len(content) : f # file => content'[f] = content[f]
  <2>1. content \in Seq(Seq(Int)) /\ <<>> \in Seq(Int)
    BY <1>1 DEF TypeInv
  <2>2. CASE made
    <3>1. content' = Append(content, <<>>) /\ file = Len(content) + 1
      BY <1>5, <1>7, <2>2
    <3> QED
      BY <1>3, <2>1, <3>1, AppendProperties
  <2>3. CASE ~made
    <3>1. content' = [content EXCEPT ![file] = <<>>] /\ file \in 1..Len(content)
      BY <1>5, <1>7, <2>3
    <3> QED
      BY <1>3, <2>1, <3>1
  <2> QED
    BY <2>2, <2>3
<1>11. /\ still' \in [Processes -> SUBSET Nodes] /\ clear' \in [Processes -> SUBSET Nodes]
       /\ \A q \in Processes : still'[q] \subseteq still[q]
       /\ \A q \in Processes : q # p /\ made => node \notin still'[q]
       /\ \A q \in Processes : q # p /\ ~made => still'[q] \cap NodesOf(file) = {}
  <2>1. still \in [Processes -> SUBSET Nodes] /\ clear \in [Processes -> SUBSET Nodes]
    BY <1>1 DEF TypeInv, TypeOK
  <2>2. CASE made
    BY <1>5, <2>1, <2>2 DEF Spoil, Disturb, Unless
  <2>3. CASE ~made
    BY <1>5, <2>1, <2>3 DEF Disturb, Unless
  <2> QED
    BY <2>2, <2>3
<1>12. calls' = calls /\ removes' = removes
  BY <1>5, Zenon DEF Go
<1>13. TypeOK'
  <2>1. /\ tree \in [Nodes -> Kinds] /\ inode \in [Nodes -> 0..Len(content)]
        /\ \A n \in Nodes \ {Root} : tree[n] # "none" => tree[Front(n)] = "dir"
        /\ \A n \in Nodes : inode[n] # 0 <=> tree[n] = "file"
        /\ calls \in 0..MaxCalls /\ removes \in 0..MaxRemoves
    BY <1>1 DEF TypeInv, TypeOK
  <2>2. tree' \in [Nodes -> Kinds] /\ tree'[Root] = "dir"
    BY <1>5, <1>6, <1>9, <2>1 DEF Kinds
  <2>3. inode' \in [Nodes -> 0..Len(content')]
    BY <1>3, <1>5, <1>6, <1>10, <2>1
  <2>4. \A n \in Nodes : inode'[n] # 0 <=> tree'[n] = "file"
    BY <1>5, <1>6, <1>8, <2>1
  <2>5. ASSUME NEW n \in Nodes \ {Root}, tree'[n] # "none"
        PROVE  tree'[Front(n)] = "dir"
    <3>1. Front(n) \in Nodes
      BY NodesAssumption
    <3>2. tree[Front(n)] = "dir"
      BY <1>5, <1>6, <2>1, <2>5
    <3>3. Front(n) # node
      BY <1>5, <3>2
    <3> QED
      BY <1>5, <2>1, <3>1, <3>2, <3>3
  <2> QED
    BY <1>11, <1>12, <2>1, <2>2, <2>3, <2>4, <2>5 DEF TypeOK
<1>14. ASSUME NEW q \in Processes, q # p PROVE Quiet(q)
  <2>1. ASSUME NEW f \in 1..Len(content), KeptFile(q, f)'
        PROVE  KeptFile(q, f) /\ content'[f] = content[f]
    <3>1. PICK n \in still'[q] : inode'[n] = f
      BY <2>1 DEF KeptFile
    <3>2. n \in still[q] /\ n \in Nodes
      BY <1>11, <3>1
    <3>3. inode'[n] = IF n = node THEN file ELSE inode[n]
      BY <1>1, <1>5, <1>6, <3>2 DEF TypeInv, TypeOK
    <3>4. inode[n] = f /\ f # file
      <4>1. CASE made
        <5>1. n # node
          BY <1>11, <1>14, <3>1, <4>1
        <5>2. f # file
          BY <1>3, <1>7, <4>1
        <5> QED
          BY <3>1, <3>3, <5>1, <5>2
      <4>2. CASE ~made
        <5>1. n \notin NodesOf(file)
          BY <1>11, <1>14, <3>1, <4>2
        <5>2. inode[n] # file
          BY <3>2, <5>1 DEF NodesOf
        <5>3. n # node
          BY <1>7, <4>2, <5>2
        <5> QED
          BY <3>1, <3>3, <5>2, <5>3
      <4> QED
        BY <4>1, <4>2
    <3> QED
      BY <1>10, <3>2, <3>4 DEF KeptFile
  <2> QED
    BY <1>10, <2>1 DEF Quiet
<1>15. label \in {"write", "close"} /\ (label = "close" <=> c.data = <<>>) /\ label \in Labels
  BY Zenon DEF Labels
<1>16. /\ d \in WriteCalls /\ d.inode = file /\ d.data = c.data
       /\ d.stored = 0 /\ d.total = 0 /\ ~d.failed
  BY <1>1, <1>2, <1>8, WriteOpened
<1> HIDE DEF label, d
<1>17. PICK place \in {"write", "close"} : place = label
  BY <1>15
<1>18. PICK e : e = d
  OBVIOUS
<1> HIDE DEF c
<1>19. /\ e \in WriteCalls /\ e.inode \in 1..Len(content') /\ content'[e.inode] = <<>>
       /\ e.data \in Seq(Int) /\ e.stored = 0 /\ e.total = 0 /\ ~e.failed
       /\ place = "close" <=> e.data = <<>>
  BY <1>3, <1>10, <1>15, <1>16, <1>17, <1>18
<1>20. Len(e.data) \in Nat /\ (e.data = <<>> <=> Len(e.data) = 0)
  BY <1>19, LenProperties, EmptySeq
<1>21. SubSeq(e.data, 1, 0) = <<>>
  <2>1. SubSeq(e.data, 1, 0) \in Seq(Int) /\ Len(SubSeq(e.data, 1, 0)) = 0
    BY <1>19, <1>20, BeginningIs
  <2> QED
    BY <2>1, EmptySeq
<1>22. CallOK(p, place, e)'
  <2>1. PlaceOK(place, e)' /\ ReadOK(p, place, e)'
    BY <1>17, <1>19 DEF PlaceOK, ReadOK
  <2>2. e.stored <= Len(e.data) /\ (place = "write" => e.stored < Len(e.data))
        /\ (place = "close" => e.stored = Len(e.data))
    BY <1>17, <1>19, <1>20
  <2>3. WriteOK(p, place, e)'
    BY <1>17, <1>19, <1>21, <2>2 DEF WriteOK, KeptFile
  <2> QED
    BY <2>1, <2>3 DEF CallOK
<1>23. place \in Labels /\ Go(p, place, e)
  BY <1>5, <1>15, <1>17, <1>18
<1> QED
  BY <1>10, <1>13, <1>14, <1>22, <1>23, StepKeeps

-----------------------------------------------------------------------------
(* The steps that make and remove, and those that begin calls. *)

LEMMA MakeDirectoryKeeps ==
  ASSUME FilesInv, NEW p \in Processes, MakeDirectory(p)
  PROVE  FilesInv'
<1>1. TypeInv /\ Steps(p)
  BY CreateSteps DEF FilesInv
<1> DEFINE c == call[p]
           node == Lookup(Head(c.todo))
<1>2. \/ /\ node # NoNode /\ KindAt(node) = "none" /\ tree[Front(node)] = "dir"
         /\ tree' = [tree EXCEPT ![node] = "dir"]
         /\ Disturb({p}, {node}) /\ UNCHANGED <<inode, content, clear>>
      \/ UNCHANGED <<kernel, history>>
  BY Zenon DEF MakeDirectory
<1>3. CASE UNCHANGED <<kernel, history>>
  BY <1>1, <1>3, StepsKeep
<1>4. CASE /\ node # NoNode /\ KindAt(node) = "none" /\ tree[Front(node)] = "dir"
           /\ tree' = [tree EXCEPT ![node] = "dir"]
           /\ Disturb({p}, {node}) /\ UNCHANGED <<inode, content, clear>>
  <2>1. pc[p] = "mkdir" /\ c \in CreateCalls /\ c.todo # <<>>
    BY <1>1, Zenon DEF MakeDirectory, TypeInv, PlaceOK
  <2>2. Head(c.todo) \in Paths
    BY <2>1, HeadTailProperties DEF CreateCalls
  <2>3. node \in Nodes
    <3>1. node \in Places
      BY <1>1, <2>2, LookupType DEF TypeInv, TypeOK
    <3> QED
      BY <1>4, <3>1 DEF Places
  <2> HIDE DEF node
  <2>4. tree[node] = "none" /\ node # Root
    BY <1>1, <1>4 DEF KindAt, TypeInv, TypeOK
  <2>5. PICK label \in Labels : \E record : Go(p, label, record) /\ CallOK(p, label, record)
    BY <1>1, Zenon DEF Steps
  <2>6. PICK record : Go(p, label, record) /\ CallOK(p, label, record)
    BY <2>5
  <2>7. calls' = calls /\ removes' = removes
    BY <2>6 DEF Go
  <2>8. /\ still' \in [Processes -> SUBSET Nodes] /\ still'[p] = still[p]
        /\ \A q \in Processes : still'[q] \subseteq still[q]
    BY <1>1, <1>4 DEF Disturb, Unless, TypeInv, TypeOK
  <2>9. TypeOK'
    <3>1. /\ tree \in [Nodes -> Kinds] /\ tree[Root] = "dir"
          /\ \A n \in Nodes \ {Root} : tree[n] # "none" => tree[Front(n)] = "dir"
          /\ inode \in [Nodes -> 0..Len(content)]
          /\ \A n \in Nodes : inode[n] # 0 <=> tree[n] = "file"
          /\ clear \in [Processes -> SUBSET Nodes]
          /\ calls \in 0..MaxCalls /\ removes \in 0..MaxRemoves
      BY <1>1 DEF TypeInv, TypeOK
    <3>2. tree' \in [Nodes -> Kinds] /\ tree'[Root] = "dir"
      BY <1>4, <2>3, <2>4, <3>1 DEF Kinds
    <3>3. ASSUME NEW n \in Nodes \ {Root}, tree'[n] # "none"
          PROVE  tree'[Front(n)] = "dir"
      <4>1. Front(n) \in Nodes
        BY NodesAssumption
      <4>2. tree[Front(n)] = "dir"
        BY <1>4, <2>3, <3>1, <3>3
      <4> QED
        BY <1>4, <3>1, <4>1, <4>2
    <3>4. \A n \in Nodes : inode[n] # 0 <=> tree'[n] = "file"
      BY <1>4, <2>3, <2>4, <3>1
    <3> QED
      BY <1>4, <2>7, <2>8, <3>1, <3>2, <3>3, <3>4 DEF TypeOK
  <2>10. content' \in Seq(Seq(Int)) /\ Len(content) \in Nat
    BY <1>1, <1>4, LenProperties DEF TypeInv
  <2>11. CallOK(p, label, record)'
    BY <1>4, <2>6, <2>8 DEF CallOK, PlaceOK, ReadOK, WriteOK, KeptFile
  <2>12. ASSUME NEW q \in Processes PROVE Quiet(q)
    BY <1>4, <2>8, <2>10 DEF Quiet, KeptFile
  <2> QED
    BY <2>6, <2>9, <2>10, <2>11, <2>12, StepKeeps
<1> QED
  BY <1>2, <1>3, <1>4

LEMMA RemoveNodeKeeps ==
  ASSUME FilesInv, NEW n \in Nodes, RemoveNode(n)
  PROVE  FilesInv'
<1>1. TypeInv
  BY DEF FilesInv
<1>2. /\ tree \in [Nodes -> Kinds] /\ tree[Root] = "dir"
      /\ \A m \in Nodes \ {Root} : tree[m] # "none" => tree[Front(m)] = "dir"
      /\ inode \in [Nodes -> 0..Len(content)]
      /\ \A m \in Nodes : inode[m] # 0 <=> tree[m] = "file"
      /\ still \in [Processes -> SUBSET Nodes] /\ clear \in [Processes -> SUBSET Nodes]
      /\ calls \in 0..MaxCalls /\ removes \in 0..MaxRemoves
      /\ content \in Seq(Seq(Int)) /\ Len(content) \in Nat
  BY <1>1, LenProperties DEF TypeInv, TypeOK
<1>3. /\ removes < MaxRemoves /\ n # Root /\ Children(n) = {}
      /\ tree' = [tree EXCEPT ![n] = "none"]
      /\ inode' = [inode EXCEPT ![n] = 0]
      /\ removes' = removes + 1
      /\ content' = content /\ pc' = pc /\ call' = call /\ calls' = calls
      /\ Spoil({}, {n})
  BY DEF RemoveNode
<1>4. /\ still' \in [Processes -> SUBSET Nodes] /\ clear' \in [Processes -> SUBSET Nodes]
      /\ \A q \in Processes : still'[q] = still[q] \ {n}
  BY <1>2, <1>3 DEF Spoil, Disturb, Unless
<1>5. TypeOK'
  <2>1. ASSUME NEW m \in Nodes \ {Root}, tree'[m] # "none"
        PROVE  tree'[Front(m)] = "dir"
    <3>1. Front(m) \in Nodes
      BY NodesAssumption
    <3>2. m # n /\ tree[m] # "none"
      BY <1>2, <1>3, <2>1
    <3>3. Front(m) # n
      BY <1>3, <3>2 DEF Children
    <3> QED
      BY <1>2, <1>3, <3>1, <3>2, <3>3
  <2>2. tree' \in [Nodes -> Kinds] /\ tree'[Root] = "dir"
    BY <1>2, <1>3 DEF Kinds
  <2>3. inode' \in [Nodes -> 0..Len(content')]
    BY <1>2, <1>3
  <2>4. \A m \in Nodes : inode'[m] # 0 <=> tree'[m] = "file"
    BY <1>2, <1>3
  <2>5. removes' \in 0..MaxRemoves
    BY <1>2, <1>3, SizesAssumption
  <2> QED
    BY <1>2, <1>3, <1>4, <2>1, <2>2, <2>3, <2>4, <2>5 DEF TypeOK
<1>6. TypeInv'
  <2>1. (\A q \in Processes : PlaceOK(pc[q], call[q]))'
    BY <1>1, <1>3 DEF TypeInv, PlaceOK
  <2> QED
    BY <1>1, <1>3, <1>5, <2>1 DEF TypeInv
<1>7. ASSUME NEW q \in Processes PROVE Quiet(q)
  <2>1. ASSUME NEW f \in 1..Len(content), KeptFile(q, f)' PROVE KeptFile(q, f)
    <3>1. PICK m \in still'[q] : inode'[m] = f
      BY <2>1 DEF KeptFile
    <3>2. m \in still[q] /\ m # n /\ m \in Nodes
      BY <1>2, <1>4, <3>1
    <3> QED
      BY <1>2, <1>3, <3>1, <3>2 DEF KeptFile
  <2> QED
    BY <1>2, <1>3, <2>1 DEF Quiet
<1>8. \A q \in Processes : CallOK(q, pc[q], call[q])'
  BY <1>2, <1>3, <1>7, QuietKeeps
<1> QED
  BY <1>6, <1>8 DEF FilesInv

LEMMA BeginKeeps ==
  ASSUME FilesInv, NEW p \in Processes, NEW label \in Labels, NEW record,
         Begin(p, label, record), PlaceOK(label, record),
         ReadOK(p, label, record), WriteOK(p, label, record), label # "returned",
         label \in {"open", "create", "exists", "next"}
  PROVE  FilesInv'
<1>1. TypeInv
  BY DEF FilesInv
<1>2. /\ pc'[p] = label /\ call'[p] = record
      /\ \A q \in Processes : q # p => pc'[q] = pc[q] /\ call'[q] = call[q]
      /\ pc' \in [Processes -> Labels]
      /\ DOMAIN call' = Processes
      /\ calls' \in 0..MaxCalls /\ UNCHANGED <<kernel, removes>>
      /\ still' \in [Processes -> SUBSET Nodes]
      /\ clear' \in [Processes -> SUBSET Nodes]
      /\ \A q \in Processes : q # p => still'[q] = still[q]
  BY <1>1, BeginIs
<1>3. content' = content /\ inode' = inode /\ Len(content) \in Nat /\ content' \in Seq(Seq(Int))
  BY <1>1, <1>2, LenProperties DEF kernel, TypeInv
<1>4. TypeOK'
  BY <1>1, <1>2 DEF TypeOK, TypeInv, kernel
<1>5. ASSUME NEW q \in Processes PROVE CallOK(q, pc[q], call[q])'
  <2>1. CASE q = p
    <3>1. PlaceOK(label, record)' /\ ReadOK(p, label, record)' /\ WriteOK(p, label, record)'
      BY DEF PlaceOK, ReadOK, WriteOK
    <3> QED
      BY <1>2, <2>1, <3>1 DEF CallOK, PlaceOK, ReadOK, WriteOK, KeptFile
  <2>2. CASE q # p
    <3>1. Quiet(q)
      <4>1. \A f : KeptFile(q, f)' => KeptFile(q, f)
        BY <1>2, <1>3, <2>2, Zenon DEF KeptFile
      <4>2. Len(content) <= Len(content')
        BY <1>3
      <4> QED
        BY <1>3, <4>1, <4>2 DEF Quiet
    <3> QED
      BY <1>2, <1>3, <2>2, <3>1, QuietKeeps
  <2> QED
    BY <2>1, <2>2
<1>6. TypeInv'
  BY <1>2, <1>3, <1>4, <1>5 DEF TypeInv, CallOK
<1> QED
  BY <1>5, <1>6 DEF FilesInv

LEMMA BeginReadKeeps ==
  ASSUME FilesInv, NEW p \in Processes, BeginRead(p)
  PROVE  FilesInv'
<1>1. PICK path \in ReadPaths, max \in Limits :
        Begin(p, "open", [op |-> "read", path |-> path, max |-> max, inode |-> 0,
                          size |-> 0, soFar |-> 0, total |-> 0, out |-> <<>>,
                          failed |-> FALSE, result |-> FALSE])
  BY Zenon DEF BeginRead
<1> DEFINE c == [op |-> "read", path |-> path, max |-> max, inode |-> 0,
                 size |-> 0, soFar |-> 0, total |-> 0, out |-> <<>>,
                 failed |-> FALSE, result |-> FALSE]
<1>2. path \in Paths /\ max \in Nat /\ 0 \in Nat /\ 0 \in Int /\ <<>> \in Seq(Int)
  BY CallsAssumption, SizesAssumption
<1>3. c \in ReadCalls /\ c.inode = 0 /\ c.size = 0 /\ c.soFar = 0 /\ c.total = 0 /\ c.out = <<>>
      /\ ~c.failed
  BY <1>2, Zenon DEF ReadCalls
<1>4. Begin(p, "open", c)
  BY <1>1
<1> HIDE DEF c
<1>5. PlaceOK("open", c) /\ ReadOK(p, "open", c) /\ WriteOK(p, "open", c) /\ "open" \in Labels
  BY <1>3 DEF PlaceOK, ReadOK, WriteOK, Labels
<1> QED
  BY <1>4, <1>5, BeginKeeps

LEMMA BeginWriteKeeps ==
  ASSUME FilesInv, NEW p \in Processes, BeginWrite(p)
  PROVE  FilesInv'
<1>1. PICK path \in WritePaths, data \in Data :
        Begin(p, "create", [op |-> "write", path |-> path, data |-> data, inode |-> 0,
                            stored |-> 0, total |-> 0, failed |-> FALSE,
                            result |-> FALSE])
  BY Zenon DEF BeginWrite
<1> DEFINE c == [op |-> "write", path |-> path, data |-> data, inode |-> 0,
                 stored |-> 0, total |-> 0, failed |-> FALSE, result |-> FALSE]
<1>2. path \in Paths /\ data \in Seq(Int) /\ 0 \in Nat /\ 0 \in Int
  BY CallsAssumption
<1>3. c \in WriteCalls /\ c.inode = 0 /\ c.stored = 0 /\ c.total = 0 /\ ~c.failed
  BY <1>2, Zenon DEF WriteCalls
<1>4. Begin(p, "create", c)
  BY <1>1
<1> HIDE DEF c
<1>5. PlaceOK("create", c) /\ ReadOK(p, "create", c) /\ WriteOK(p, "create", c) /\ "create" \in Labels
  BY <1>3 DEF PlaceOK, ReadOK, WriteOK, Labels
<1> QED
  BY <1>4, <1>5, BeginKeeps

LEMMA BeginCreateKeeps ==
  ASSUME FilesInv, NEW p \in Processes, BeginCreate(p)
  PROVE  FilesInv'
<1>1. PICK path \in DirPaths :
        Begin(p, "exists", [op |-> "mkdir", path |-> path, todo |-> SubPaths(path),
                            result |-> FALSE])
  BY Zenon DEF BeginCreate
<1> DEFINE sub == SubPaths(path)
           c == [op |-> "mkdir", path |-> path, todo |-> sub, result |-> FALSE]
<1>2. path \in Paths
  BY CallsAssumption
<1>3. sub \in Seq(Paths) /\ sub # <<>>
  BY <1>2, SubPathsAre
<1>4. Begin(p, "exists", c)
  BY <1>1
<1> HIDE DEF sub
<1>5. c \in CreateCalls /\ c.todo # <<>>
  BY <1>2, <1>3, Zenon DEF CreateCalls
<1> HIDE DEF c
<1>6. PlaceOK("exists", c) /\ ReadOK(p, "exists", c) /\ WriteOK(p, "exists", c) /\ "exists" \in Labels
  BY <1>5 DEF PlaceOK, ReadOK, WriteOK, Labels
<1> QED
  BY <1>4, <1>6, BeginKeeps

LEMMA BeginEnumerateKeeps ==
  ASSUME FilesInv, NEW p \in Processes, BeginEnumerate(p)
  PROVE  FilesInv'
<1>1. PICK e \in Enumerations :
        Begin(p, "next", [op |-> "list", recursive |-> e.recursive, type |-> e.type,
                      start |-> e.root, pattern |-> e.pattern, root |-> e.root,
                      dir_entries |-> <<>>, current |-> 1, pending |-> <<e.root>>,
                      entries |-> <<>>, left |-> {}, seen |-> {}, listed |-> <<>>,
                      result |-> FALSE])
  BY Zenon DEF BeginEnumerate
<1> DEFINE c == [op |-> "list", recursive |-> e.recursive, type |-> e.type,
                 start |-> e.root, pattern |-> e.pattern, root |-> e.root,
                 dir_entries |-> <<>>, current |-> 1, pending |-> <<e.root>>,
                 entries |-> <<>>, left |-> {}, seen |-> {}, listed |-> <<>>,
                 result |-> FALSE]
<1>2. Begin(p, "next", c)
  BY <1>1
<1>3. c \in ListCalls
  <2>1. e.root \in Paths /\ e.recursive \in BOOLEAN /\ e.type \in SUBSET Types
        /\ e.pattern \in Tokens \cup {NoPattern}
    BY EnumerationsAssumption
  <2>2. /\ <<>> \in Seq(Entry) /\ <<>> \in Seq(Paths) /\ <<e.root>> \in Seq(Paths)
        /\ {} \in SUBSET Names /\ 1 \in Nat
    BY <2>1
  <2> QED
    BY <2>1, <2>2, Zenon DEF ListCalls
<1> HIDE DEF c
<1>4. PlaceOK("next", c) /\ ReadOK(p, "next", c) /\ WriteOK(p, "next", c) /\ "next" \in Labels
  BY <1>3 DEF PlaceOK, ReadOK, WriteOK, Labels
<1> QED
  BY <1>2, <1>4, BeginKeeps

LEMMA StepKeepsFiles ==
  ASSUME FilesInv, NEW p \in Processes, Step(p)
  PROVE  FilesInv'
<1>0. TypeInv
  BY DEF FilesInv
<1>1. CASE OpenRead(p) \/ Fstat(p) \/ Read(p) \/ ReadFails(p)
  <2>1. UNCHANGED <<kernel, history>>
    BY <1>1, Zenon DEF OpenRead, Fstat, Read, ReadFails
  <2> QED
    BY <1>1, <2>1, OpenReadSteps, FstatSteps, ReadSteps, ReadFailsSteps, StepsKeep
<1>2. CASE OpenWriteFails(p) \/ WriteFails(p) \/ Close(p)
  <2>1. UNCHANGED <<kernel, history>>
    BY <1>2, Zenon DEF OpenWriteFails, WriteFails, Close
  <2> QED
    BY <1>2, <2>1, OpenWriteFailsSteps, WriteFailsSteps, CloseSteps, StepsKeep
<1>3. CASE OpenWrite(p) \/ Write(p) \/ MakeDirectory(p)
  BY <1>3, OpenWriteKeeps, WriteKeeps, MakeDirectoryKeeps
<1>4. CASE CheckExists(p) \/ CheckAgain(p)
  <2>1. UNCHANGED <<kernel, history>>
    BY <1>4, Zenon DEF CheckExists, CheckAgain
  <2> QED
    BY <1>0, <1>4, <2>1, CreateSteps, StepsKeep
<1>5. CASE NextEntry(p) \/ NextDirectory(p) \/ ReadEntry(p) \/ StatEntry(p) \/ EndDirectory(p)
  BY <1>0, <1>5, ListSteps, StepsKeep
<1> QED
  BY <1>1, <1>2, <1>3, <1>4, <1>5, Zenon DEF Step

LEMMA FilesInitInv == Init => FilesInv
<1> SUFFICES ASSUME Init PROVE FilesInv
  OBVIOUS
<1>1. /\ tree \in Trees
      /\ inode = [n \in Nodes |-> IF tree[n] = "file" THEN 1 ELSE 0]
      /\ pc = [p \in Processes |-> "idle"]
      /\ call = [p \in Processes |-> NoCall]
      /\ calls = 0 /\ removes = 0
      /\ still = [p \in Processes |-> Nodes]
      /\ clear = [p \in Processes |-> Nodes]
  BY DEF Init
<1>2. PICK bytes \in FirstBytes : content = <<bytes>>
  BY DEF Init
<1>3. content \in Seq(Seq(Int)) /\ Len(content) = 1
  BY <1>2, CallsAssumption
<1>4. TypeOK
  <2>1. /\ tree \in [Nodes -> Kinds] /\ tree[Root] = "dir"
        /\ \A n \in Nodes \ {Root} : tree[n] # "none" => tree[Front(n)] = "dir"
    BY <1>1, TreesAssumption
  <2>2. inode \in [Nodes -> 0..Len(content)] /\ \A n \in Nodes : inode[n] # 0 <=> tree[n] = "file"
    BY <1>1, <1>3
  <2>3. calls \in 0..MaxCalls /\ removes \in 0..MaxRemoves
    BY <1>1, SizesAssumption
  <2> QED
    BY <1>1, <2>1, <2>2, <2>3 DEF TypeOK
<1>5. ASSUME NEW p \in Processes PROVE CallOK(p, pc[p], call[p])
  BY <1>1 DEF CallOK, PlaceOK, ReadOK, WriteOK
<1>6. pc \in [Processes -> Labels] /\ DOMAIN call = Processes
  BY <1>1 DEF Labels
<1> QED
  BY <1>3, <1>4, <1>5, <1>6 DEF FilesInv, TypeInv, CallOK

LEMMA FilesNextInv == FilesInv /\ [Next]_vars => FilesInv'
<1> SUFFICES ASSUME FilesInv, [Next]_vars PROVE FilesInv'
  OBVIOUS
<1>1. CASE UNCHANGED vars
  <2>1. kernel' = kernel /\ history' = history /\ pc' = pc /\ call' = call
        /\ calls' = calls /\ removes' = removes
    BY <1>1 DEF vars
  <2>2. TypeInv' /\ content' \in Seq(Seq(Int))
    BY <2>1 DEF FilesInv, TypeInv, TypeOK, PlaceOK, kernel, history
  <2>3. \A q \in Processes : Quiet(q)
    BY <2>1, QuietStep
  <2>4. \A q \in Processes : CallOK(q, pc[q], call[q])'
    BY <2>1, <2>2, <2>3, QuietKeeps
  <2> QED
    BY <2>2, <2>4 DEF FilesInv
<1>2. CASE \E n \in Nodes : RemoveNode(n)
  BY <1>2, RemoveNodeKeeps
<1>3. ASSUME NEW p \in Processes,
             BeginRead(p) \/ BeginEnumerate(p) \/ BeginWrite(p) \/ BeginCreate(p) \/ Step(p)
      PROVE  FilesInv'
  BY <1>3, BeginReadKeeps, BeginEnumerateKeeps, BeginWriteKeeps, BeginCreateKeeps, StepKeepsFiles
<1> QED
  BY <1>1, <1>2, <1>3, Zenon DEF Next

(* FilesInv is inductive: every system call of every call keeps it.        *)
THEOREM FilesInvariance == Spec => []FilesInv
<1> QED
  BY FilesInitInv, FilesNextInv, PTL DEF Spec

(* The tree stays one, whoever makes, writes and removes: what is there is *)
(* in a directory, and exactly the files have inodes.                      *)
THEOREM FilesTypeCorrect == Spec => []TypeOK
<1>1. FilesInv => TypeOK
  BY DEF FilesInv, TypeInv
<1> QED
  BY <1>1, FilesInvariance, PTL

LEMMA FilesInvExact == FilesInv => FilesExact
<1> SUFFICES ASSUME FilesInv, NEW p \in Processes
             PROVE  LET c == call[p]
                    IN /\ Returned(p, "read") /\ c.inode # 0 /\ Kept(p) =>
                            LET file == content[c.inode]
                                least == Least(c.max, Len(file))
                            IN least <= MaxInt =>
                                 /\ c.result <=> ~c.failed
                                 /\ c.result => c.out = SubSeq(file, 1, least)
                                 /\ IsPrefix(c.out, file)
                       /\ Returned(p, "write") /\ c.inode # 0 /\ Kept(p) =>
                            /\ c.result => content[c.inode] = c.data
                            /\ IsPrefix(content[c.inode], c.data)
                            /\ Len(c.data) <= MaxInt => (c.result <=> ~c.failed)
                       /\ pc[p] = "terminated" /\ Kept(p) => Len(content[c.inode]) > MaxInt
  BY Zenon DEF FilesExact
<1> DEFINE c == call[p]
<1>1. ReadOK(p, pc[p], c) /\ WriteOK(p, pc[p], c)
  BY Zenon DEF FilesInv, CallOK
<1>2. Kept(p) <=> KeptFile(p, c.inode)
  BY DEF Kept, KeptFile
<1>3. Returned(p, "read") /\ c.inode # 0 /\ Kept(p) => ReadWell(c, content[c.inode])
  BY <1>1, <1>2, Zenon DEF ReadOK, Returned
<1>4. Returned(p, "write") /\ c.inode # 0 /\ Kept(p) => WroteWell(c, content[c.inode])
  BY <1>1, <1>2, Zenon DEF WriteOK, Returned
<1>5. pc[p] = "terminated" /\ Kept(p) => Len(content[c.inode]) > MaxInt
  BY <1>1, <1>2, Zenon DEF ReadOK
<1> QED
  BY <1>3, <1>4, <1>5, Zenon DEF ReadWell, WroteWell

(* What ReadFile returns of a file nobody else touches is the file, or its *)
(* first num_bytes bytes; what WriteFile leaves is its container, or a     *)
(* beginning of it if it failed; and ReadFile ends the program only for a  *)
(* file of more bytes than an int counts.                                  *)
THEOREM FilesAreExact == Spec => []FilesExact
<1> QED
  BY FilesInvariance, FilesInvExact, PTL

-----------------------------------------------------------------------------
(* Where a path leads in terms of where its directory does, and the same   *)
(* after a step.                                                           *)

EntryOf(from, name) ==
  CASE name = kCurrentDirectory -> from
    [] name = kParentDirectory -> IF from = Root THEN Root ELSE Front(from)
    [] OTHER -> IF Append(from, name) \in Nodes THEN Append(from, name) ELSE NoNode

LookupFinds(path) ==
  LET d == DirectoryName(path)
  IN IF IsRootPath(path) THEN Lookup(path) = Root
     ELSE IF DirectoryExists(d)
     THEN \A from : from = Target(d) => Lookup(path) = EntryOf(from, LastName(path))
     ELSE Lookup(path) = NoNode

LEMMA PathFinds ==
  ASSUME NEW path \in Paths, path # <<>>, tree[Root] = "dir"
  PROVE  LookupFinds(path)
<1> DEFINE d == DirectoryName(path)
           at == Lookup(d)
           name == LastName(path)
           from == Follow(at)
<1>1. IF IsRootPath(path) THEN Lookup(path) = Root
      ELSE ~IsSeparator(name) /\ Lookup(path) = Walk(at, name)
  BY LookupFromDirectory, Zenon DEF LookupGoesOn
<1>2. d \in Paths
  BY DirectoryNameShorter
<1>3. Target(d) = from /\ (from = NoNode <=> at = NoNode)
  BY <1>2, LookupType, Zenon DEF Target
<1>4. DirectoryExists(d) <=> at # NoNode /\ tree[from] = "dir"
  BY <1>3, Zenon DEF DirectoryExists, KindAt
<1> HIDE DEF at, from, name, d
<1>5. CASE ~IsRootPath(path) /\ DirectoryExists(d)
  <2>1. Lookup(path) = EntryOf(from, name)
    BY <1>1, <1>4, <1>5, TokensDiffer, Zenon DEF Walk, EntryOf, from
  <2> QED
    BY <1>3, <1>5, <2>1, Zenon DEF LookupFinds, d, name
<1>6. CASE ~IsRootPath(path) /\ ~DirectoryExists(d)
  <2>1. Lookup(path) = NoNode
    <3>1. CASE at = NoNode
      BY <1>1, <1>6, <3>1, Zenon DEF Walk
    <3>2. CASE at # NoNode /\ tree[from] # "dir"
      BY <1>1, <1>6, <3>2, Zenon DEF Walk, from
    <3> QED
      BY <1>4, <1>6, <3>1, <3>2, Zenon
  <2> QED
    BY <1>6, <2>1, Zenon DEF LookupFinds, d
<1>7. CASE IsRootPath(path)
  BY <1>1, <1>7, Zenon DEF LookupFinds
<1> QED
  BY <1>5, <1>6, <1>7

PathsFind ==
  tree[Root] = "dir" =>
    \A path \in Paths : path # <<>> =>
      LookupFinds(path) /\ (path = DirectoryName(path) => Lookup(path) = Root)

LEMMA AllPathsFind == PathsFind
  BY PathFinds, FixedLeadsToRoot DEF PathsFind

LEMMA AllPathsFindNext == PathsFind'
  BY AllPathsFind, PTL

-----------------------------------------------------------------------------
(* What a call of CreateDirectory has made so far: j of its paths are done. *)

ClearTo(q, sub, k) ==
  \A i \in 1..k : Lookup(sub[i]) \in clear[q] /\ Target(sub[i]) \in clear[q]

Made(q, sub, j) == \A k \in 1..j : ClearTo(q, sub, k) => DirectoryExists(sub[k])

MadeOK(q, label, result, sub, j) ==
  /\ label \in {"exists", "mkdir", "recheck"} => j < Len(sub)
  /\ label = "returned" => (result <=> j = Len(sub))
  /\ Made(q, sub, j)
  /\ label = "recheck" /\ ClearTo(q, sub, j + 1) => KindAt(Lookup(sub[j + 1])) # "none"
  /\ label = "returned" /\ ~result /\ ClearTo(q, sub, j + 1) =>
       KindAt(Lookup(sub[j + 1])) \in {"file", "link"}

MakingOK(q, label, c) ==
  c \in CreateCalls /\ c.path # <<>> =>
    \E j \in 0..Len(SubPaths(c.path)) :
      /\ c.todo = SubSeq(SubPaths(c.path), j + 1, Len(SubPaths(c.path)))
      /\ MadeOK(q, label, c.result, SubPaths(c.path), j)

CreatorsInv ==
  \A q \in Processes : \A label \in {pc[q]}, c \in {call[q]} : MakingOK(q, label, c)

(* A path and its directories. *)
IsSub(sub) ==
  /\ sub \in Seq(Paths) /\ Len(sub) \in Nat \ {0}
  /\ \A i \in 2..Len(sub) : sub[i - 1] = DirectoryName(sub[i])
  /\ sub[1] = DirectoryName(sub[1])
  /\ \A i \in 1..Len(sub) : sub[i] # <<>>

LEMMA SubPathsIsSub ==
  ASSUME NEW path \in Paths, path # <<>>
  PROVE  IsSub(SubPaths(path)) /\ SubPaths(path)[Len(SubPaths(path))] = path
  BY SubPathsAre, Zenon DEF IsSub

(* Where nothing has been spoilt for q, only directories have appeared. *)
Grows(q) ==
  /\ clear'[q] \subseteq clear[q]
  /\ \A n \in clear'[q] : tree'[n] = tree[n] \/ (tree[n] = "none" /\ tree'[n] = "dir")

LEMMA RootOfSub ==
  ASSUME NEW sub, IsSub(sub), tree[Root] = "dir"
  PROVE  Lookup(sub[1]) = Root /\ Target(sub[1]) = Root
<1>1. 1 \in 1..Len(sub)
  BY DEF IsSub
<1>2. sub[1] \in Paths /\ sub[1] # <<>> /\ sub[1] = DirectoryName(sub[1])
  BY <1>1, ElementOfSeq DEF IsSub
<1>3. Lookup(sub[1]) = Root
  BY <1>2, AllPathsFind DEF PathsFind
<1> QED
  BY <1>3 DEF Target, Follow

RootsOfSubs == tree[Root] = "dir" => \A sub : IsSub(sub) => Lookup(sub[1]) = Root /\ Target(sub[1]) = Root

LEMMA AllRootsOfSubs == RootsOfSubs
  BY RootOfSub DEF RootsOfSubs

LEMMA AllRootsOfSubsNext == RootsOfSubs'
  BY AllRootsOfSubs, PTL

LEMMA SameLookups ==
  ASSUME TypeInv, TypeInv', NEW q \in Processes, Grows(q), NEW sub, IsSub(sub),
         NEW j \in 0..Len(sub), Made(q, sub, j),
         NEW m \in 0..Len(sub), m <= j + 1, ClearTo(q, sub, m)'
  PROVE  /\ \A i \in 1..m : /\ Lookup(sub[i])' = Lookup(sub[i]) /\ Target(sub[i])' = Target(sub[i])
                            /\ Lookup(sub[i])' \in clear'[q] /\ Target(sub[i])' \in clear'[q]
         /\ ClearTo(q, sub, m)
<1>1. tree[Root] = "dir" /\ tree'[Root] = "dir" /\ NoNode \notin clear'[q]
  BY NodesAssumption DEF TypeInv, TypeOK
<1>2. Len(sub) \in Nat
  BY DEF IsSub
<1>3. \A i \in 1..m : Lookup(sub[i])' \in clear'[q] /\ Target(sub[i])' \in clear'[q]
  BY DEF ClearTo
<1>4. clear'[q] \subseteq clear[q]
      /\ \A n \in clear'[q] : tree'[n] = tree[n] \/ (tree[n] = "none" /\ tree'[n] = "dir")
  BY DEF Grows
<1> DEFINE Agree(i) == Lookup(sub[i])' = Lookup(sub[i]) /\ Target(sub[i])' = Target(sub[i])
           Bad == {i \in 1..m : ~Agree(i)}
<1>5. CASE Bad # {}
  <2>1. Bad \in SUBSET Nat
    BY <1>2
  <2>2. PICK i \in Bad : \A k \in Bad : i <= k
    BY <1>5, <2>1, SmallestOf, Zenon
  <2>3. i \in 1..m /\ ~Agree(i) /\ i \in 1..Len(sub)
    BY <1>2, <2>2
  <2>4. sub[i] \in Paths /\ sub[i] # <<>>
    BY <2>3, ElementOfSeq DEF IsSub
  <2>5. CASE i = 1
    <3>1. Lookup(sub[1]) = Root /\ Target(sub[1]) = Root
      BY <1>1, AllRootsOfSubs DEF RootsOfSubs
    <3>2. Lookup(sub[1])' = Root /\ Target(sub[1])' = Root
      BY <1>1, AllRootsOfSubsNext DEF RootsOfSubs
    <3> QED
      BY <2>3, <2>5, <3>1, <3>2, Zenon
  <2>6. CASE i # 1
    <3>1. /\ i - 1 \in 1..m /\ i - 1 \in 1..j /\ i \in 2..Len(sub)
          /\ \A k \in 1..(i - 1) : k \in 1..m /\ ~(i <= k)
      BY <1>2, <2>3, <2>6
    <3>2. \A k \in 1..(i - 1) : Agree(k)
      BY <2>2, <3>1, Zenon
    <3>3. ClearTo(q, sub, i - 1)
      BY <1>3, <1>4, <3>1, <3>2, Zenon DEF ClearTo
    <3>4. DirectoryExists(sub[i - 1])
      BY <3>1, <3>3 DEF Made
    <3>5. i - 1 \in 1..(i - 1)
      BY <3>1
    <3>6. sub[i - 1] = DirectoryName(sub[i])
      BY <3>1 DEF IsSub
    <3>7. PICK from : from = Target(sub[i - 1])
      BY Zenon
    <3>8. PICK d : d = sub[i - 1]
      BY Zenon
    <3>9. from = Target(d) /\ Target(d)' = from /\ from \in clear'[q] /\ DirectoryExists(d)
          /\ d = DirectoryName(sub[i])
      BY <1>3, <3>1, <3>2, <3>4, <3>5, <3>6, <3>7, <3>8, Zenon
    <3>10. tree[from] = "dir" /\ from # NoNode
      BY <1>1, <3>9, Zenon DEF DirectoryExists, KindAt
    <3>11. tree'[from] = "dir"
      BY <1>4, <3>9, <3>10
    <3>12. DirectoryExists(d)'
      BY <3>9, <3>10, <3>11, Zenon DEF DirectoryExists, KindAt
    <3>13. LookupFinds(sub[i]) /\ LookupFinds(sub[i])'
      BY <1>1, <2>4, AllPathsFind, AllPathsFindNext, Zenon DEF PathsFind
    <3>14. PICK path : path = sub[i]
      BY Zenon
    <3>15. Lookup(path) = IF IsRootPath(path) THEN Root ELSE EntryOf(from, LastName(path))
      BY <3>9, <3>13, <3>14, Zenon DEF LookupFinds
    <3>16. Lookup(path)' = IF IsRootPath(path) THEN Root ELSE EntryOf(from, LastName(path))
      BY <3>9, <3>12, <3>13, <3>14, Zenon DEF LookupFinds
    <3>17. PICK n : n = Lookup(path)
      BY Zenon
    <3>18. Lookup(path)' = n /\ n \in clear'[q]
      BY <1>3, <2>3, <3>14, <3>15, <3>16, <3>17, Zenon
    <3>19. tree[n] = "link" <=> tree'[n] = "link"
      BY <1>4, <3>18
    <3>20. Target(path)' = Target(path)
      BY <3>17, <3>18, <3>19, Zenon DEF Target, Follow
    <3> QED
      BY <2>3, <3>14, <3>17, <3>18, <3>20, Zenon
  <2> QED
    BY <2>5, <2>6
<1>6. CASE Bad = {}
  <2>1. \A i \in 1..m : Agree(i)
    BY <1>6, Zenon
  <2>2. ClearTo(q, sub, m)
    BY <1>3, <1>4, <2>1, Zenon DEF ClearTo
  <2> QED
    BY <1>3, <2>1, <2>2, Zenon
<1> QED
  BY <1>5, <1>6

LEMMA MadeKept ==
  ASSUME TypeInv, TypeInv', NEW q \in Processes, Grows(q), NEW sub, IsSub(sub),
         NEW j \in 0..Len(sub), Made(q, sub, j)
  PROVE  Made(q, sub, j)'
<1>1. Len(sub) \in Nat
  BY DEF IsSub
<1> SUFFICES ASSUME NEW k \in 1..j, ClearTo(q, sub, k)'
             PROVE  DirectoryExists(sub[k])'
  BY Zenon DEF Made
<1>2. k \in 0..Len(sub) /\ k <= j + 1 /\ k \in 1..k
  BY <1>1
<1>3. /\ Target(sub[k])' = Target(sub[k]) /\ Target(sub[k])' \in clear'[q]
      /\ ClearTo(q, sub, k)
  BY <1>2, SameLookups
<1>4. DirectoryExists(sub[k])
  BY <1>3 DEF Made
<1>5. PICK path : path = sub[k]
  BY Zenon
<1>6. PICK n : n = Target(path)
  BY Zenon
<1>7. Target(path)' = n /\ n \in clear'[q] /\ n # NoNode
  BY <1>3, <1>5, <1>6, NodesAssumption DEF TypeInv, TypeOK
<1>8. tree[n] = "dir"
  BY <1>4, <1>5, <1>6, <1>7, Zenon DEF DirectoryExists, KindAt
<1>9. tree'[n] = "dir"
  BY <1>7, <1>8 DEF Grows
<1>10. DirectoryExists(path)'
  BY <1>7, <1>9, Zenon DEF DirectoryExists, KindAt
<1> QED
  BY <1>5, <1>10, Zenon

LEMMA MadeOKKept ==
  ASSUME TypeInv, TypeInv', NEW q \in Processes, Grows(q), NEW sub, IsSub(sub),
         NEW j \in 0..Len(sub), NEW label, NEW result, MadeOK(q, label, result, sub, j)
  PROVE  MadeOK(q, label, result, sub, j)'
<1>1. Made(q, sub, j)'
  BY MadeKept DEF MadeOK
<1>2. ASSUME j < Len(sub), ClearTo(q, sub, j + 1)'
      PROVE  /\ ClearTo(q, sub, j + 1)
             /\ KindAt(Lookup(sub[j + 1])) # "none" =>
                  KindAt(Lookup(sub[j + 1]))' = KindAt(Lookup(sub[j + 1]))
  <2>1. j + 1 \in 0..Len(sub) /\ j + 1 <= j + 1 /\ j + 1 \in 1..(j + 1)
    BY <1>2 DEF IsSub
  <2>2. Made(q, sub, j)
    BY DEF MadeOK
  <2>3. PICK k \in 0..Len(sub) : k = j + 1
    BY <2>1
  <2>4. ClearTo(q, sub, k)'
    BY <1>2, <2>3
  <2>5. /\ Lookup(sub[k])' = Lookup(sub[k]) /\ Lookup(sub[k])' \in clear'[q]
        /\ ClearTo(q, sub, k)
    BY <2>1, <2>2, <2>3, <2>4, SameLookups
  <2>6. PICK path : path = sub[k]
    BY Zenon
  <2>7. PICK n : n = Lookup(path)
    BY Zenon
  <2>8. Lookup(path)' = n /\ n \in clear'[q] /\ n # NoNode
    BY <2>5, <2>6, <2>7, NodesAssumption DEF TypeInv, TypeOK
  <2>9. tree[n] # "none" => tree'[n] = tree[n]
    BY <2>8 DEF Grows
  <2>10. KindAt(Lookup(path)) = tree[n] /\ KindAt(Lookup(path))' = tree'[n]
    BY <2>7, <2>8, Zenon DEF KindAt
  <2> QED
    BY <2>3, <2>5, <2>6, <2>9, <2>10
<1>3. ~(j = Len(sub)) => j < Len(sub)
  BY DEF IsSub
<1>4. label = "recheck" => j < Len(sub)
  BY DEF MadeOK
<1>5. label = "returned" /\ ~result => j < Len(sub)
  BY <1>3 DEF MadeOK
<1>6. label = "recheck" /\ ClearTo(q, sub, j + 1)' => KindAt(Lookup(sub[j + 1]))' # "none"
  BY <1>2, <1>4 DEF MadeOK
<1>7. label = "returned" /\ ~result /\ ClearTo(q, sub, j + 1)' =>
        KindAt(Lookup(sub[j + 1]))' \in {"file", "link"}
  BY <1>2, <1>5 DEF MadeOK
<1> QED
  BY <1>1, <1>6, <1>7 DEF MadeOK

LEMMA MakingKept ==
  ASSUME TypeInv, TypeInv', NEW q \in Processes, Grows(q), NEW label, NEW c,
         MakingOK(q, label, c)
  PROVE  MakingOK(q, label, c)'
<1> SUFFICES ASSUME c \in CreateCalls, c.path # <<>>
             PROVE  MakingOK(q, label, c)'
  BY Zenon DEF MakingOK
<1>1. c.path \in Paths
  BY DEF CreateCalls
<1>2. PICK sub : sub = SubPaths(c.path)
  BY Zenon
<1>3. IsSub(sub)
  BY <1>1, <1>2, SubPathsIsSub
<1>4. PICK j \in 0..Len(sub) :
        /\ c.todo = SubSeq(sub, j + 1, Len(sub))
        /\ MadeOK(q, label, c.result, sub, j)
  BY <1>2, Zenon DEF MakingOK
<1>5. MadeOK(q, label, c.result, sub, j)'
  BY <1>3, <1>4, MadeOKKept
<1> QED
  BY <1>2, <1>4, <1>5, Zenon DEF MakingOK

LEMMA SubSeqTail ==
  ASSUME NEW S, NEW s \in Seq(S), NEW j \in 0..Len(s), j < Len(s)
  PROVE  /\ SubSeq(s, j + 1, Len(s)) # <<>>
         /\ Head(SubSeq(s, j + 1, Len(s))) = s[j + 1]
         /\ Tail(SubSeq(s, j + 1, Len(s))) = SubSeq(s, (j + 1) + 1, Len(s))
         /\ Tail(SubSeq(s, j + 1, Len(s))) = <<>> <=> j + 1 = Len(s)
<1> DEFINE n == Len(s)
           t == SubSeq(s, j + 1, n)
           u == SubSeq(s, (j + 1) + 1, n)
<1>1. n \in Nat /\ j \in Nat
  BY LenProperties
<1>2. \A i \in (j + 1)..n : s[i] \in S
  BY <1>1, ElementOfSeq
<1>3. /\ t \in Seq(S) /\ Len(t) = (IF j + 1 <= n THEN n - (j + 1) + 1 ELSE 0)
      /\ \A i \in 1..(n - (j + 1) + 1) : t[i] = s[(j + 1) + i - 1]
  BY <1>1, <1>2, SubSeqProperties
<1>4. \A i \in ((j + 1) + 1)..n : s[i] \in S
  BY <1>1, ElementOfSeq
<1>5. /\ u \in Seq(S) /\ Len(u) = (IF (j + 1) + 1 <= n THEN n - ((j + 1) + 1) + 1 ELSE 0)
      /\ \A i \in 1..(n - ((j + 1) + 1) + 1) : u[i] = s[((j + 1) + 1) + i - 1]
  BY <1>1, <1>4, SubSeqProperties
<1> HIDE DEF t, u
<1>6. Len(t) = n - j
  BY <1>1, <1>3
<1>7. Len(u) = (n - j) - 1
  BY <1>1, <1>5
<1>8. t # <<>>
  <2>1. Len(t) # 0
    BY <1>1, <1>6
  <2> QED
    BY <2>1
<1>9. /\ Head(t) = t[1] /\ Tail(t) \in Seq(S) /\ Len(Tail(t)) = Len(t) - 1
      /\ \A i \in 1..Len(Tail(t)) : Tail(t)[i] = t[i + 1]
  BY <1>3, <1>8, HeadTailProperties
<1>10. Head(t) = s[j + 1]
  <2>1. 1 \in 1..(n - (j + 1) + 1) /\ (j + 1) + 1 - 1 = j + 1
    BY <1>1
  <2> QED
    BY <1>3, <1>9, <2>1
<1> DEFINE v == Tail(t)
<1>11. v \in Seq(S) /\ Len(v) = (n - j) - 1 /\ \A i \in 1..Len(v) : v[i] = t[i + 1]
  BY <1>6, <1>9
<1> HIDE DEF v
<1>12. \A i \in 1..Len(v) : v[i] = u[i]
  <2> SUFFICES ASSUME NEW i \in 1..Len(v) PROVE v[i] = u[i]
    OBVIOUS
  <2>1. /\ i + 1 \in 1..(n - (j + 1) + 1) /\ i \in 1..(n - ((j + 1) + 1) + 1)
        /\ (j + 1) + (i + 1) - 1 = ((j + 1) + 1) + i - 1
    BY <1>1, <1>11
  <2>2. v[i] = t[i + 1]
    BY <1>11
  <2>3. t[i + 1] = s[(j + 1) + (i + 1) - 1]
    BY <1>3, <2>1, Zenon
  <2>4. u[i] = s[((j + 1) + 1) + i - 1]
    BY <1>5, <2>1, Zenon
  <2> QED
    BY <2>1, <2>2, <2>3, <2>4
<1>13. v = u
  BY <1>5, <1>7, <1>11, <1>12, SeqEqual
<1>14. v = <<>> <=> j + 1 = n
  <2>1. v = <<>> <=> Len(v) = 0
    BY <1>11, EmptySeq
  <2> QED
    BY <1>1, <1>11, <2>1
<1> QED
  BY <1>8, <1>10, <1>13, <1>14 DEF t, u, v

LEMMA NextPathMakes ==
  ASSUME TypeInv, NEW p \in Processes, NEW c, c = call[p], c \in CreateCalls, NEW sub, IsSub(sub),
         sub = SubPaths(c.path),
         NEW j \in 0..Len(sub), j < Len(sub), c.todo = SubSeq(sub, j + 1, Len(sub)),
         Made(p, sub, j + 1)', NextPath(p)
  PROVE  \A label \in {pc'[p]}, d \in {call'[p]} : MakingOK(p, label, d)'
<1>1. sub \in Seq(Paths) /\ Len(sub) \in Nat
  BY DEF IsSub
<1> DEFINE todo == SubSeq(sub, (j + 1) + 1, Len(sub))
           rest == [c EXCEPT !.todo = todo]
           end == [rest EXCEPT !.result = TRUE]
<1>2. Tail(c.todo) = todo /\ (todo = <<>> <=> j + 1 = Len(sub))
  BY <1>1, SubSeqTail, SMTT(60)
<1>3. PICK m \in 0..Len(sub) : m = j + 1
  BY <1>1
<1>4. \/ /\ todo = <<>> /\ pc'[p] = "returned" /\ call'[p] = end
      \/ /\ todo # <<>> /\ pc'[p] = "exists" /\ call'[p] = rest
  <2>1. [call[p] EXCEPT !.todo = Tail(@)] = rest
    BY <1>2, Zenon
  <2> HIDE DEF todo
  <2>2. rest.todo = todo
    BY Zenon DEF CreateCalls
  <2> HIDE DEF rest
  <2>3. \/ todo = <<>> /\ Go(p, "returned", end)
        \/ todo # <<>> /\ Go(p, "exists", rest)
    BY <2>1, <2>2, Zenon DEF NextPath, Return
  <2> HIDE DEF end
  <2> QED
    BY <2>3, GoIs
<1> HIDE DEF todo
<1>5. rest.path = c.path /\ end.path = c.path /\ end.result = TRUE /\ rest.todo = todo /\ end.todo = todo
  BY Zenon DEF CreateCalls
<1> HIDE DEF rest, end
<1>6. Made(p, sub, m)'
  BY <1>3
<1>7. ASSUME NEW label \in {pc'[p]}, NEW d \in {call'[p]}
      PROVE  MakingOK(p, label, d)'
  <2>1. d.path = c.path /\ d.todo = SubSeq(sub, m + 1, Len(sub))
    BY <1>3, <1>4, <1>5, <1>7 DEF todo
  <2>2. \/ m = Len(sub) /\ label = "returned" /\ d.result = TRUE
        \/ m < Len(sub) /\ label = "exists"
    BY <1>1, <1>2, <1>3, <1>4, <1>5, <1>7
  <2>3. MadeOK(p, label, d.result, sub, m)'
    BY <1>1, <1>6, <2>2 DEF MadeOK
  <2> QED
    BY <2>1, <2>3, Zenon DEF MakingOK
<1> QED
  BY <1>7

(* Where Lookup leads is in a directory, or is one. *)
LEMMA InDirectory ==
  ASSUME TypeInv, NEW path \in Paths, path # <<>>, Lookup(path) # NoNode
  PROVE  KindAt(Lookup(path)) # "none" \/ tree[Front(Lookup(path))] = "dir"
<1> DEFINE d == DirectoryName(path)
           node == Lookup(path)
           name == LastName(path)
<1>1. /\ tree \in [Nodes -> Kinds] /\ tree[Root] = "dir"
      /\ \A n \in Nodes \ {Root} : tree[n] # "none" => tree[Front(n)] = "dir"
  BY DEF TypeInv, TypeOK
<1>2. node \in Nodes /\ NoNode \notin Nodes /\ KindAt(node) = tree[node]
  BY LookupType, NodesAssumption DEF Places, KindAt
<1>3. LookupFinds(path)
  BY <1>1, PathFinds
<1>4. CASE IsRootPath(path)
  <2>1. node = Root
    BY <1>3, <1>4, Zenon DEF LookupFinds
  <2> QED
    BY <1>1, <1>2, <2>1
<1>5. CASE ~IsRootPath(path)
  <2>1. DirectoryExists(d)
    BY <1>2, <1>3, <1>5, Zenon DEF LookupFinds
  <2>2. PICK from : from = Target(d)
    BY Zenon
  <2>3. node = EntryOf(from, name)
    BY <1>3, <1>5, <2>1, <2>2, Zenon DEF LookupFinds
  <2>4. from # NoNode /\ tree[from] = "dir" /\ from \in Nodes
    <3>1. d \in Paths
      BY DirectoryNameShorter
    <3>2. from \in Places
      BY <2>2, <3>1, LookupType
    <3> QED
      BY <2>1, <2>2, <3>2 DEF DirectoryExists, KindAt, Places
  <2> HIDE DEF node, name, d
  <2>5. \/ node = from
        \/ node = Root
        \/ from # Root /\ node = Front(from)
        \/ node = Append(from, name)
    BY <1>2, <2>3, TokensDiffer, Zenon DEF EntryOf
  <2>6. CASE node = from
    BY <1>2, <2>4, <2>6 DEF node
  <2>7. CASE node = Root
    BY <1>1, <1>2, <2>7 DEF node
  <2>8. CASE from # Root /\ node = Front(from)
    <3>1. tree[node] = "dir"
      BY <1>1, <2>4, <2>8
    <3> QED
      BY <1>2, <3>1 DEF node
  <2>9. CASE node = Append(from, name)
    <3>1. from \in Seq(Names) /\ node \in Seq(Names)
      BY <1>2, <2>4, NodesAssumption
    <3>2. Front(node) = from
      <4>1. Len(from) \in Nat /\ Len(node) = Len(from) + 1 /\ \A i \in 1..Len(from) : node[i] = from[i]
        <5> DEFINE S == Names \cup {name}
        <5>1. from \in Seq(S) /\ name \in S
          BY <3>1
        <5> HIDE DEF S
        <5> QED
          BY <2>9, <5>1, AppendProperties, LenProperties
      <4>2. Front(node) = SubSeq(node, 1, Len(from))
        BY <4>1 DEF Front
      <4> DEFINE t == SubSeq(node, 1, Len(from))
      <4>3. \A i \in 1..Len(from) : node[i] \in Names
        BY <3>1, <4>1, ElementOfSeq
      <4>4. t \in Seq(Names) /\ Len(t) = Len(from) /\ \A i \in 1..Len(from) : t[i] = node[i]
        BY <4>1, <4>3, SubSeqProperties
      <4> HIDE DEF t
      <4>5. t = from
        BY <3>1, <4>1, <4>4, SeqEqual
      <4> QED
        BY <4>2, <4>5 DEF t
    <3> QED
      BY <2>4, <3>2 DEF node
  <2> QED
    BY <2>5, <2>6, <2>7, <2>8, <2>9
<1> QED
  BY <1>4, <1>5

(* A call that makes directories, before a step of its process. *)
NextMade(p, c, sub, j) ==
  /\ j < Len(sub) /\ c.todo = SubSeq(sub, j + 1, Len(sub))
  /\ MadeOK(p, pc[p], c.result, sub, j)
  /\ Head(c.todo) = sub[j + 1]
  /\ sub[j + 1] \in Paths /\ sub[j + 1] # <<>>

LEMMA MakingIs ==
  ASSUME FilesInv, CreatorsInv, NEW p \in Processes, NEW c, c = call[p],
         pc[p] \in {"exists", "mkdir", "recheck"}, c.path # <<>>
  PROVE  /\ IsSub(SubPaths(c.path))
         /\ \E j \in 0..Len(SubPaths(c.path)) : NextMade(p, c, SubPaths(c.path), j)
<1>1. c \in CreateCalls /\ c.path \in Paths
  BY DEF FilesInv, TypeInv, PlaceOK, CreateCalls
<1>2. MakingOK(p, pc[p], c)
  BY Zenon DEF CreatorsInv
<1>3. PICK sub : sub = SubPaths(c.path)
  BY Zenon
<1>4. IsSub(sub)
  BY <1>1, <1>3, SubPathsIsSub
<1>5. PICK j \in 0..Len(sub) :
        /\ c.todo = SubSeq(sub, j + 1, Len(sub))
        /\ MadeOK(p, pc[p], c.result, sub, j)
  BY <1>1, <1>2, <1>3, Zenon DEF MakingOK
<1>6. j < Len(sub)
  BY <1>5 DEF MadeOK
<1>7. sub \in Seq(Paths) /\ Len(sub) \in Nat
  BY <1>4 DEF IsSub
<1>8. Head(c.todo) = sub[j + 1]
  BY <1>5, <1>6, <1>7, SubSeqTail
<1>9. j + 1 \in 1..Len(sub)
  BY <1>5, <1>6, <1>7
<1>10. sub[j + 1] \in Paths /\ sub[j + 1] # <<>>
  BY <1>4, <1>7, <1>9, ElementOfSeq DEF IsSub
<1>11. NextMade(p, c, sub, j)
  BY <1>5, <1>6, <1>8, <1>10, Zenon DEF NextMade
<1> QED
  BY <1>3, <1>4, <1>11, Zenon

LEMMA GrowsUnchanged ==
  ASSUME NEW q, UNCHANGED <<kernel, history>>
  PROVE  Grows(q)
  BY Zenon DEF Grows, kernel, history

(* The next path has been done. *)
LEMMA MadeMore ==
  ASSUME NEW q, NEW sub, IsSub(sub), NEW j \in 0..Len(sub), j < Len(sub),
         Made(q, sub, j)', ClearTo(q, sub, j + 1)' => DirectoryExists(sub[j + 1])'
  PROVE  Made(q, sub, j + 1)'
<1>1. Len(sub) \in Nat
  BY DEF IsSub
<1>2. PICK m : m = j + 1
  BY Zenon
<1>3. ASSUME NEW k \in 1..m, ClearTo(q, sub, k)' PROVE DirectoryExists(sub[k])'
  <2>1. CASE k = m
    BY <1>2, <1>3, <2>1, Zenon
  <2>2. CASE k # m
    <3>1. k \in 1..j
      BY <1>1, <1>2, <2>2
    <3> QED
      BY <1>3, <3>1, Zenon DEF Made
  <2> QED
    BY <2>1, <2>2
<1>4. Made(q, sub, m)'
  BY <1>3, Zenon DEF Made
<1> QED
  BY <1>2, <1>4

LEMMA CreateCallIs ==
  ASSUME NEW c \in CreateCalls
  PROVE  LET rest == [c EXCEPT !.todo = Tail(@)]
         IN /\ rest.path = c.path /\ [rest EXCEPT !.result = TRUE].path = c.path
            /\ [c EXCEPT !.result = FALSE].path = c.path
            /\ [c EXCEPT !.result = FALSE].todo = c.todo
            /\ [c EXCEPT !.result = FALSE].result = FALSE
  BY Zenon DEF CreateCalls

LEMMA CreatingGoes ==
  ASSUME TypeInv, NEW p \in Processes, NEW c, c = call[p],
         CheckExists(p) \/ MakeDirectory(p) \/ CheckAgain(p)
  PROVE  /\ pc[p] \in {"exists", "mkdir", "recheck"} /\ c \in CreateCalls
         /\ call'[p].path = c.path
<1>1. pc[p] \in {"exists", "mkdir", "recheck"}
  BY Zenon DEF CheckExists, MakeDirectory, CheckAgain
<1>2. c \in CreateCalls
  BY <1>1 DEF TypeInv, PlaceOK
<1> DEFINE rest == [c EXCEPT !.todo = Tail(@)]
<1>3. \/ \E label : Go(p, label, [rest EXCEPT !.result = TRUE])
      \/ \E label : Go(p, label, rest)
      \/ \E label : Go(p, label, c)
      \/ \E label : Go(p, label, [c EXCEPT !.result = FALSE])
  BY Zenon DEF CheckExists, MakeDirectory, CheckAgain, NextPath, Return
<1>4. call'[p].path = c.path
  <2>1. /\ rest.path = c.path /\ [rest EXCEPT !.result = TRUE].path = c.path
        /\ [c EXCEPT !.result = FALSE].path = c.path
    BY <1>2, CreateCallIs
  <2> HIDE DEF rest
  <2>2. \/ call'[p] = [rest EXCEPT !.result = TRUE]
        \/ call'[p] = rest
        \/ call'[p] = c
        \/ call'[p] = [c EXCEPT !.result = FALSE]
    BY <1>3, GoIs, Zenon
  <2> QED
    BY <2>1, <2>2, Zenon
<1> QED
  BY <1>1, <1>2, <1>4

LEMMA MakeDirectoryGrows ==
  ASSUME TypeInv, NEW p \in Processes, MakeDirectory(p), NEW q \in Processes
  PROVE  Grows(q)
<1> DEFINE node == Lookup(Head(call[p].todo))
<1>1. \/ /\ node # NoNode /\ KindAt(node) = "none"
         /\ tree' = [tree EXCEPT ![node] = "dir"] /\ clear' = clear
      \/ UNCHANGED <<kernel, history>>
  BY Zenon DEF MakeDirectory
<1>2. CASE UNCHANGED <<kernel, history>>
  BY <1>2, GrowsUnchanged
<1>3. CASE /\ node # NoNode /\ KindAt(node) = "none"
           /\ tree' = [tree EXCEPT ![node] = "dir"] /\ clear' = clear
  <2>1. tree \in [Nodes -> Kinds] /\ clear[q] \subseteq Nodes
    BY DEF TypeInv, TypeOK
  <2> HIDE DEF node
  <2> QED
    BY <1>3, <2>1 DEF Grows, KindAt
<1> QED
  BY <1>1, <1>2, <1>3

LEMMA CreatingMakes ==
  ASSUME FilesInv, FilesInv', CreatorsInv, NEW p \in Processes,
         CheckExists(p) \/ MakeDirectory(p) \/ CheckAgain(p)
  PROVE  \A label \in {pc'[p]}, d \in {call'[p]} : MakingOK(p, label, d)'
<1>0. TypeInv /\ TypeInv'
  BY DEF FilesInv
<1>1. PICK c : c = call[p]
  BY Zenon
<1>2. /\ pc[p] \in {"exists", "mkdir", "recheck"} /\ c \in CreateCalls
      /\ call'[p].path = c.path
  BY <1>0, <1>1, CreatingGoes
<1>3. Grows(p)
  <2>1. CASE MakeDirectory(p)
    BY <1>0, <2>1, MakeDirectoryGrows
  <2>2. CASE CheckExists(p) \/ CheckAgain(p)
    <3>1. UNCHANGED <<kernel, history>>
      BY <2>2, Zenon DEF CheckExists, CheckAgain
    <3> QED
      BY <3>1, GrowsUnchanged
  <2> QED
    BY <2>1, <2>2
<1>4. CASE c.path = <<>>
  BY <1>2, <1>4, Zenon DEF MakingOK
<1>5. CASE c.path # <<>>
  <2>0. IsSub(SubPaths(c.path)) /\ \E j \in 0..Len(SubPaths(c.path)) : NextMade(p, c, SubPaths(c.path), j)
    BY <1>1, <1>2, <1>5, MakingIs
  <2>1. PICK sub : IsSub(sub) /\ sub = SubPaths(c.path)
    BY <2>0
  <2>2. PICK j \in 0..Len(sub) :
                /\ j < Len(sub) /\ c.todo = SubSeq(sub, j + 1, Len(sub))
                /\ MadeOK(p, pc[p], c.result, sub, j)
                /\ Head(c.todo) = sub[j + 1]
                /\ sub[j + 1] \in Paths /\ sub[j + 1] # <<>>
    BY <2>0, <2>1, Zenon DEF NextMade
  <2>3. Made(p, sub, j) /\ Made(p, sub, j)'
    BY <1>0, <1>3, <2>1, <2>2, MadeKept DEF MadeOK
  <2>4. PICK k \in 0..Len(sub) : k = j + 1
    BY <2>1, <2>2, SMTT(60) DEF IsSub
  <2>5. k <= j + 1 /\ k \in 1..k
    BY <2>2, <2>4
  <2>6. PICK path : path = sub[k]
    BY Zenon
  <2>7. PICK node : node = Lookup(path)
    BY Zenon
  <2>8. path \in Paths /\ path # <<>> /\ Head(c.todo) = path
    BY <2>2, <2>4, <2>6
  <2>9. ASSUME ClearTo(p, sub, k)'
        PROVE  /\ ClearTo(p, sub, k) /\ Lookup(path)' = node /\ Target(path)' = Target(path)
               /\ node \in clear'[p] /\ Target(path)' \in clear'[p]
    <3>1. /\ Lookup(sub[k])' = Lookup(sub[k]) /\ Target(sub[k])' = Target(sub[k])
          /\ Lookup(sub[k])' \in clear'[p] /\ Target(sub[k])' \in clear'[p]
          /\ ClearTo(p, sub, k)
      BY <1>0, <1>3, <2>1, <2>2, <2>3, <2>5, <2>9, SameLookups
    <3> QED
      BY <2>6, <2>7, <3>1, Zenon
  <2>10. \A n \in clear'[p] : n # NoNode /\ n \in Nodes /\ tree[n] \in Kinds
    BY <1>0, NodesAssumption DEF TypeInv, TypeOK
  <2>11. \A n \in clear'[p] : tree[n] # "none" => tree'[n] = tree[n]
    BY <1>3 DEF Grows
  <2>12. ASSUME NextPath(p), ClearTo(p, sub, k)' => DirectoryExists(path)'
         PROVE  \A label \in {pc'[p]}, d \in {call'[p]} : MakingOK(p, label, d)'
    <3>1. Made(p, sub, j + 1)'
      BY <2>1, <2>2, <2>3, <2>4, <2>6, <2>12, MadeMore
    <3> QED
      BY <1>0, <1>1, <1>2, <2>1, <2>2, <2>12, <3>1, NextPathMakes
  <2>13. ASSUME DirectoryExists(path), ClearTo(p, sub, k)' PROVE DirectoryExists(path)'
    <3>1. PICK n : n = Target(path)
      BY Zenon
    <3>2. Target(path)' = n /\ n \in clear'[p] /\ n # NoNode
      BY <2>9, <2>10, <2>13, <3>1, Zenon
    <3>3. tree[n] = "dir"
      BY <2>13, <3>1, <3>2, Zenon DEF DirectoryExists, KindAt
    <3>4. tree'[n] = "dir"
      BY <2>11, <3>2, <3>3
    <3> QED
      BY <3>2, <3>4, Zenon DEF DirectoryExists, KindAt
  <2>14. ASSUME NEW place \in {"mkdir", "recheck"}, Go(p, place, c), MadeOK(p, place, c.result, sub, j)'
         PROVE  \A label \in {pc'[p]}, d \in {call'[p]} : MakingOK(p, label, d)'
    <3>1. pc'[p] = place /\ call'[p] = c
      BY <1>0, <2>14, GoIs
    <3>2. MakingOK(p, place, c)'
      BY <2>1, <2>2, <2>14, Zenon DEF MakingOK
    <3> QED
      BY <3>1, <3>2, Zenon
  <2>15. CASE CheckExists(p)
    <3>1. (DirectoryExists(path) /\ NextPath(p)) \/ Go(p, "mkdir", c)
      BY <1>1, <2>8, <2>15, Zenon DEF CheckExists
    <3>2. CASE Go(p, "mkdir", c)
      <4>1. MadeOK(p, "mkdir", c.result, sub, j)'
        BY <2>2, <2>3 DEF MadeOK
      <4> QED
        BY <2>14, <3>2, <4>1
    <3> QED
      BY <2>12, <2>13, <3>1, <3>2
  <2>16. CASE CheckAgain(p)
    <3>1. \/ DirectoryExists(path) /\ NextPath(p)
          \/ ~DirectoryExists(path) /\ Go(p, "returned", [c EXCEPT !.result = FALSE])
      BY <1>1, <2>8, <2>16, Zenon DEF CheckAgain, Return
    <3>2. CASE ~DirectoryExists(path) /\ Go(p, "returned", [c EXCEPT !.result = FALSE])
      <4>1. PICK d : d = [c EXCEPT !.result = FALSE]
        BY Zenon
      <4>2. d.path = c.path /\ d.todo = c.todo /\ d.result = FALSE
        BY <1>2, <4>1, CreateCallIs
      <4>3. pc'[p] = "returned" /\ call'[p] = d
        BY <1>0, <3>2, <4>1, GoIs
      <4>4. pc[p] = "recheck"
        BY <2>16 DEF CheckAgain
      <4>5. ASSUME ClearTo(p, sub, k)' PROVE KindAt(Lookup(path))' \in {"file", "link"}
        <5>1. KindAt(node) # "none"
          BY <2>2, <2>4, <2>6, <2>7, <2>9, <4>4, <4>5 DEF MadeOK
        <5>2. node # NoNode /\ tree[node] # "none" /\ tree'[node] = tree[node] /\ tree[node] \in Kinds
          BY <2>9, <2>10, <2>11, <4>5, <5>1 DEF KindAt
        <5>3. tree[node] # "dir"
          <6>1. ASSUME tree[node] = "dir" PROVE FALSE
            <7>1. Target(path) = node
              BY <2>7, <6>1 DEF Target, Follow
            <7> QED
              BY <3>2, <5>2, <6>1, <7>1, Zenon DEF DirectoryExists, KindAt
          <6> QED
            BY <6>1
        <5>4. KindAt(Lookup(path))' = tree'[node]
          BY <2>9, <4>5, <5>2, Zenon DEF KindAt
        <5> QED
          BY <5>2, <5>3, <5>4 DEF Kinds
      <4>6. MadeOK(p, "returned", FALSE, sub, j)'
        <5>1. ~(j = Len(sub))
          BY <2>1, <2>2 DEF IsSub
        <5>2. ClearTo(p, sub, j + 1)' => KindAt(Lookup(sub[j + 1]))' \in {"file", "link"}
          BY <2>4, <2>6, <4>5
        <5> QED
          BY <2>3, <5>1, <5>2 DEF MadeOK
      <4>7. MakingOK(p, "returned", d)'
        BY <2>1, <2>2, <4>2, <4>6, Zenon DEF MakingOK
      <4> QED
        BY <4>3, <4>7, Zenon
    <3> QED
      BY <2>12, <2>13, <3>1, <3>2
  <2>17. CASE MakeDirectory(p)
    <3>1. \/ /\ KindAt(node) = "none" /\ node # NoNode /\ tree[Front(node)] = "dir"
             /\ tree' = [tree EXCEPT ![node] = "dir"] /\ NextPath(p)
          \/ /\ ~(KindAt(node) = "none" /\ node # NoNode /\ tree[Front(node)] = "dir")
             /\ Go(p, "recheck", c)
      BY <1>1, <2>7, <2>8, <2>17, Zenon DEF MakeDirectory
    <3>2. CASE /\ KindAt(node) = "none" /\ node # NoNode /\ tree[Front(node)] = "dir"
               /\ tree' = [tree EXCEPT ![node] = "dir"] /\ NextPath(p)
      <4>1. ASSUME ClearTo(p, sub, k)' PROVE DirectoryExists(path)'
        <5>1. tree'[node] = "dir" /\ Lookup(path)' = node
          BY <1>0, <2>9, <2>10, <3>2, <4>1 DEF TypeInv, TypeOK
        <5>2. Target(path)' = node
          BY <5>1 DEF Target, Follow
        <5> QED
          BY <3>2, <5>1, <5>2, Zenon DEF DirectoryExists, KindAt
      <4> QED
        BY <2>12, <3>2, <4>1
    <3>3. CASE /\ ~(KindAt(node) = "none" /\ node # NoNode /\ tree[Front(node)] = "dir")
               /\ Go(p, "recheck", c)
      <4>1. ASSUME ClearTo(p, sub, k)' PROVE KindAt(Lookup(path))' # "none"
        <5>1. node # NoNode
          BY <2>9, <2>10, <4>1
        <5>2. KindAt(node) # "none" \/ tree[Front(node)] = "dir"
          BY <1>0, <2>7, <2>8, <5>1, InDirectory
        <5>3. tree[node] # "none"
          BY <3>3, <5>1, <5>2, Zenon DEF KindAt
        <5>4. tree'[node] # "none"
          BY <2>9, <2>11, <4>1, <5>3
        <5>5. KindAt(Lookup(path))' = tree'[node]
          BY <2>9, <4>1, <5>1, Zenon DEF KindAt
        <5> QED
          BY <5>4, <5>5
      <4>2. MadeOK(p, "recheck", c.result, sub, j)'
        <5>1. ClearTo(p, sub, j + 1)' => KindAt(Lookup(sub[j + 1]))' # "none"
          BY <2>4, <2>6, <4>1
        <5> QED
          BY <2>2, <2>3, <5>1 DEF MadeOK
      <4> QED
        BY <2>14, <3>3, <4>2
    <3> QED
      BY <3>1, <3>2, <3>3
  <2> QED
    BY <2>15, <2>16, <2>17
<1> QED
  BY <1>4, <1>5
-----------------------------------------------------------------------------
(* What the other steps mean for the calls that make directories. *)

(* Nothing is made or removed where the process's call has not been        *)
(* disturbed.                                                              *)
LEMMA GrowsSame ==
  ASSUME NEW q, clear'[q] \subseteq clear[q], \A n \in clear'[q] : tree'[n] = tree[n]
  PROVE  Grows(q)
  BY DEF Grows

LEMMA OpenWriteGrows ==
  ASSUME TypeInv, NEW p \in Processes, OpenWrite(p), NEW q \in Processes, q # p
  PROVE  Grows(q)
<1> DEFINE node == Target(call[p].path)
           made == tree[node] = "none"
           file == IF made THEN Len(content) + 1 ELSE inode[node]
<1>1. /\ tree[node] \in {"none", "file"} /\ tree' = [tree EXCEPT ![node] = "file"]
      /\ IF made THEN Spoil({p}, {node}) ELSE Disturb({p}, NodesOf(file)) /\ UNCHANGED clear
  BY Zenon DEF OpenWrite
<1>2. tree \in [Nodes -> Kinds] /\ clear \in [Processes -> SUBSET Nodes]
  BY DEF TypeInv, TypeOK
<1> HIDE DEF node, file
<1>3. CASE made
  <2>1. clear'[q] = clear[q] \ {node}
    BY <1>1, <1>2, <1>3 DEF Spoil, Unless
  <2> QED
    BY <1>1, <1>2, <2>1, GrowsSame
<1>4. CASE ~made
  <2>1. clear'[q] = clear[q] /\ tree[node] = "file"
    BY <1>1, <1>4
  <2> QED
    BY <1>1, <1>2, <2>1, GrowsSame
<1> QED
  BY <1>3, <1>4

LEMMA RemoveNodeGrows ==
  ASSUME TypeInv, NEW n \in Nodes, RemoveNode(n), NEW q \in Processes
  PROVE  Grows(q)
<1>1. tree' = [tree EXCEPT ![n] = "none"] /\ Spoil({}, {n})
  BY Zenon DEF RemoveNode
<1>2. tree \in [Nodes -> Kinds] /\ clear \in [Processes -> SUBSET Nodes]
  BY DEF TypeInv, TypeOK
<1>3. clear'[q] = clear[q] \ {n}
  BY <1>1, <1>2 DEF Spoil, Unless
<1> QED
  BY <1>1, <1>2, <1>3, GrowsSame

LEMMA KernelSame ==
  ASSUME NEW q, UNCHANGED tree, clear'[q] = clear[q]
  PROVE  Grows(q)
  BY DEF Grows

(* Every step of p lets the calls of the others grow. *)
LEMMA StepGrows ==
  ASSUME TypeInv, NEW p \in Processes, Step(p), NEW q \in Processes, q # p
  PROVE  Grows(q)
<1>1. CASE OpenWrite(p)
  BY <1>1, OpenWriteGrows
<1>2. CASE Write(p)
  <2>1. UNCHANGED <<tree, inode, clear>>
    BY <1>2, Zenon DEF Write
  <2> QED
    BY <2>1, KernelSame
<1>3. CASE MakeDirectory(p)
  BY <1>3, MakeDirectoryGrows
<1>4. CASE \/ OpenRead(p) \/ Fstat(p) \/ Read(p) \/ ReadFails(p)
           \/ OpenWriteFails(p) \/ WriteFails(p) \/ Close(p)
           \/ CheckExists(p) \/ CheckAgain(p)
  <2>1. UNCHANGED <<kernel, history>>
    BY <1>4, Zenon DEF OpenRead, Fstat, Read, ReadFails, OpenWriteFails, WriteFails, Close,
                       CheckExists, CheckAgain
  <2> QED
    BY <2>1, GrowsUnchanged
<1>5. CASE \/ NextEntry(p) \/ NextDirectory(p) \/ ReadEntry(p) \/ StatEntry(p) \/ EndDirectory(p)
  BY <1>5, ListSteps, GrowsUnchanged
<1> QED
  BY <1>1, <1>2, <1>3, <1>4, <1>5, Zenon DEF Step

(* A step changes its process's place and call, and the call makes         *)
(* directories only if it did before.                                      *)
StaysOther(p) ==
  \E label : \E record :
    /\ Go(p, label, record)
    /\ record \in CreateCalls => call[p] \in CreateCalls
    /\ record \in ListCalls => call[p] \in ListCalls

LEMMA OpenWriteStaysOther ==
  ASSUME TypeInv, NEW p \in Processes, OpenWrite(p)
  PROVE  StaysOther(p)
<1>1. PICK c : c = call[p]
  BY Zenon
<1>2. c \in WriteCalls
  BY <1>1, Zenon DEF OpenWrite, TypeInv, PlaceOK
<1>3. PICK file : \E label : Go(p, label, [c EXCEPT !.inode = file])
  BY <1>1, Zenon DEF OpenWrite
<1>4. PICK d : d = [c EXCEPT !.inode = file]
  BY Zenon
<1>5. d.op = "write"
  BY <1>2, <1>4, Zenon DEF WriteCalls
<1>6. d \notin CreateCalls /\ d \notin ListCalls
  BY <1>5 DEF CreateCalls, ListCalls
<1> QED
  BY <1>3, <1>4, <1>6, Zenon DEF StaysOther

LEMMA WriteStaysOther ==
  ASSUME TypeInv, NEW p \in Processes, Write(p)
  PROVE  StaysOther(p)
<1>1. PICK c : c = call[p]
  BY Zenon
<1>2. c \in WriteCalls
  BY <1>1, Zenon DEF Write, TypeInv, PlaceOK
<1>3. PICK stored, total : \E label : Go(p, label, [c EXCEPT !.stored = stored, !.total = total])
  BY <1>1, Zenon DEF Write
<1>4. PICK d : d = [c EXCEPT !.stored = stored, !.total = total]
  BY Zenon
<1>5. d.op = "write"
  BY <1>2, <1>4, Zenon DEF WriteCalls
<1>6. d \notin CreateCalls /\ d \notin ListCalls
  BY <1>5 DEF CreateCalls, ListCalls
<1> QED
  BY <1>3, <1>4, <1>6, Zenon DEF StaysOther

LEMMA StepStaysOther ==
  ASSUME FilesInv, NEW p \in Processes, Step(p)
  PROVE  StaysOther(p)
<1>0. TypeInv
  BY DEF FilesInv
<1>1. CASE OpenWrite(p) \/ Write(p)
  BY <1>0, <1>1, OpenWriteStaysOther, WriteStaysOther
<1>2. CASE ~(OpenWrite(p) \/ Write(p))
  <2>1. Steps(p)
    <3>1. CASE OpenRead(p) \/ Fstat(p) \/ Read(p) \/ ReadFails(p)
      BY <3>1, OpenReadSteps, FstatSteps, ReadSteps, ReadFailsSteps
    <3>2. CASE OpenWriteFails(p) \/ WriteFails(p) \/ Close(p)
      BY <3>2, OpenWriteFailsSteps, WriteFailsSteps, CloseSteps
    <3>3. CASE CheckExists(p) \/ MakeDirectory(p) \/ CheckAgain(p)
      BY <1>0, <3>3, CreateSteps
    <3>4. CASE NextEntry(p) \/ NextDirectory(p) \/ ReadEntry(p) \/ StatEntry(p) \/ EndDirectory(p)
      BY <1>0, <3>4, ListSteps
    <3> QED
      BY <1>2, <3>1, <3>2, <3>3, <3>4, Zenon DEF Step
  <2> QED
    BY <2>1, Zenon DEF Steps, StaysOther
<1> QED
  BY <1>1, <1>2

LEMMA StepMakes ==
  ASSUME FilesInv, FilesInv', CreatorsInv, NEW p \in Processes, Step(p)
  PROVE  CreatorsInv'
<1>0. TypeInv /\ TypeInv'
  BY DEF FilesInv
<1>1. PICK place : \E record :
        Go(p, place, record) /\ (record \in CreateCalls => call[p] \in CreateCalls)
  BY StepStaysOther, Zenon DEF StaysOther
<1>2. PICK record :
        Go(p, place, record) /\ (record \in CreateCalls => call[p] \in CreateCalls)
  BY <1>1
<1>3. /\ pc'[p] = place /\ call'[p] = record
      /\ \A q \in Processes : q # p => pc'[q] = pc[q] /\ call'[q] = call[q]
  BY <1>0, <1>2, GoIs
<1> SUFFICES ASSUME NEW q \in Processes
             PROVE  \A label \in {pc'[q]}, d \in {call'[q]} : MakingOK(q, label, d)'
  BY Zenon DEF CreatorsInv
<1>4. CASE q # p
  <2>1. PICK label : label = pc[q]
    BY Zenon
  <2>2. PICK d : d = call[q]
    BY Zenon
  <2>3. MakingOK(q, label, d)
    BY <2>1, <2>2, Zenon DEF CreatorsInv
  <2>4. MakingOK(q, label, d)'
    BY <1>0, <1>4, <2>3, StepGrows, MakingKept
  <2> QED
    BY <1>3, <1>4, <2>1, <2>2, <2>4, Zenon
<1>5. CASE q = p /\ (CheckExists(p) \/ MakeDirectory(p) \/ CheckAgain(p))
  BY <1>5, CreatingMakes, Zenon
<1>6. CASE q = p /\ ~(CheckExists(p) \/ MakeDirectory(p) \/ CheckAgain(p))
  <2>1. pc[p] \in {"open", "fstat", "read", "create", "write", "close", "next", "readdir", "stat"}
    BY <1>6, Zenon DEF Step, OpenRead, Fstat, Read, ReadFails, OpenWrite, OpenWriteFails, Write,
                       WriteFails, Close, NextEntry, NextDirectory, ReadEntry, StatEntry,
                       EndDirectory
  <2>2. call[p] \in ReadCalls \/ call[p] \in WriteCalls \/ call[p] \in ListCalls
    BY <1>0, <2>1 DEF TypeInv, PlaceOK
  <2>3. record \notin CreateCalls
    BY <1>2, <2>2, OpsDiffer
  <2>4. MakingOK(p, place, record)'
    BY <2>3, Zenon DEF MakingOK
  <2> QED
    BY <1>3, <1>6, <2>4, Zenon
<1> QED
  BY <1>4, <1>5, <1>6

(* A call that begins has made nothing yet. *)
LEMMA BeginMakes ==
  ASSUME FilesInv, FilesInv', CreatorsInv, NEW p \in Processes, NEW place \in Labels, NEW record,
         Begin(p, place, record), MakingOK(p, place, record)'
  PROVE  CreatorsInv'
<1>0. TypeInv /\ TypeInv'
  BY DEF FilesInv
<1>1. /\ pc'[p] = place /\ call'[p] = record /\ UNCHANGED kernel
      /\ \A q \in Processes : q # p =>
           pc'[q] = pc[q] /\ call'[q] = call[q] /\ clear'[q] = clear[q]
  BY <1>0, BeginIs
<1> SUFFICES ASSUME NEW q \in Processes
             PROVE  \A label \in {pc'[q]}, d \in {call'[q]} : MakingOK(q, label, d)'
  BY Zenon DEF CreatorsInv
<1>2. CASE q = p
  BY <1>1, <1>2, Zenon
<1>3. CASE q # p
  <2>1. PICK label : label = pc[q]
    BY Zenon
  <2>2. PICK d : d = call[q]
    BY Zenon
  <2>3. MakingOK(q, label, d)
    BY <2>1, <2>2, Zenon DEF CreatorsInv
  <2>4. Grows(q)
    BY <1>1, <1>3, KernelSame, Zenon DEF kernel
  <2>5. MakingOK(q, label, d)'
    BY <1>0, <2>3, <2>4, MakingKept
  <2> QED
    BY <1>1, <1>3, <2>1, <2>2, <2>5, Zenon
<1> QED
  BY <1>2, <1>3

LEMMA OtherBegins ==
  ASSUME FilesInv, FilesInv', CreatorsInv, NEW p \in Processes,
         BeginRead(p) \/ BeginWrite(p) \/ BeginEnumerate(p)
  PROVE  CreatorsInv'
<1>0. \E place \in {"open", "create", "next"} : \E record :
        Begin(p, place, record) /\ record.op \in {"read", "write", "list"}
  <2>1. CASE BeginRead(p)
    <3>1. PICK path \in ReadPaths, max \in Limits :
            \E d : Begin(p, "open", d) /\ d =
                 [op |-> "read", path |-> path, max |-> max, inode |-> 0,
                  size |-> 0, soFar |-> 0, total |-> 0, out |-> <<>>,
                  failed |-> FALSE, result |-> FALSE]
      BY <2>1, Zenon DEF BeginRead
    <3>2. PICK d : Begin(p, "open", d) /\ d =
                 [op |-> "read", path |-> path, max |-> max, inode |-> 0,
                  size |-> 0, soFar |-> 0, total |-> 0, out |-> <<>>,
                  failed |-> FALSE, result |-> FALSE]
      BY <3>1
    <3>3. d.op = "read"
      BY <3>2
    <3> QED
      BY <3>2, <3>3, Zenon
  <2>2. CASE BeginWrite(p)
    <3>1. PICK path \in WritePaths, data \in Data :
            \E d : Begin(p, "create", d) /\ d =
                 [op |-> "write", path |-> path, data |-> data, inode |-> 0,
                  stored |-> 0, total |-> 0, failed |-> FALSE, result |-> FALSE]
      BY <2>2, Zenon DEF BeginWrite
    <3>2. PICK d : Begin(p, "create", d) /\ d =
                 [op |-> "write", path |-> path, data |-> data, inode |-> 0,
                  stored |-> 0, total |-> 0, failed |-> FALSE, result |-> FALSE]
      BY <3>1
    <3>3. d.op = "write"
      BY <3>2
    <3> QED
      BY <3>2, <3>3, Zenon
  <2>3. CASE BeginEnumerate(p)
    <3>1. PICK e \in Enumerations :
            \E d : Begin(p, "next", d) /\ d =
                 [op |-> "list", recursive |-> e.recursive, type |-> e.type,
                  start |-> e.root, pattern |-> e.pattern, root |-> e.root,
                  dir_entries |-> <<>>, current |-> 1, pending |-> <<e.root>>,
                  entries |-> <<>>, left |-> {}, seen |-> {}, listed |-> <<>>,
                  result |-> FALSE]
      BY <2>3, Zenon DEF BeginEnumerate
    <3>2. PICK d : Begin(p, "next", d) /\ d =
                 [op |-> "list", recursive |-> e.recursive, type |-> e.type,
                  start |-> e.root, pattern |-> e.pattern, root |-> e.root,
                  dir_entries |-> <<>>, current |-> 1, pending |-> <<e.root>>,
                  entries |-> <<>>, left |-> {}, seen |-> {}, listed |-> <<>>,
                  result |-> FALSE]
      BY <3>1
    <3>3. d.op = "list"
      BY <3>2
    <3> QED
      BY <3>2, <3>3, Zenon
  <2> QED
    BY <2>1, <2>2, <2>3
<1>1. PICK place \in {"open", "create", "next"} : \E record :
        Begin(p, place, record) /\ record.op \in {"read", "write", "list"}
  BY <1>0, Zenon
<1>2. PICK record : Begin(p, place, record) /\ record.op \in {"read", "write", "list"}
  BY <1>1
<1>3. record \notin CreateCalls
  BY <1>2 DEF CreateCalls
<1>4. MakingOK(p, place, record)'
  BY <1>3, Zenon DEF MakingOK
<1>5. place \in Labels
  BY DEF Labels
<1> QED
  BY <1>2, <1>4, <1>5, BeginMakes

LEMMA CreateBegins ==
  ASSUME FilesInv, FilesInv', CreatorsInv, NEW p \in Processes, BeginCreate(p)
  PROVE  CreatorsInv'
<1>1. PICK path \in DirPaths :
        Begin(p, "exists", [op |-> "mkdir", path |-> path, todo |-> SubPaths(path),
                            result |-> FALSE])
  BY Zenon DEF BeginCreate
<1>2. PICK c : c = [op |-> "mkdir", path |-> path, todo |-> SubPaths(path), result |-> FALSE]
  BY Zenon
<1>3. PICK sub : sub = SubPaths(path)
  BY Zenon
<1>4. path \in Paths /\ c.path = path /\ c.todo = sub
  BY <1>2, <1>3, CallsAssumption
<1>5. ASSUME path # <<>> PROVE MakingOK(p, "exists", c)'
  <2>1. IsSub(sub)
    BY <1>3, <1>4, <1>5, SubPathsIsSub
  <2>2. sub \in Seq(Paths) /\ 0 < Len(sub) /\ 0 \in 0..Len(sub)
    BY <2>1 DEF IsSub
  <2>3. SubSeq(sub, 0 + 1, Len(sub)) = sub
    BY <2>2, SubSeqFull
  <2>4. Made(p, sub, 0)'
    BY DEF Made
  <2>5. MadeOK(p, "exists", c.result, sub, 0)'
    BY <2>2, <2>4 DEF MadeOK
  <2>6. c.todo = SubSeq(sub, 0 + 1, Len(sub))
    BY <1>4, <2>3
  <2> QED
    BY <1>3, <1>4, <2>2, <2>5, <2>6, Zenon DEF MakingOK
<1>6. MakingOK(p, "exists", c)'
  <2>1. CASE path = <<>>
    BY <1>4, <2>1, Zenon DEF MakingOK
  <2> QED
    BY <1>5, <2>1
<1>7. "exists" \in Labels
  BY DEF Labels
<1> QED
  BY <1>1, <1>2, <1>6, <1>7, BeginMakes

LEMMA NobodyGoes ==
  ASSUME FilesInv, FilesInv', CreatorsInv, pc' = pc, call' = call, \A q \in Processes : Grows(q)
  PROVE  CreatorsInv'
<1>0. TypeInv /\ TypeInv'
  BY DEF FilesInv
<1>1. pc' = pc /\ call' = call
  OBVIOUS
<1> SUFFICES ASSUME NEW q \in Processes
             PROVE  \A label \in {pc'[q]}, d \in {call'[q]} : MakingOK(q, label, d)'
  BY Zenon DEF CreatorsInv
<1>2. PICK label : label = pc[q]
  BY Zenon
<1>3. PICK d : d = call[q]
  BY Zenon
<1>4. MakingOK(q, label, d)
  BY <1>2, <1>3, Zenon DEF CreatorsInv
<1>5. MakingOK(q, label, d)'
  BY <1>0, <1>4, MakingKept
<1> QED
  BY <1>1, <1>2, <1>3, <1>5, Zenon

LEMMA CreatorsInitInv == Init => CreatorsInv
<1> SUFFICES ASSUME Init, NEW q \in Processes PROVE MakingOK(q, pc[q], call[q])
  BY Zenon DEF CreatorsInv
<1>1. call[q] = NoCall
  BY DEF Init
<1>2. NoCall \notin CreateCalls
  BY DEF NoCall, CreateCalls
<1> QED
  BY <1>1, <1>2, Zenon DEF MakingOK

LEMMA CreatorsNextInv ==
  FilesInv /\ FilesInv' /\ CreatorsInv /\ [Next]_vars => CreatorsInv'
<1> SUFFICES ASSUME FilesInv, FilesInv', CreatorsInv, [Next]_vars PROVE CreatorsInv'
  OBVIOUS
<1>1. CASE UNCHANGED vars
  BY <1>1, GrowsUnchanged, NobodyGoes, Zenon DEF vars
<1>2. CASE \E n \in Nodes : RemoveNode(n)
  <2>1. pc' = pc /\ call' = call
    BY <1>2, Zenon DEF RemoveNode
  <2>2. \A q \in Processes : Grows(q)
    BY <1>2, RemoveNodeGrows DEF FilesInv
  <2> QED
    BY <2>1, <2>2, NobodyGoes
<1>3. ASSUME NEW p \in Processes,
             BeginRead(p) \/ BeginEnumerate(p) \/ BeginWrite(p) \/ BeginCreate(p) \/ Step(p)
      PROVE  CreatorsInv'
  BY <1>3, OtherBegins, CreateBegins, StepMakes
<1> QED
  BY <1>1, <1>2, <1>3, Zenon DEF Next

(* CreatorsInv is inductive relative to FilesInv. *)
THEOREM CreatorsInvariance == Spec => []CreatorsInv
<1> QED
  BY FilesInvariance, CreatorsInitInv, CreatorsNextInv, PTL DEF Spec

LEMMA CreatorsInvAgree == FilesInv /\ CreatorsInv => CreatorsAgree
<1> SUFFICES ASSUME FilesInv, CreatorsInv, NEW p \in Processes,
                    Returned(p, "mkdir"), call[p].path # <<>>,
                    Involved(call[p].path) \subseteq clear[p]
             PROVE  IF call[p].result THEN DirectoryExists(call[p].path)
                    ELSE \E n \in Involved(call[p].path) : KindAt(n) \in {"file", "link"}
  BY Zenon DEF CreatorsAgree
<1>1. PICK c : c = call[p]
  BY Zenon
<1>2. pc[p] = "returned" /\ c.op = "mkdir"
  BY <1>1, Zenon DEF Returned
<1>3. c \in CreateCalls
  <2>1. c \in ReadCalls \/ c \in WriteCalls \/ c \in CreateCalls \/ c \in ListCalls
    BY <1>1, <1>2, Zenon DEF FilesInv, TypeInv, PlaceOK
  <2> QED
    BY <1>2, <2>1 DEF ReadCalls, WriteCalls, ListCalls
<1>4. c.path \in Paths /\ c.path # <<>>
  BY <1>1, <1>3 DEF CreateCalls
<1>5. PICK path : path = c.path
  BY Zenon
<1>6. PICK sub : sub = SubPaths(path)
  BY Zenon
<1>7. IsSub(sub) /\ sub[Len(sub)] = path /\ sub \in Seq(Paths) /\ Len(sub) \in Nat \ {0}
  BY <1>4, <1>5, <1>6, SubPathsIsSub DEF IsSub
<1>8. MakingOK(p, "returned", c)
  BY <1>1, <1>2, Zenon DEF CreatorsInv
<1>9. PICK j \in 0..Len(sub) : MadeOK(p, "returned", c.result, sub, j)
  BY <1>3, <1>4, <1>5, <1>6, <1>8, Zenon DEF MakingOK
<1>10. \A i \in 1..Len(sub) : Lookup(sub[i]) \in Involved(path) /\ Target(sub[i]) \in Involved(path)
  <2>1. DOMAIN sub = 1..Len(sub)
    BY <1>7
  <2>2. Involved(path) = UNION {{Lookup(q), Target(q)} : q \in {sub[i] : i \in DOMAIN sub}}
    BY <1>6, Zenon DEF Involved
  <2> SUFFICES ASSUME NEW i \in 1..Len(sub)
               PROVE  Lookup(sub[i]) \in Involved(path) /\ Target(sub[i]) \in Involved(path)
    BY Zenon
  <2> DEFINE P == {sub[k] : k \in DOMAIN sub}
             E == {{Lookup(q), Target(q)} : q \in P}
  <2>3. sub[i] \in P
    BY <2>1, Zenon
  <2> HIDE DEF P
  <2>4. {Lookup(sub[i]), Target(sub[i])} \in E
    BY <2>3, Zenon
  <2>5. Involved(path) = UNION E
    BY <2>2 DEF P
  <2> HIDE DEF E
  <2> QED
    BY <2>4, <2>5, Zenon
<1>11. \A k \in 0..Len(sub) : ClearTo(p, sub, k)
  <2> SUFFICES ASSUME NEW k \in 0..Len(sub), NEW i \in 1..k
               PROVE  Lookup(sub[i]) \in clear[p] /\ Target(sub[i]) \in clear[p]
    BY Zenon DEF ClearTo
  <2>1. i \in 1..Len(sub)
    BY <1>7
  <2>2. Involved(path) \subseteq clear[p]
    BY <1>1, <1>5
  <2> QED
    BY <1>10, <2>1, <2>2, Zenon
<1>12. CASE c.result
  <2>1. j = Len(sub)
    BY <1>9, <1>12 DEF MadeOK
  <2>2. j \in 1..j /\ ClearTo(p, sub, j)
    BY <1>7, <1>11, <2>1
  <2>3. DirectoryExists(sub[j])
    BY <1>9, <2>2, Zenon DEF MadeOK, Made
  <2> QED
    BY <1>1, <1>5, <1>7, <1>12, <2>1, <2>3, Zenon
<1>13. CASE ~c.result
  <2>1. ~(j = Len(sub))
    BY <1>9, <1>13 DEF MadeOK
  <2>2. PICK k : k = j + 1
    BY Zenon
  <2>3. k \in 0..Len(sub) /\ k \in 1..Len(sub)
    BY <1>7, <2>1, <2>2
  <2>4. ClearTo(p, sub, k)
    BY <1>11, <2>3
  <2>5. KindAt(Lookup(sub[k])) \in {"file", "link"}
    BY <1>9, <1>13, <2>2, <2>4, Zenon DEF MadeOK
  <2> QED
    BY <1>1, <1>5, <1>10, <1>13, <2>3, <2>5, Zenon
<1> QED
  BY <1>12, <1>13

(* CreateDirectory, in any number of processes at once, returns true only  *)
(* with the directory there, and false only with something else in the way *)
(* of it, unless something was removed or replaced there meanwhile.        *)
THEOREM CreatorsAlwaysAgree == Spec => []CreatorsAgree
<1> QED
  BY FilesInvariance, CreatorsInvariance, CreatorsInvAgree, PTL

-----------------------------------------------------------------------------
(* The paths that a sequence of names gives below where an enumeration     *)
(* starts: the k-th of them is the one before with one name more.          *)

Way(c, s, k) == PathOf(c, SubSeq(s, 1, k))

AlongNames(f, base, s, k) ==
  f[0] = base /\ \A i \in 1..k : f[i] = AppendName(f[i - 1], s[i])
IsNaming(iter, base, s, m) ==
  iter = [t \in SUBSET (1..m) |->
            IF t = {} THEN base ELSE AppendName(iter[t \ {Max(t)}], s[Max(t)])]

LEMMA AppendNameType ==
  ASSUME NEW path \in Paths, NEW x \in Names
  PROVE  AppendName(path, x) \in Paths
  BY AppendedIs, NamesAreEntries DEF AppendName

LEMMA NamesFold ==
  ASSUME NEW base \in Paths, NEW s \in Seq(Names)
  PROVE  \E f \in [0..Len(s) -> Paths] :
           AlongNames(f, base, s, Len(s)) /\ FoldLeft(AppendName, base, s) = f[Len(s)]
<1> DEFINE m == Len(s)
           step == [z \in Paths \X Names |-> AppendName(z[1], z[2])]
<1>1. m \in Nat /\ DOMAIN s = 1..m
  BY LenProperties
<1>2. \E iter : IsNaming(iter, base, s, m)
  <2>1. step \in [Paths \X Names -> Paths]
    BY AppendNameType
  <2> HIDE DEF step
  <2>2. PICK iter \in [SUBSET (1..m) -> Paths] : IsFold(iter, step, base, s, m)
    <3>1. m \in 0..Len(s)
      BY <1>1
    <3> HIDE DEF m
    <3> QED
      BY <2>1, <3>1, FoldExists, Zenon
  <2>3. ASSUME NEW t \in SUBSET (1..m), t # {}
        PROVE  step[iter[t \ {Max(t)}], s[Max(t)]] = AppendName(iter[t \ {Max(t)}], s[Max(t)])
    <3>1. Max(t) \in 1..m
      BY <1>1, <2>3, MaxIn
    <3>2. s[Max(t)] \in Names /\ iter[t \ {Max(t)}] \in Paths
      BY <1>1, <2>2, <3>1, ElementOfSeq
    <3> QED
      BY <3>2 DEF step
  <2>4. ASSUME NEW t \in SUBSET (1..m)
        PROVE  iter[t] = IF t = {} THEN base ELSE AppendName(iter[t \ {Max(t)}], s[Max(t)])
    <3>1. iter[t] = IF t = {} THEN base ELSE step[iter[t \ {Max(t)}], s[Max(t)]]
      BY <2>2, Zenon DEF IsFold
    <3> QED
      BY <2>3, <3>1, Zenon
  <2>5. iter = [t \in SUBSET (1..m) |-> iter[t]]
    BY <2>2
  <2>6. IsNaming(iter, base, s, m)
    BY <2>4, <2>5, Zenon DEF IsNaming
  <2> QED
    BY <2>6, Zenon
<1> DEFINE iter == CHOOSE g : IsNaming(g, base, s, m)
           f == [k \in 0..m |-> iter[1..k]]
<1>3. IsNaming(iter, base, s, m)
  BY <1>2, Zenon
<1>4. FoldLeft(AppendName, base, s) = iter[1..m]
  BY <1>1, Zenon DEF FoldLeft, MapThenFoldSet, IsNaming
<1> HIDE DEF iter, m, step
<1>5. \A t \in SUBSET (1..m) :
        iter[t] = IF t = {} THEN base ELSE AppendName(iter[t \ {Max(t)}], s[Max(t)])
  BY <1>3, Zenon DEF IsNaming
<1>6. f[0] = base
  <2>1. 1..0 = {} /\ 0 \in 0..m /\ {} \in SUBSET (1..m)
    BY <1>1
  <2> QED
    BY <1>5, <2>1, Zenon
<1>7. ASSUME NEW k \in 1..m PROVE f[k] = AppendName(f[k - 1], s[k])
  <2>1. 1..k \in SUBSET (1..m) /\ (1..k) \ {k} = 1..(k - 1) /\ k \in 0..m /\ k - 1 \in 0..m
    BY <1>1
  <2>2. 1..k \in SUBSET Int /\ k \in 1..k /\ \A n \in 1..k : n <= k
    BY <1>1
  <2>3. Max(1..k) = k /\ 1..k # {}
    BY <2>2, MaxIs
  <2> QED
    BY <1>5, <2>1, <2>3, Zenon
<1>8. f \in [0..m -> Paths]
  <2> DEFINE Bad == {k \in 0..m : f[k] \notin Paths}
  <2>1. CASE Bad # {}
    <3>0. Bad \in SUBSET Nat
      BY <1>1
    <3>1. PICK k \in Bad : \A n \in Bad : k <= n
      BY <2>1, <3>0, SmallestOf, Zenon
    <3>2. f[0] \in Paths
      BY <1>6
    <3>3. k \in 1..m /\ k - 1 \in 0..m /\ k - 1 \notin Bad /\ f[k] \notin Paths
      BY <1>1, <3>1, <3>2
    <3>4. f[k - 1] \in Paths
      BY <3>3, Zenon
    <3>5. f[k] = AppendName(f[k - 1], s[k])
      BY <1>7, <3>3, Zenon
    <3>6. s[k] \in Names
      BY <3>3, ElementOfSeq DEF m
    <3> QED
      BY <3>3, <3>4, <3>5, <3>6, AppendNameType, Zenon
  <2>2. CASE Bad = {}
    BY <2>2
  <2> QED
    BY <2>1, <2>2
<1>9. FoldLeft(AppendName, base, s) = f[m]
  BY <1>1, <1>4
<1> HIDE DEF f
<1>10. AlongNames(f, base, s, m)
  BY <1>6, <1>7, Zenon DEF AlongNames
<1> QED
  BY <1>8, <1>9, <1>10, Zenon DEF m

LEMMA NamesAgree ==
  ASSUME NEW f, NEW g, NEW base, NEW s, NEW k \in Nat,
         AlongNames(f, base, s, k), AlongNames(g, base, s, k)
  PROVE  f[k] = g[k]
<1> USE DEF AlongNames
<1> DEFINE Bad == {i \in 0..k : f[i] # g[i]}
<1>1. CASE Bad # {}
  <2>1. Bad \in SUBSET Nat
    OBVIOUS
  <2>2. PICK i \in Bad : \A j \in Bad : i <= j
    BY <1>1, <2>1, SmallestOf, Zenon
  <2>3. i \in 1..k /\ i - 1 \in 0..k /\ i - 1 \notin Bad
    BY <2>2
  <2>4. f[i - 1] = g[i - 1]
    BY <2>3
  <2>5. f[i] = g[i]
    BY <2>3, <2>4, Zenon
  <2> QED
    BY <2>2, <2>5
<1>2. k \in 0..k
  OBVIOUS
<1> QED
  BY <1>1, <1>2

LEMMA BeginningOfNames ==
  ASSUME NEW s \in Seq(Names), NEW k \in 0..Len(s)
  PROVE  SubSeq(s, 1, k) \in Seq(Names) /\ Len(SubSeq(s, 1, k)) = k
         /\ \A i \in 1..k : SubSeq(s, 1, k)[i] = s[i]
<1>1. Len(s) \in Nat /\ \A i \in 1..k : s[i] \in Names
  BY LenProperties, ElementOfSeq
<1> QED
  BY <1>1, SubSeqProperties

LEMMA WaysAre ==
  ASSUME NEW c \in ListCalls, NEW s \in Seq(Names)
  PROVE  /\ Way(c, s, 0) = StripTrailingSeparators(c.start)
         /\ \A k \in 0..Len(s) : Way(c, s, k) \in Paths
         /\ \A k \in 1..Len(s) : Way(c, s, k) = AppendTo(Way(c, s, k - 1), <<s[k]>>)
         /\ PathOf(c, s) = Way(c, s, Len(s))
<1> PICK base : base = StripTrailingSeparators(c.start)
  OBVIOUS
<1>0. base \in Paths
  BY StripType DEF ListCalls
<1> PICK m : m = Len(s)
  OBVIOUS
<1>1. m \in Nat
  BY LenProperties
<1>2. PICK f \in [0..m -> Paths] : AlongNames(f, base, s, m)
  BY <1>0, NamesFold
<1>3. ASSUME NEW k \in 0..m PROVE Way(c, s, k) = f[k]
  <2>0. k \in Nat
    OBVIOUS
  <2> PICK sub : sub = SubSeq(s, 1, k)
    OBVIOUS
  <2>1. sub \in Seq(Names) /\ Len(sub) = k /\ \A i \in 1..k : sub[i] = s[i]
    BY BeginningOfNames
  <2>2. PICK g : AlongNames(g, base, sub, k) /\ FoldLeft(AppendName, base, sub) = g[k]
    BY <1>0, <2>1, NamesFold, SMTT(60)
  <2>3. AlongNames(g, base, s, k)
    BY <2>1, <2>2, Zenon DEF AlongNames
  <2>4. AlongNames(f, base, s, k)
    <3>1. \A i \in 1..k : i \in 1..m
      BY <1>1
    <3> QED
      BY <1>2, <3>1, Zenon DEF AlongNames
  <2>5. f[k] = g[k]
    BY <2>0, <2>3, <2>4, NamesAgree, Zenon
  <2>6. Way(c, s, k) = FoldLeft(AppendName, base, sub)
    BY Zenon DEF Way, PathOf
  <2> QED
    BY <2>2, <2>5, <2>6, Zenon
<1>4. Way(c, s, 0) = base
  <2>1. 0 \in 0..m
    BY <1>1
  <2> QED
    BY <1>2, <1>3, <2>1, Zenon DEF AlongNames
<1>5. ASSUME NEW k \in 1..m PROVE Way(c, s, k) = AppendTo(Way(c, s, k - 1), <<s[k]>>)
  <2>1. k \in 0..m /\ k - 1 \in 0..m
    BY <1>1
  <2> QED
    BY <1>2, <1>3, <2>1, Zenon DEF AlongNames, AppendName
<1>6. PathOf(c, s) = Way(c, s, m)
  <2>1. SubSeq(s, 1, m) = s
    BY SubSeqFull
  <2> QED
    BY <2>1, Zenon DEF Way
<1> QED
  BY <1>2, <1>3, <1>4, <1>5, <1>6

-----------------------------------------------------------------------------
(* A name after a way: what it is a path of, and where it leads. *)
LEMMA WayStep ==
  ASSUME NEW c \in ListCalls, NEW s \in Seq(Names), NEW k \in 1..Len(s)
  PROVE  /\ s[k] \in Names /\ s[k] \in EntryNames
         /\ Way(c, s, k - 1) \in Paths
         /\ Way(c, s, k) = Append(Base(Way(c, s, k - 1)), s[k])
         /\ Way(c, s, k) \in Paths /\ IsStripped(Way(c, s, k))
         /\ Way(c, s, k) # Here
<1> PICK path : path = Way(c, s, k - 1)
  OBVIOUS
<1>1. k - 1 \in 0..Len(s) /\ Len(s) \in Nat
  BY LenProperties
<1>2. path \in Paths /\ Way(c, s, k) = AppendTo(path, <<s[k]>>)
  BY <1>1, WaysAre, Zenon
<1>3. s[k] \in Names /\ s[k] \in EntryNames
  BY ElementOfSeq, NamesAreEntries
<1>4. /\ Way(c, s, k) = Append(Base(path), s[k])
      /\ Way(c, s, k) \in Paths /\ IsStripped(Way(c, s, k))
      /\ Way(c, s, k)[Len(Base(path)) + 1] = s[k] /\ Len(Way(c, s, k)) = Len(Base(path)) + 1
  <2> PICK x : x = s[k]
    OBVIOUS
  <2>1. path \in Paths /\ x \in EntryNames
    BY <1>2, <1>3, Zenon
  <2>2. /\ AppendTo(path, <<x>>) = Append(Base(path), x) /\ Append(Base(path), x) \in Paths
        /\ IsStripped(Append(Base(path), x))
        /\ Append(Base(path), x)[Len(Base(path)) + 1] = x
        /\ Len(Append(Base(path), x)) = Len(Base(path)) + 1
    BY ONLY <2>1, AppendedIs, Zenon
  <2>3. Way(c, s, k) = AppendTo(path, <<x>>)
    BY <1>2, Zenon
  <2> QED
    BY <2>2, <2>3, Zenon
<1>5. Way(c, s, k) # Here
  <2>1. s[k] # kCurrentDirectory
    BY <1>3 DEF Names, kCurrentDirectory
  <2> SUFFICES ASSUME Way(c, s, k) = Here PROVE FALSE
    OBVIOUS
  <2> PICK n : n = Len(Base(path))
    OBVIOUS
  <2> PICK w : w = Way(c, s, k)
    OBVIOUS
  <2>2. Base(path) \in Paths
    BY <1>2, BaseIs
  <2>3. n \in Nat
    BY <2>2, LenProperties DEF Paths
  <2>4. Len(Here) = 1 /\ Here[1] = kCurrentDirectory
    BY DEF Here
  <2>5. n + 1 = 1
    BY <1>4, <2>4, Zenon
  <2>6. w[1] = s[k]
    BY <1>4, <2>5, Zenon
  <2> QED
    BY <2>1, <2>4, <2>6, Zenon
<1> QED
  BY <1>2, <1>3, <1>4, <1>5, Zenon

-----------------------------------------------------------------------------
(* A path is under another if that is how it begins. *)

Under(u, path) == Len(u) <= Len(path) /\ \A i \in 1..Len(u) : path[i] = u[i]

LEMMA UnderTrans ==
  ASSUME NEW u \in Seq(Tokens), NEW v \in Seq(Tokens), NEW w \in Seq(Tokens),
         Under(u, v), Under(v, w)
  PROVE  Under(u, w)
  BY LenProperties DEF Under

(* Of two beginnings of a path one is a beginning of the other. *)
LEMMA UnderEither ==
  ASSUME NEW u \in Seq(Tokens), NEW v \in Seq(Tokens), NEW w \in Seq(Tokens),
         Under(u, w), Under(v, w)
  PROVE  Under(u, v) \/ Under(v, u)
<1>1. Len(u) \in Nat /\ Len(v) \in Nat
  BY LenProperties
<1>2. CASE Len(u) <= Len(v)
  BY <1>1, <1>2 DEF Under
<1>3. CASE ~(Len(u) <= Len(v))
  BY <1>1, <1>3 DEF Under
<1> QED
  BY <1>2, <1>3

LEMMA UnderAppended ==
  ASSUME NEW u \in Seq(Tokens), NEW x \in Tokens
  PROVE  Under(u, Append(u, x)) /\ Append(u, x) \in Seq(Tokens) /\ Len(Append(u, x)) = Len(u) + 1
<1>1. Len(u) \in Nat
  BY LenProperties
<1> PICK w : w = Append(u, x)
  OBVIOUS
<1>2. w \in Seq(Tokens) /\ Len(w) = Len(u) + 1 /\ \A i \in 1..Len(u) : w[i] = u[i]
  BY AppendProperties
<1> QED
  BY <1>1, <1>2 DEF Under

(* What has been changed on the way of a path has been on the way of those *)
(* that go on from it. *)
LEMMA UndisturbedUnder ==
  ASSUME NEW p, NEW u \in Paths, NEW path \in Paths, Under(u, path), Undisturbed(p, path)
  PROVE  Undisturbed(p, u)
<1>1. u \in Seq(Tokens) /\ path \in Seq(Tokens) /\ Len(u) \in Nat /\ Len(path) \in Nat
      /\ Len(u) \in 0..Len(path)
  BY LenProperties DEF Paths, Under
<1>2. SubSeq(path, 1, Len(u)) = u
  <2> PICK t : t = SubSeq(path, 1, Len(u))
    OBVIOUS
  <2>1. t \in Paths /\ Len(t) = Len(u) /\ \A i \in 1..Len(u) : t[i] = path[i]
    BY <1>1, PrefixOfPath
  <2>2. t \in Seq(Tokens) /\ \A i \in 1..Len(t) : t[i] = u[i]
    BY <2>1 DEF Paths, Under
  <2> QED
    BY <1>1, <2>1, <2>2, SeqEqual
<1> SUFFICES ASSUME NEW k \in 1..Len(u)
             PROVE  {Lookup(SubSeq(u, 1, k)), Target(SubSeq(u, 1, k))} \subseteq still[p] \cup {NoNode}
  BY Zenon DEF Undisturbed
<1>3. k \in 1..Len(path) /\ k \in 0..Len(u)
  BY <1>1
<1>4. SubSeq(u, 1, k) = SubSeq(path, 1, k)
  BY <1>1, <1>2, <1>3, SubSeqPrefix
<1> QED
  BY <1>3, <1>4, Zenon DEF Undisturbed

LEMMA UnderBase ==
  ASSUME NEW path, IsStripped(path), path # Here
  PROVE  Under(path, Base(path))
<1>1. path \in Seq(Tokens) /\ StripTrailingSeparators(path) = path /\ path # <<>> /\ Len(path) \in Nat
  BY StrippedStays, LenProperties DEF IsStripped, Paths
<1>2. Base(path) = IF ~IsSeparator(path[Len(path)]) THEN Append(path, Sep) ELSE path
  BY <1>1, Zenon DEF Base
<1>3. Under(path, Append(path, Sep))
  BY <1>1, UnderAppended, TokensAssumption
<1>4. Under(path, path)
  BY <1>1 DEF Under
<1> QED
  BY <1>2, <1>3, <1>4

LEMMA WayUnderNext ==
  ASSUME NEW c \in ListCalls, NEW s \in Seq(Names), NEW k \in 2..Len(s)
  PROVE  Under(Way(c, s, k - 1), Way(c, s, k))
<1>1. k - 1 \in 1..Len(s) /\ k \in 1..Len(s)
  BY LenProperties
<1> PICK path : path = Way(c, s, k - 1)
  OBVIOUS
<1> PICK x : x = s[k]
  OBVIOUS
<1>2. IsStripped(path) /\ path # Here /\ path \in Paths
  BY <1>1, WayStep, Zenon
<1>3. Way(c, s, k) = Append(Base(path), x) /\ x \in EntryNames
  BY <1>1, WayStep, Zenon
<1>4. Base(path) \in Seq(Tokens) /\ x \in Tokens /\ path \in Seq(Tokens)
  BY <1>2, <1>3, BaseIs DEF Paths, EntryNames
<1>5. Under(path, Base(path))
  BY <1>2, UnderBase
<1>6. Under(Base(path), Append(Base(path), x)) /\ Append(Base(path), x) \in Seq(Tokens)
  BY <1>4, UnderAppended
<1> QED
  BY <1>3, <1>4, <1>5, <1>6, UnderTrans, Zenon

LEMMA WayUnder ==
  ASSUME NEW c \in ListCalls, NEW s \in Seq(Names), NEW k \in 1..Len(s), NEW j \in 1..k
  PROVE  Under(Way(c, s, j), Way(c, s, k))
<1> DEFINE Bad == {i \in 0..(k - 1) : ~Under(Way(c, s, k - i), Way(c, s, k))}
<1>1. \A i \in 1..Len(s) : Way(c, s, i) \in Seq(Tokens)
  BY WayStep DEF Paths
<1>2. CASE Bad # {}
  <2>1. Bad \in SUBSET Nat
    OBVIOUS
  <2>2. PICK i \in Bad : \A n \in Bad : i <= n
    BY <1>2, <2>1, SmallestOf, Zenon
  <2>3. i # 0
    <3>1. k - 0 = k
      OBVIOUS
    <3>2. Under(Way(c, s, k), Way(c, s, k))
      BY <1>1, LenProperties DEF Under
    <3> QED
      BY <2>2, <3>1, <3>2, Zenon
  <2>4. i - 1 \in 0..(k - 1) /\ ~(i <= i - 1) /\ (k - (i - 1)) - 1 = k - i
        /\ k - (i - 1) \in 2..Len(s) /\ k - i \in 1..Len(s) /\ k - (i - 1) \in 1..Len(s)
    BY <2>2, <2>3, LenProperties
  <2> PICK n : n = k - (i - 1)
    OBVIOUS
  <2>5. Under(Way(c, s, n), Way(c, s, k))
    BY <2>2, <2>4, Zenon
  <2>6. Under(Way(c, s, n - 1), Way(c, s, n))
    BY <2>4, WayUnderNext
  <2>7. Under(Way(c, s, n - 1), Way(c, s, k))
    <3>1. /\ Way(c, s, n) \in Seq(Tokens) /\ Way(c, s, n - 1) \in Seq(Tokens)
          /\ Way(c, s, k) \in Seq(Tokens)
      BY <1>1, <2>4, Zenon
    <3> QED
      BY <2>5, <2>6, <3>1, UnderTrans, Zenon
  <2> QED
    BY <2>2, <2>4, <2>7, Zenon
<1>3. CASE Bad = {}
  <2>1. k - j \in 0..(k - 1) /\ k - (k - j) = j
    OBVIOUS
  <2> QED
    BY <1>3, <2>1, Zenon
<1> QED
  BY <1>2, <1>3

LEMMA WayUndisturbed ==
  ASSUME NEW c \in ListCalls, NEW s \in Seq(Names), NEW p, NEW k \in 1..Len(s),
         Undisturbed(p, Way(c, s, k)), NEW j \in 1..k
  PROVE  Undisturbed(p, Way(c, s, j))
<1>1. j \in 1..Len(s)
  BY LenProperties
<1>2. Way(c, s, j) \in Paths /\ Way(c, s, k) \in Paths
  BY <1>1, WayStep
<1> QED
  BY <1>2, WayUnder, UndisturbedUnder, Zenon

-----------------------------------------------------------------------------
(* A name in a directory. *)

LEMMA LastOfAppended ==
  ASSUME NEW base \in Paths, NEW x \in EntryNames
  PROVE  Append(base, x)[Len(Append(base, x))] = x
<1>1. base \in Seq(Tokens) /\ x \in Tokens /\ Len(base) \in Nat
  BY LenProperties DEF Paths, EntryNames
<1>2. Len(Append(base, x)) = Len(base) + 1 /\ Append(base, x)[Len(base) + 1] = x
  BY <1>1, AppendProperties
<1> QED
  BY <1>2

(* BaseName gives the name. *)
LEMMA BaseNameIs ==
  ASSUME NEW path \in Paths, NEW x \in EntryNames
  PROVE  BaseName(Append(Base(path), x)) = <<x>>
<1> PICK base : base = Base(path)
  OBVIOUS
<1> PICK full : full = Append(base, x)
  OBVIOUS
<1>1. base \in Paths /\ base \in Seq(Tokens) /\ (base = <<>> \/ IsSeparator(base[Len(base)]))
  BY BaseIs DEF Paths
<1> PICK n : n = Len(base)
  OBVIOUS
<1>2. n \in Nat /\ (base = <<>> <=> n = 0)
  BY <1>1, EmptySeq, LenProperties
<1>3. /\ full \in Paths /\ Len(full) = n + 1 /\ full[n + 1] = x
      /\ \A i \in 1..n : full[i] = base[i]
      /\ IsStripped(full)
  BY AppendedIs
<1>4. full \in Seq(Tokens) /\ DOMAIN full = 1..(n + 1) /\ ~IsSeparator(x) /\ x \in Tokens
  BY <1>2, <1>3, LenProperties DEF Paths, EntryNames, IsSeparator
<1>5. StripTrailingSeparators(full) = full
  BY <1>3, StrippedStays
<1>6. LastSeparator(full) = n
  <2> DEFINE seps == {i \in DOMAIN full : IsSeparator(full[i])}
  <2>1. CASE n = 0
    <3>1. seps = {}
      BY <1>3, <1>4, <2>1
    <3> QED
      BY <2>1, <3>1, Zenon DEF LastSeparator
  <2>2. CASE n # 0
    <3>1. n \in 1..n /\ IsSeparator(base[n])
      BY <1>1, <1>2, <2>2
    <3>2. n \in seps /\ seps \in SUBSET Int /\ \A i \in seps : i <= n
      BY <1>2, <1>3, <1>4, <3>1
    <3>3. Max(seps) = n
      BY <3>2, MaxIs
    <3> QED
      BY <3>2, <3>3, Zenon DEF LastSeparator
  <2> QED
    BY <2>1, <2>2
<1>7. CASE n = 0
  <2>1. BaseName(full) = full
    <3>1. ~(0 \in 1..(Len(full) - 1))
      OBVIOUS
    <3> QED
      BY <1>5, <1>6, <1>7, <3>1, Zenon DEF BaseName
  <2>2. full = <<x>>
    BY <1>1, <1>2, <1>4, <1>7
  <2> QED
    BY <2>1, <2>2, Zenon
<1>8. CASE n # 0
  <2>1. n \in 1..(Len(full) - 1) /\ n + 1 = Len(full)
    BY <1>2, <1>3, <1>8
  <2>2. BaseName(full) = SubSeq(full, n + 1, n + 1)
    BY <1>5, <1>6, <2>1, Zenon DEF BaseName
  <2>3. SubSeq(full, n + 1, n + 1) = <<x>>
    <3> PICK t : t = SubSeq(full, n + 1, n + 1)
      OBVIOUS
    <3>1. t \in Seq(Tokens) /\ Len(t) = 1 /\ \A i \in 1..1 : t[i] = full[n + i]
      <4>1. \A i \in (n + 1)..(n + 1) : full[i] \in Tokens
        BY <1>2, <1>3, <1>4
      <4>2. n + 1 \in Int /\ (n + 1) - (n + 1) + 1 = 1
        BY <1>2
      <4>3. /\ t \in Seq(Tokens) /\ Len(t) = 1
            /\ \A i \in 1..(n + 1) - (n + 1) + 1 : t[i] = full[(n + 1) + i - 1]
        BY <4>1, <4>2, SubSeqProperties
      <4> QED
        BY <1>2, <4>2, <4>3
    <3>2. t[1] = x
      BY <1>2, <1>3, <3>1
    <3>3. <<x>> \in Seq(Tokens) /\ Len(<<x>>) = 1 /\ <<x>>[1] = x
      BY <1>4
    <3>4. \A i \in 1..1 : t[i] = <<x>>[i]
      BY <3>2, <3>3
    <3> QED
      BY <3>1, <3>3, <3>4, SeqEqual
  <2> QED
    BY <2>2, <2>3, Zenon
<1> QED
  BY <1>7, <1>8

(* A name in a directory that is there. *)
LEMMA NameLeads ==
  ASSUME TypeInv, NEW path, IsStripped(path), NEW x \in EntryNames
  PROVE  /\ Lookup(path) \in Places /\ Target(path) \in Places
         /\ DirectoryExists(path) =>
              /\ Target(path) \in Nodes /\ tree[Target(path)] = "dir"
              /\ Lookup(Append(Base(path), x)) = EntryOf(Target(path), x)
         /\ ~DirectoryExists(path) => Lookup(Append(Base(path), x)) = NoNode
<1> PICK at : at = Lookup(path)
  OBVIOUS
<1> PICK from : from = Follow(at)
  OBVIOUS
<1>0. tree[Root] = "dir" /\ ~IsSeparator(x) /\ path \in Paths
  BY DEF TypeInv, TypeOK, EntryNames, IsSeparator, IsStripped
<1>1. Lookup(Append(Base(path), x)) = Walk(at, x)
  BY <1>0, LookupAppended
<1>2. at \in Places /\ from \in Places /\ Target(path) = from /\ (from = NoNode <=> at = NoNode)
  BY <1>0, LookupType, Zenon DEF Target
<1>3. DirectoryExists(path) <=> at # NoNode /\ tree[from] = "dir"
  BY <1>2, Zenon DEF DirectoryExists, KindAt
<1>4. CASE DirectoryExists(path)
  <2>1. from \in Nodes /\ tree[from] = "dir"
    BY <1>2, <1>3, <1>4 DEF Places
  <2>2. Walk(at, x) = EntryOf(from, x)
    BY <1>0, <1>3, <1>4, TokensDiffer, Zenon DEF Walk, EntryOf
  <2> QED
    BY <1>1, <1>2, <1>4, <2>1, <2>2, Zenon
<1>5. CASE ~DirectoryExists(path)
  <2>1. Walk(at, x) = NoNode
    <3>1. CASE at = NoNode
      BY <3>1, Zenon DEF Walk
    <3>2. CASE at # NoNode /\ tree[from] # "dir"
      BY <1>0, <3>2, Zenon DEF Walk
    <3> QED
      BY <1>3, <1>5, <3>1, <3>2, Zenon
  <2> QED
    BY <1>1, <1>2, <1>5, <2>1, Zenon
<1> QED
  BY <1>4, <1>5

(* The nodes in a directory are its own with a name more. *)
LEMMA NodeIs ==
  ASSUME NEW n \in Nodes, n # Root
  PROVE  Append(Front(n), Last(n)) = n
<1>1. n \in Seq(Names) /\ n # <<>>
  BY NodesAssumption DEF Root
<1>2. PICK m : m = Len(n)
  OBVIOUS
<1>3. m \in Nat \ {0} /\ \A i \in 1..m : n[i] \in Names
  BY <1>1, <1>2, EmptySeq, ElementOfSeq
<1> PICK f : f = Front(n)
  OBVIOUS
<1>4. f = SubSeq(n, 1, m - 1)
  BY <1>2, Zenon DEF Front
<1>5. f \in Seq(Names) /\ Len(f) = m - 1 /\ \A i \in 1..(m - 1) : f[i] = n[i]
  <2>1. m - 1 \in 0..Len(n)
    BY <1>2, <1>3
  <2> QED
    BY <1>1, <1>4, <2>1, BeginningOfNames
<1>6. Last(n) = n[m] /\ n[m] \in Names
  BY <1>2, <1>3 DEF Last
<1> PICK x : x = n[m]
  OBVIOUS
<1> PICK t : t = Append(f, x)
  OBVIOUS
<1>7. t \in Seq(Names) /\ Len(t) = Len(f) + 1 /\ t[Len(f) + 1] = x /\ \A i \in 1..Len(f) : t[i] = f[i]
  BY <1>5, <1>6, AppendProperties
<1>8. Len(t) = m /\ \A i \in 1..m : t[i] = n[i]
  BY <1>3, <1>5, <1>7
<1>9. t = n
  BY <1>1, <1>2, <1>7, <1>8, SeqEqual
<1> QED
  BY <1>6, <1>9, Zenon

LEMMA AppendedNode ==
  ASSUME NEW from \in Seq(Names), NEW x \in Names
  PROVE  /\ Append(from, x) # Root /\ Front(Append(from, x)) = from
         /\ Last(Append(from, x)) = x
<1> PICK n : n = Append(from, x)
  OBVIOUS
<1> PICK m : m = Len(from)
  OBVIOUS
<1>1. /\ m \in Nat /\ n \in Seq(Names) /\ n # <<>> /\ Len(n) = m + 1 /\ n[m + 1] = x
      /\ \A i \in 1..m : n[i] = from[i]
  BY AppendProperties, LenProperties
<1>2. Front(n) = SubSeq(n, 1, m)
  BY <1>1 DEF Front
<1> PICK f : f = SubSeq(n, 1, m)
  OBVIOUS
<1>3. f \in Seq(Names) /\ Len(f) = m /\ \A i \in 1..m : f[i] = n[i]
  <2>1. m \in 0..Len(n)
    BY <1>1
  <2> QED
    BY <1>1, <2>1, BeginningOfNames
<1>4. \A i \in 1..Len(f) : f[i] = from[i]
  BY <1>1, <1>3
<1>5. f = from
  BY <1>3, <1>4, SeqEqual
<1> QED
  BY <1>1, <1>2, <1>5 DEF Last, Root

(* What a directory's entries are: itself, the one above, and the names of *)
(* the nodes that are there. *)
LEMMA EntryThere ==
  ASSUME TypeInv, NEW path, IsStripped(path), DirectoryExists(path), NEW x \in EntryNames,
         x \in {kCurrentDirectory, kParentDirectory}
           \/ x \in {Last(n) : n \in Children(Target(path))}
  PROVE  KindAt(Lookup(Append(Base(path), x))) # "none"
<1> PICK from : from = Target(path)
  OBVIOUS
<1>1. /\ from \in Nodes /\ tree[from] = "dir"
      /\ Lookup(Append(Base(path), x)) = EntryOf(from, x)
  BY NameLeads, Zenon
<1>2. NoNode \notin Nodes
  BY NodesAssumption
<1> SUFFICES ASSUME NEW at, at = EntryOf(from, x) PROVE at \in Nodes /\ tree[at] # "none"
  BY <1>1, <1>2, Zenon DEF KindAt
<1>3. CASE x = kCurrentDirectory
  <2>1. at = from
    BY <1>3, TokensDiffer, Zenon DEF EntryOf
  <2> QED
    BY <1>1, <2>1
<1>4. CASE x = kParentDirectory
  <2>1. at = IF from = Root THEN Root ELSE Front(from)
    BY <1>4, TokensDiffer, Zenon DEF EntryOf
  <2>2. from # Root => Front(from) \in Nodes /\ tree[Front(from)] = "dir"
    BY <1>1, NodesAssumption DEF TypeInv, TypeOK
  <2> QED
    BY <1>1, <2>1, <2>2
<1>5. CASE x \notin {kCurrentDirectory, kParentDirectory}
  <2>1. PICK n \in Children(from) : x = Last(n)
    BY <1>5, Zenon
  <2>2. n \in Nodes /\ n # Root /\ tree[n] # "none" /\ Front(n) = from
    BY <2>1, Zenon DEF Children
  <2>3. Append(from, x) = n
    BY <2>1, <2>2, NodeIs, Zenon
  <2>4. at = n
    BY <1>5, <2>2, <2>3, Zenon DEF EntryOf
  <2> QED
    BY <2>2, <2>4
<1> QED
  BY <1>3, <1>4, <1>5

LEMMA ThereIsEntry ==
  ASSUME TypeInv, NEW path, IsStripped(path), NEW x \in Names,
         KindAt(Lookup(Append(Base(path), x))) # "none"
  PROVE  DirectoryExists(path) /\ x \in {Last(n) : n \in Children(Target(path))}
<1> PICK from : from = Target(path)
  OBVIOUS
<1> PICK at : at = Lookup(Append(Base(path), x))
  OBVIOUS
<1>0. x \in EntryNames /\ x # kCurrentDirectory /\ x # kParentDirectory
  BY NamesAreEntries DEF Names
<1>1. at # NoNode /\ tree[at] # "none"
  BY Zenon DEF KindAt
<1>2. DirectoryExists(path)
  BY <1>0, <1>1, NameLeads, Zenon
<1>3. from \in Nodes /\ at = EntryOf(from, x)
  BY <1>0, <1>2, NameLeads, Zenon
<1>4. at = Append(from, x) /\ at \in Nodes
  BY <1>0, <1>1, <1>3, Zenon DEF EntryOf
<1>5. from \in Seq(Names)
  BY <1>3, NodesAssumption
<1>6. at # Root /\ Front(at) = from /\ Last(at) = x
  BY <1>4, <1>5, AppendedNode
<1>7. at \in Children(from)
  BY <1>1, <1>4, <1>6, Zenon DEF Children
<1> QED
  BY <1>2, <1>6, <1>7, Zenon

-----------------------------------------------------------------------------
(* What is known of the paths on whose way nobody has changed anything     *)
(* stays so.                                                               *)

Settled(q) == still'[q] \subseteq still[q] /\ \A n \in still'[q] : tree'[n] = tree[n]

ReachedWell(path) ==
  /\ Reached(path, 0) = Root
  /\ \A k \in 0..Len(path) : Reached(path, k) \in Places
  /\ \A k \in 1..Len(path) : Reached(path, k) = Walk(Reached(path, k - 1), path[k])
  /\ path # <<>> => Lookup(path) = Reached(path, Len(path))
AllReached == \A path \in Paths : ReachedWell(path)

LEMMA AllAreReached == AllReached
  BY ReachedIs DEF AllReached, ReachedWell

LEMMA AllAreReachedNext == AllReached'
  BY AllAreReached, PTL

Known(n) == n = NoNode \/ (n \in Nodes /\ tree'[n] = tree[n])
Stayed(n) ==
  Follow(n)' = Follow(n) /\ Known(n) /\ Known(Follow(n))

LEMMA WalkStayed ==
  ASSUME NEW at, Stayed(at), NEW token
  PROVE  Walk(at, token)' = Walk(at, token)
<1>1. CASE at = NoNode \/ IsSeparator(token)
  BY <1>1, Zenon DEF Walk
<1>2. CASE at # NoNode /\ ~IsSeparator(token)
  <2> PICK from : from = Follow(at)
    OBVIOUS
  <2>1. at \in Nodes /\ from \in Nodes /\ Follow(at)' = from
    BY <1>2, FollowType DEF Stayed, Known, Places
  <2>2. tree'[from] = tree[from]
    BY <2>1, NodesAssumption DEF Stayed, Known
  <2>3. /\ Walk(at, token) =
             IF tree[from] # "dir" THEN NoNode
             ELSE CASE token = kCurrentDirectory -> from
                     [] token = kParentDirectory -> IF from = Root THEN Root ELSE Front(from)
                     [] OTHER -> IF Append(from, token) \in Nodes THEN Append(from, token) ELSE NoNode
        /\ Walk(at, token)' =
             IF tree'[from] # "dir" THEN NoNode
             ELSE CASE token = kCurrentDirectory -> from
                     [] token = kParentDirectory -> IF from = Root THEN Root ELSE Front(from)
                     [] OTHER -> IF Append(from, token) \in Nodes THEN Append(from, token) ELSE NoNode
    BY <1>2, <2>1 DEF Walk
  <2> QED
    BY <2>2, <2>3, Zenon
<1> QED
  BY <1>1, <1>2

LEMMA StaysWhereStill ==
  ASSUME TypeInv, TypeInv', NEW q \in Processes, Settled(q), NEW at,
         at \in still'[q] \cup {NoNode}, Follow(at)' \in still'[q] \cup {NoNode}
  PROVE  Stayed(at)
<1>1. still'[q] \subseteq Nodes /\ \A n \in still'[q] : tree'[n] = tree[n]
  BY DEF Settled, TypeInv, TypeOK
<1>2. at \in Places /\ NoNode \notin Nodes /\ LinkTarget \in Nodes
  BY <1>1, NodesAssumption DEF Places
<1>3. Known(at)
  BY <1>1 DEF Known
<1>4. Follow(at)' = Follow(at)
  BY <1>2, <1>3 DEF Known, Follow
<1>5. Known(Follow(at))
  BY <1>1, <1>4 DEF Known
<1> QED
  BY <1>3, <1>4, <1>5 DEF Stayed

LEMMA StillReached ==
  ASSUME TypeInv, TypeInv', NEW q \in Processes, Settled(q), NEW path \in Paths,
         Undisturbed(q, path)', NEW k \in 0..Len(path)
  PROVE  Reached(path, k)' = Reached(path, k) /\ Stayed(Reached(path, k))
<1> PICK n : n = Len(path)
  OBVIOUS
<1>0. n \in Nat
  BY LenProperties DEF Paths
<1>1. ReachedWell(path) /\ ReachedWell(path)'
  BY AllAreReached, AllAreReachedNext DEF AllReached
<1> DEFINE P(i) == Reached(path, i)' = Reached(path, i) /\ Stayed(Reached(path, i))
           Bad == {i \in 0..n : ~P(i)}
<1>2. P(0)
  <2>1. Reached(path, 0) = Root /\ Reached(path, 0)' = Root
    BY <1>1, Zenon DEF ReachedWell
  <2>2. tree[Root] = "dir" /\ tree'[Root] = "dir" /\ Root \in Nodes
    BY NodesAssumption DEF TypeInv, TypeOK
  <2>3. Follow(Root) = Root /\ Follow(Root)' = Root
    BY <2>2 DEF Follow
  <2>4. Stayed(Root)
    BY <2>2, <2>3 DEF Stayed, Known
  <2> QED
    BY <2>1, <2>4, Zenon
<1>3. CASE Bad # {}
  <2>1. Bad \in SUBSET Nat
    BY <1>0
  <2> HIDE DEF P
  <2>2. PICK i \in Bad : \A j \in Bad : i <= j
    BY <1>3, <2>1, SmallestOf, Zenon
  <2>3. i \in 1..n /\ i - 1 \in 0..n /\ i - 1 \notin Bad /\ ~P(i) /\ i # 0
    BY <1>0, <1>2, <2>2
  <2>4. P(i - 1)
    BY <2>3, Zenon
  <2> PICK at : at = Reached(path, i - 1)
    OBVIOUS
  <2> PICK token : token = path[i]
    OBVIOUS
  <2> PICK m : m = Walk(at, token)
    OBVIOUS
  <2>5. Reached(path, i - 1)' = at /\ Stayed(at)
    BY <2>4, Zenon DEF P
  <2>6. Walk(at, token)' = m
    BY <2>5, WalkStayed
  <2>7. Reached(path, i) = m /\ Reached(path, i)' = m
    BY <1>1, <2>3, <2>5, <2>6, Zenon DEF ReachedWell
  <2>8. m \in still'[q] \cup {NoNode} /\ Follow(m)' \in still'[q] \cup {NoNode}
    <3>1. Lookup(SubSeq(path, 1, i))' = m
      BY <2>3, <2>7, Zenon DEF Reached
    <3>2. Target(SubSeq(path, 1, i))' = Follow(m)'
      BY <3>1, Zenon DEF Target
    <3>3. Lookup(SubSeq(path, 1, i))' \in still'[q] \cup {NoNode}
          /\ Target(SubSeq(path, 1, i))' \in still'[q] \cup {NoNode}
      BY <2>3 DEF Undisturbed
    <3> QED
      BY <3>1, <3>2, <3>3, Zenon
  <2>9. Stayed(m)
    BY <2>8, StaysWhereStill
  <2> QED
    BY <2>3, <2>7, <2>9, Zenon DEF P
<1>4. CASE Bad = {}
  BY <1>4
<1> QED
  BY <1>3, <1>4

LEMMA StillSame ==
  ASSUME TypeInv, TypeInv', NEW q \in Processes, Settled(q), NEW path \in Paths, path # <<>>,
         Undisturbed(q, path)'
  PROVE  /\ Undisturbed(q, path)
         /\ KindAt(Lookup(path))' = KindAt(Lookup(path))
         /\ KindAt(Target(path))' = KindAt(Target(path))
<1> PICK n : n = Len(path)
  OBVIOUS
<1>0. n \in Nat /\ n \in 0..n
  BY LenProperties DEF Paths
<1>1. \A k \in 0..n : Reached(path, k)' = Reached(path, k) /\ Stayed(Reached(path, k))
  BY StillReached
<1>2. Undisturbed(q, path)
  <2> SUFFICES ASSUME NEW k \in 1..n
               PROVE  {Lookup(SubSeq(path, 1, k)), Target(SubSeq(path, 1, k))}
                        \subseteq still[q] \cup {NoNode}
    BY Zenon DEF Undisturbed
  <2> PICK at : at = Reached(path, k)
    OBVIOUS
  <2>1. k \in 0..n /\ k # 0
    BY <1>0
  <2>2. Reached(path, k)' = at /\ Follow(at)' = Follow(at)
    BY <1>1, <2>1, Zenon DEF Stayed
  <2>3. Lookup(SubSeq(path, 1, k)) = at /\ Lookup(SubSeq(path, 1, k))' = at
    BY <2>1, <2>2, Zenon DEF Reached
  <2>4. Target(SubSeq(path, 1, k)) = Follow(at) /\ Target(SubSeq(path, 1, k))' = Follow(at)
    BY <2>2, <2>3, Zenon DEF Target
  <2>5. {at, Follow(at)} \subseteq still'[q] \cup {NoNode}
    BY <2>3, <2>4, Zenon DEF Undisturbed
  <2> QED
    BY <2>3, <2>4, <2>5, Zenon DEF Settled
<1> PICK at : at = Reached(path, n)
  OBVIOUS
<1>3. Lookup(path) = at /\ Lookup(path)' = at /\ Stayed(at)
  <2>1. ReachedWell(path) /\ ReachedWell(path)'
    BY AllAreReached, AllAreReachedNext DEF AllReached
  <2> QED
    BY <1>0, <1>1, <2>1, Zenon DEF ReachedWell
<1>4. Target(path) = Follow(at) /\ Target(path)' = Follow(at)
  BY <1>3, Zenon DEF Target, Stayed
<1>5. ASSUME NEW m, Known(m) PROVE KindAt(m)' = KindAt(m)
  BY <1>5, Zenon DEF Known, KindAt
<1>6. Known(at) /\ Known(Follow(at))
  BY <1>3, Zenon DEF Stayed
<1>7. KindAt(Lookup(path))' = KindAt(at)' /\ KindAt(Lookup(path)) = KindAt(at)
  BY <1>3, Zenon
<1> PICK f : f = Follow(at)
  OBVIOUS
<1>8. KindAt(Target(path))' = KindAt(f)' /\ KindAt(Target(path)) = KindAt(f)
  BY <1>4, Zenon
<1> QED
  BY <1>2, <1>5, <1>6, <1>7, <1>8, Zenon

-----------------------------------------------------------------------------
(* What is known of an enumeration at each of its places. *)

Reading == {"readdir", "stat"}

(* The entries that next() will still give, and the paths a call has       *)
(* listed, will list, is to read and reads.                                *)
Ahead(c) == (c.current + 1)..Len(c.dir_entries)
Got(c, path) == \E i \in 1..Len(c.listed) : c.listed[i] = path
Coming(c, path) == \E i \in Ahead(c) : path = Full(c, c.dir_entries[i].name)
ToRead(c, path) == \E i \in 1..Len(c.pending) : path = StripTrailingSeparators(c.pending[i])
BeingRead(label, c, path) == label \in Reading /\ path = c.root

(* Paths that are listed or may be were there. *)
There(p, path) == Undisturbed(p, path) => KindAt(Lookup(path)) # "none"
ThereOK(p, label, c) ==
  /\ \A i \in 1..Len(c.listed) : There(p, c.listed[i])
  /\ \A i \in Ahead(c) : There(p, Full(c, c.dir_entries[i].name))
  /\ label \in Reading =>
       /\ \A i \in 1..Len(c.entries) : There(p, Full(c, c.entries[i].name))
       /\ \A name \in c.left : There(p, Full(c, name))

(* A directory is read when the last one's entries have been listed, and   *)
(* gives no name twice.                                                    *)
FromHere(c, path) == path = Here => StripTrailingSeparators(c.start) = Here
ScanOK(label, c) ==
  /\ label \in Reading =>
       /\ Ahead(c) = {} /\ IsStripped(c.root) /\ FromHere(c, c.root)
       /\ Len(c.entries) >= 2
       /\ c.entries[1].name = kCurrentDirectory /\ c.entries[2].name = kParentDirectory
       /\ \A i \in 3..Len(c.entries) : c.entries[i].name \in c.seen \cap Names
       /\ \A i, j \in 1..Len(c.entries) : i # j => c.entries[i].name # c.entries[j].name
  /\ label = "stat" => Len(c.entries) >= 3
  /\ label = "returned" => c.pending = <<>> /\ Ahead(c) = {}
  /\ \A i \in 1..Len(c.pending) : FromHere(c, StripTrailingSeparators(c.pending[i]))

(* Nothing is listed twice: what is below a directory to be read, or being *)
(* read, has not been listed and will not be before, and is not below      *)
(* another one.                                                            *)
Apart(u, v) == ~Under(u, v) /\ ~Under(v, u)
OnceOK(label, c) ==
  /\ \A i, j \in 1..Len(c.listed) : i # j => c.listed[i] # c.listed[j]
  /\ \A i, j \in Ahead(c) : i # j => c.dir_entries[i].name # c.dir_entries[j].name
  /\ \A i \in Ahead(c) : ~Got(c, Full(c, c.dir_entries[i].name))
  /\ \A a \in 1..Len(c.pending) :
       /\ \A i \in 1..Len(c.listed) : ~Under(BaseOf(c.pending[a]), c.listed[i])
       /\ \A i \in Ahead(c) : ~Under(BaseOf(c.pending[a]), Full(c, c.dir_entries[i].name))
       /\ \A b \in 1..Len(c.pending) : a # b => Apart(BaseOf(c.pending[a]), BaseOf(c.pending[b]))
       /\ label \in Reading => Apart(BaseOf(c.pending[a]), Base(c.root))
  /\ label \in Reading => \A i \in 1..Len(c.listed) : ~Under(Base(c.root), c.listed[i])

(* What stat said of an entry. *)
StatOK(p, c, e) ==
  Undisturbed(p, Full(c, e.name)) => (e.dir <=> KindAt(Shown(c, Full(c, e.name))) = "dir")
EntriesOK(p, label, c) ==
  label \in Reading =>
    \A i \in 3..Len(c.entries) : (label = "stat" => i # Len(c.entries)) => StatOK(p, c, c.entries[i])

(* For the names below the start: only directories are read, only what     *)
(* should be listed is, and what should be is or will be, since a          *)
(* directory on its way has been listed, is to be read or is being read.   *)
Opened(c, s, k) == \A j \in 1..k : KindAt(Shown(c, Way(c, s, j))) = "dir"
DirsOK(p, label, c, s) ==
  \A k \in 1..Len(s) :
    (ToRead(c, Way(c, s, k)) \/ BeingRead(label, c, Way(c, s, k))) /\ Undisturbed(p, Way(c, s, k))
      => c.recursive /\ c.start # <<>> /\ Opened(c, s, k)
ListedOK(p, c, s) ==
  (Got(c, PathOf(c, s)) \/ Coming(c, PathOf(c, s))) /\ Undisturbed(p, PathOf(c, s)) => Lists(c, s)
Entering(label, c, s, k) ==
  /\ BeingRead(label, c, Way(c, s, k))
  /\ s[k + 1] \in c.left \ c.seen \/ \E i \in 3..Len(c.entries) : c.entries[i].name = s[k + 1]
FoundOK(p, label, c, s) ==
  Undisturbed(p, PathOf(c, s)) /\ Lists(c, s) =>
    \/ Got(c, PathOf(c, s)) \/ Coming(c, PathOf(c, s))
    \/ \E k \in 0..(Len(s) - 1) : ToRead(c, Way(c, s, k)) \/ Entering(label, c, s, k)
NamesOK(p, label, c) ==
  \A s \in Seq(Names) : s # <<>> => DirsOK(p, label, c, s) /\ ListedOK(p, c, s) /\ FoundOK(p, label, c, s)

ListOK(p, label, c) ==
  c \in ListCalls =>
    ThereOK(p, label, c) /\ ScanOK(label, c) /\ OnceOK(label, c)
      /\ EntriesOK(p, label, c) /\ NamesOK(p, label, c)
ListInv == \A p \in Processes : \A label \in {pc[p]}, c \in {call[p]} : ListOK(p, label, c)

-----------------------------------------------------------------------------
(* It stays so whatever others do. *)

LEMMA ThereKept ==
  ASSUME TypeInv, TypeInv', NEW p \in Processes, Settled(p), NEW path \in Paths, There(p, path)
  PROVE  There(p, path)'
<1>1. CASE path = <<>>
  <2>1. Undisturbed(p, path)
    <3>1. 1..Len(path) = {}
      BY <1>1
    <3> QED
      BY <3>1, Zenon DEF Undisturbed
  <2>2. KindAt(Lookup(path)) = "none"
    BY <1>1, Zenon DEF KindAt, Lookup
  <2> QED
    BY <2>1, <2>2, Zenon DEF There
<1>2. CASE path # <<>>
  <2> SUFFICES ASSUME Undisturbed(p, path)' PROVE KindAt(Lookup(path))' # "none"
    BY Zenon DEF There
  <2>1. Undisturbed(p, path) /\ KindAt(Lookup(path))' = KindAt(Lookup(path))
    BY <1>2, StillSame
  <2> QED
    BY <2>1, Zenon DEF There
<1> QED
  BY <1>1, <1>2

LEMMA ShownKept ==
  ASSUME TypeInv, TypeInv', NEW p \in Processes, Settled(p), NEW path \in Paths, path # <<>>,
         Undisturbed(p, path)', NEW c
  PROVE  KindAt(Shown(c, path))' = KindAt(Shown(c, path)) /\ Undisturbed(p, path)
<1>1. /\ Undisturbed(p, path) /\ KindAt(Lookup(path))' = KindAt(Lookup(path))
      /\ KindAt(Target(path))' = KindAt(Target(path))
  BY StillSame
<1>2. CASE "SHOW_SYM_LINKS" \in c.type
  <2>1. Shown(c, path) = Lookup(path) /\ Shown(c, path)' = Lookup(path)'
    BY <1>2, Zenon DEF Shown
  <2> QED
    BY <1>1, <2>1, Zenon
<1>3. CASE "SHOW_SYM_LINKS" \notin c.type
  <2>1. Shown(c, path) = Target(path) /\ Shown(c, path)' = Target(path)'
    BY <1>3, Zenon DEF Shown
  <2> QED
    BY <1>1, <2>1, Zenon
<1> QED
  BY <1>2, <1>3

LEMMA NamesThere ==
  ASSUME NEW s \in Seq(Names), s # <<>>
  PROVE  Len(s) \in 1..Len(s) /\ Len(s) \in Nat /\ Len(s) - 1 \in 0..Len(s)
  BY EmptySeq

WaysUndisturbed ==
  \A p \in Processes, c \in ListCalls, s \in Seq(Names) : \A k \in 1..Len(s) :
    Undisturbed(p, Way(c, s, k)) => \A j \in 1..k : Undisturbed(p, Way(c, s, j))

LEMMA AllWaysUndisturbed == WaysUndisturbed
  BY WayUndisturbed DEF WaysUndisturbed

LEMMA WaysUndisturbedNext == WaysUndisturbed'
  BY AllWaysUndisturbed, PTL

LEMMA OpenedKept ==
  ASSUME TypeInv, TypeInv', NEW p \in Processes, Settled(p), NEW c \in ListCalls, NEW s \in Seq(Names),
         NEW k \in 1..Len(s), Undisturbed(p, Way(c, s, k))'
  PROVE  /\ Undisturbed(p, Way(c, s, k))
         /\ \A j \in 1..k : KindAt(Shown(c, Way(c, s, j)))' = KindAt(Shown(c, Way(c, s, j)))
         /\ KindAt(Lookup(Way(c, s, k)))' = KindAt(Lookup(Way(c, s, k)))
<1>1. ASSUME NEW j \in 1..k
      PROVE  Way(c, s, j) \in Paths /\ Way(c, s, j) # <<>> /\ Undisturbed(p, Way(c, s, j))'
  <2>1. j \in 1..Len(s)
    BY LenProperties
  <2>2. Way(c, s, j) \in Paths /\ Way(c, s, j) # <<>>
    BY <2>1, WayStep, Zenon DEF IsStripped
  <2>3. Undisturbed(p, Way(c, s, j))'
    BY WaysUndisturbedNext, Zenon DEF WaysUndisturbed
  <2> QED
    BY <2>2, <2>3
<1>2. ASSUME NEW j \in 1..k
      PROVE  KindAt(Shown(c, Way(c, s, j)))' = KindAt(Shown(c, Way(c, s, j)))
  <2> PICK path : path = Way(c, s, j)
    OBVIOUS
  <2>1. path \in Paths /\ path # <<>> /\ Undisturbed(p, path)'
    BY <1>1, Zenon
  <2> QED
    BY <2>1, ShownKept, Zenon
<1> PICK path : path = Way(c, s, k)
  OBVIOUS
<1>3. path \in Paths /\ path # <<>> /\ Undisturbed(p, path)'
  <2>1. k \in 1..k
    OBVIOUS
  <2> QED
    BY <1>1, <2>1, Zenon
<1>4. Undisturbed(p, path) /\ KindAt(Lookup(path))' = KindAt(Lookup(path))
  BY <1>3, StillSame
<1> QED
  BY <1>2, <1>4, Zenon

(* What Lists says, along the way of the names. *)
MayList(c, s) ==
  /\ c.start # <<>> /\ (c.recursive \/ Len(s) = 1)
  /\ c.pattern # NoPattern =>
       /\ s = <<c.pattern>>
       /\ StripTrailingSeparators(c.start) = Here => c.start = Here
TypeOf(c, path) == IF KindAt(Shown(c, path)) = "dir" THEN "DIRECTORIES" ELSE "FILES"
ListsSo(c, s) ==
  /\ MayList(c, s)
  /\ KindAt(Lookup(Way(c, s, Len(s)))) # "none"
  /\ Opened(c, s, Len(s) - 1)
  /\ TypeOf(c, Way(c, s, Len(s))) \in c.type
ListsAre == \A c \in ListCalls, s \in Seq(Names) : Lists(c, s) <=> ListsSo(c, s)

LEMMA AllListsAre == ListsAre
<1> SUFFICES ASSUME NEW c \in ListCalls, NEW s \in Seq(Names) PROVE Lists(c, s) <=> ListsSo(c, s)
  BY Zenon DEF ListsAre
<1>1. PathOf(c, s) = Way(c, s, Len(s))
  BY WaysAre
<1> QED
  BY <1>1, Zenon DEF Lists, ListsSo, MayList, TypeOf, Opened, Way, Here

LEMMA AllListsAreNext == ListsAre'
  BY AllListsAre, PTL

LEMMA ThereOKKept ==
  ASSUME TypeInv, TypeInv', NEW p \in Processes, Settled(p), NEW label, NEW c \in ListCalls,
         ThereOK(p, label, c)
  PROVE  ThereOK(p, label, c)'
<1>1. \A e \in Entry : Full(c, e.name) \in Paths
  BY FullIs DEF Entry
<1>2. \A name \in Names : Full(c, name) \in Paths
  BY FullIs, NamesAreEntries
<1>3. \A path \in Paths : There(p, path) => There(p, path)'
  BY ThereKept
<1>4. ASSUME NEW i \in 1..Len(c.listed) PROVE c.listed[i] \in Paths
  BY <1>4, ElementOfSeq DEF ListCalls
<1>5. ASSUME NEW i \in Ahead(c) PROVE c.dir_entries[i] \in Entry
  <2>1. c.dir_entries \in Seq(Entry) /\ c.current \in Nat
    BY DEF ListCalls
  <2>2. i \in 1..Len(c.dir_entries)
    BY <1>5, <2>1, LenProperties DEF Ahead
  <2> QED
    BY <2>1, <2>2, ElementOfSeq
<1>6. ASSUME NEW i \in 1..Len(c.entries) PROVE c.entries[i] \in Entry
  BY <1>6, ElementOfSeq DEF ListCalls
<1>7. c.left \subseteq Names
  BY DEF ListCalls
<1> QED
  BY <1>1, <1>2, <1>3, <1>4, <1>5, <1>6, <1>7, Zenon DEF ThereOK

LEMMA EntriesKept ==
  ASSUME TypeInv, TypeInv', NEW p \in Processes, Settled(p), NEW label, NEW c \in ListCalls,
         EntriesOK(p, label, c)
  PROVE  EntriesOK(p, label, c)'
<1>1. ASSUME NEW i \in 3..Len(c.entries), StatOK(p, c, c.entries[i])
      PROVE  StatOK(p, c, c.entries[i])'
  <2>1. c.entries[i] \in Entry
    BY ElementOfSeq, LenProperties DEF ListCalls
  <2> PICK e : e = c.entries[i]
    OBVIOUS
  <2> PICK path : path = Full(c, e.name)
    OBVIOUS
  <2>2. path \in Paths /\ path # <<>>
    BY <2>1, FullIs DEF Entry, IsStripped
  <2>3. Undisturbed(p, path)' =>
          KindAt(Shown(c, path))' = KindAt(Shown(c, path)) /\ Undisturbed(p, path)
    BY <2>2, ShownKept, Zenon
  <2> QED
    BY <1>1, <2>3, Zenon DEF StatOK
<1> QED
  BY <1>1, Zenon DEF EntriesOK

LEMMA NamesKept ==
  ASSUME TypeInv, TypeInv', NEW p \in Processes, Settled(p), NEW label, NEW c \in ListCalls,
         NEW s \in Seq(Names), s # <<>>,
         DirsOK(p, label, c, s), ListedOK(p, c, s), FoundOK(p, label, c, s)
  PROVE  DirsOK(p, label, c, s)' /\ ListedOK(p, c, s)' /\ FoundOK(p, label, c, s)'
<1>1. ASSUME NEW k \in 1..Len(s), Undisturbed(p, Way(c, s, k))'
      PROVE  /\ Undisturbed(p, Way(c, s, k))
             /\ \A j \in 1..k : KindAt(Shown(c, Way(c, s, j)))' = KindAt(Shown(c, Way(c, s, j)))
             /\ KindAt(Lookup(Way(c, s, k)))' = KindAt(Lookup(Way(c, s, k)))
  BY <1>1, OpenedKept
<1>2. DirsOK(p, label, c, s)'
  <2> SUFFICES ASSUME NEW k \in 1..Len(s), Undisturbed(p, Way(c, s, k))',
                      ToRead(c, Way(c, s, k)) \/ BeingRead(label, c, Way(c, s, k))
               PROVE  c.recursive /\ c.start # <<>> /\ Opened(c, s, k)'
    BY Zenon DEF DirsOK, ToRead, BeingRead
  <2>1. c.recursive /\ c.start # <<>> /\ Opened(c, s, k)
    BY <1>1, Zenon DEF DirsOK
  <2> QED
    BY <1>1, <2>1, Zenon DEF Opened
<1>3. ASSUME Undisturbed(p, PathOf(c, s))'
      PROVE  Undisturbed(p, PathOf(c, s)) /\ (Lists(c, s)' <=> Lists(c, s))
  <2> PICK n : n = Len(s)
    OBVIOUS
  <2>1. n \in 1..Len(s) /\ n \in 1..n /\ \A j \in 1..(n - 1) : j \in 1..n
    BY NamesThere
  <2>2. PathOf(c, s) = Way(c, s, n)
    BY WaysAre
  <2>3. Undisturbed(p, Way(c, s, n))'
    BY <1>3, <2>2, Zenon
  <2>4. /\ Undisturbed(p, Way(c, s, n))
        /\ \A j \in 1..n : KindAt(Shown(c, Way(c, s, j)))' = KindAt(Shown(c, Way(c, s, j)))
        /\ KindAt(Lookup(Way(c, s, n)))' = KindAt(Lookup(Way(c, s, n)))
    BY <1>1, <2>1, <2>3, Zenon
  <2>5. ListsSo(c, s)' <=> ListsSo(c, s)
    <3>1. Opened(c, s, n - 1)' <=> Opened(c, s, n - 1)
      BY <2>1, <2>4, Zenon DEF Opened
    <3>2. TypeOf(c, Way(c, s, n))' = TypeOf(c, Way(c, s, n))
      BY <2>1, <2>4, Zenon DEF TypeOf
    <3> QED
      BY <2>4, <3>1, <3>2, Zenon DEF ListsSo, MayList
  <2> QED
    BY <2>2, <2>4, <2>5, AllListsAre, AllListsAreNext, Zenon DEF ListsAre
<1>4. ListedOK(p, c, s)'
  BY <1>3, Zenon DEF ListedOK, Got, Coming
<1>5. FoundOK(p, label, c, s)'
  BY <1>3, Zenon DEF FoundOK, Got, Coming, ToRead, Entering, BeingRead
<1> QED
  BY <1>2, <1>4, <1>5

LEMMA ListKept ==
  ASSUME TypeInv, TypeInv', NEW p \in Processes, Settled(p), NEW label, NEW c, ListOK(p, label, c)
  PROVE  ListOK(p, label, c)'
<1> SUFFICES ASSUME c \in ListCalls
             PROVE  /\ ThereOK(p, label, c)' /\ ScanOK(label, c)' /\ OnceOK(label, c)'
                    /\ EntriesOK(p, label, c)' /\ NamesOK(p, label, c)'
  BY Zenon DEF ListOK, ListCalls, Entry, EntryNames, Types
<1>1. /\ ThereOK(p, label, c) /\ ScanOK(label, c) /\ OnceOK(label, c)
      /\ EntriesOK(p, label, c) /\ NamesOK(p, label, c)
  BY Zenon DEF ListOK
<1>2. ThereOK(p, label, c)' /\ EntriesOK(p, label, c)'
  BY <1>1, ThereOKKept, EntriesKept
<1>3. ScanOK(label, c)' /\ OnceOK(label, c)'
  BY <1>1, Zenon DEF ScanOK, OnceOK, Got
<1>4. NamesOK(p, label, c)'
  <2> SUFFICES ASSUME NEW s \in Seq(Names), s # <<>>
               PROVE  DirsOK(p, label, c, s)' /\ ListedOK(p, c, s)' /\ FoundOK(p, label, c, s)'
    BY Zenon DEF NamesOK
  <2>1. DirsOK(p, label, c, s) /\ ListedOK(p, c, s) /\ FoundOK(p, label, c, s)
    BY <1>1, Zenon DEF NamesOK
  <2> QED
    BY <2>1, NamesKept
<1> QED
  BY <1>2, <1>3, <1>4

-----------------------------------------------------------------------------
(* The steps of an enumeration. *)

LEMMA SameCallSame ==
  ASSUME NEW c \in ListCalls, NEW d \in ListCalls, SameCall(c, d)
  PROVE  /\ \A path : Shown(d, path) = Shown(c, path)
         /\ \A path : FromHere(d, path) <=> FromHere(c, path)
         /\ \A s : PathOf(d, s) = PathOf(c, s)
         /\ \A s, k : Way(d, s, k) = Way(c, s, k)
         /\ \A s \in Seq(Names) : Lists(d, s) <=> Lists(c, s)
<1>1. /\ d.recursive = c.recursive /\ d.type = c.type
      /\ d.start = c.start /\ d.pattern = c.pattern
  BY Zenon DEF SameCall
<1>2. /\ \A path : Shown(d, path) = Shown(c, path)
      /\ \A path : FromHere(d, path) <=> FromHere(c, path)
      /\ \A s : PathOf(d, s) = PathOf(c, s)
      /\ \A s, k : Way(d, s, k) = Way(c, s, k)
  BY <1>1, Zenon DEF Shown, FromHere, PathOf, Way
<1>3. ASSUME NEW s \in Seq(Names) PROVE Lists(d, s) <=> Lists(c, s)
  <2>1. ListsSo(d, s) <=> ListsSo(c, s)
    BY <1>1, <1>2, Zenon DEF ListsSo, MayList, TypeOf, Opened
  <2> QED
    BY <2>1, AllListsAre, Zenon DEF ListsAre
<1> QED
  BY <1>2, <1>3

(* A step that lists no more than before, and nothing less. *)
ListsOn(c, d) == \A path : Got(d, path) \/ Coming(d, path) <=> Got(c, path) \/ Coming(c, path)
ReadsOn(label, c, next, d) ==
  \A path : ToRead(d, path) \/ BeingRead(next, d, path) => ToRead(c, path) \/ BeingRead(label, c, path)
EntersOn(label, c, next, d) ==
  \A s \in Seq(Names) : Lists(c, s) =>
    \A k \in 0..(Len(s) - 1) :
      ToRead(c, Way(c, s, k)) \/ Entering(label, c, s, k)
        => ToRead(d, Way(c, s, k)) \/ Entering(next, d, s, k)

LEMMA NamesGoOn ==
  ASSUME NEW p, NEW c \in ListCalls, NEW d \in ListCalls, NEW label, NEW next, SameCall(c, d),
         NamesOK(p, label, c), ListsOn(c, d), ReadsOn(label, c, next, d), EntersOn(label, c, next, d)
  PROVE  NamesOK(p, next, d)
<1> SUFFICES ASSUME NEW s \in Seq(Names), s # <<>>
             PROVE  DirsOK(p, next, d, s) /\ ListedOK(p, d, s) /\ FoundOK(p, next, d, s)
  BY Zenon DEF NamesOK
<1>1. DirsOK(p, label, c, s) /\ ListedOK(p, c, s) /\ FoundOK(p, label, c, s)
  BY Zenon DEF NamesOK
<1>2. /\ \A path : Shown(d, path) = Shown(c, path)
      /\ PathOf(d, s) = PathOf(c, s)
      /\ \A k : Way(d, s, k) = Way(c, s, k)
      /\ (Lists(d, s) <=> Lists(c, s))
  <2>1. /\ \A path : Shown(d, path) = Shown(c, path)
        /\ \A t : PathOf(d, t) = PathOf(c, t)
        /\ \A t, k : Way(d, t, k) = Way(c, t, k)
        /\ \A t \in Seq(Names) : Lists(d, t) <=> Lists(c, t)
    BY SameCallSame
  <2> QED
    BY <2>1, Zenon
<1>3. d.recursive = c.recursive /\ d.start = c.start
  BY Zenon DEF SameCall
<1>4. DirsOK(p, next, d, s)
  <2> SUFFICES ASSUME NEW k \in 1..Len(s), Undisturbed(p, Way(d, s, k)),
                      ToRead(d, Way(d, s, k)) \/ BeingRead(next, d, Way(d, s, k))
               PROVE  d.recursive /\ d.start # <<>> /\ Opened(d, s, k)
    BY Zenon DEF DirsOK
  <2>1. ToRead(c, Way(c, s, k)) \/ BeingRead(label, c, Way(c, s, k))
    BY <1>2, Zenon DEF ReadsOn
  <2>2. c.recursive /\ c.start # <<>> /\ Opened(c, s, k)
    BY <1>1, <1>2, <2>1, Zenon DEF DirsOK
  <2> QED
    BY <1>2, <1>3, <2>2, Zenon DEF Opened
<1>5. ListedOK(p, d, s)
  BY <1>1, <1>2, Zenon DEF ListedOK, ListsOn
<1>6. FoundOK(p, next, d, s)
  <2> SUFFICES ASSUME Undisturbed(p, PathOf(c, s)), Lists(c, s)
               PROVE  \/ Got(d, PathOf(d, s)) \/ Coming(d, PathOf(d, s))
                      \/ \E k \in 0..(Len(s) - 1) : ToRead(d, Way(d, s, k)) \/ Entering(next, d, s, k)
    BY <1>2, Zenon DEF FoundOK
  <2>1. CASE Got(c, PathOf(c, s)) \/ Coming(c, PathOf(c, s))
    BY <1>2, <2>1, Zenon DEF ListsOn
  <2>2. CASE \E k \in 0..(Len(s) - 1) : ToRead(c, Way(c, s, k)) \/ Entering(label, c, s, k)
    BY <1>2, <2>2, Zenon DEF EntersOn
  <2> QED
    BY <1>1, <2>1, <2>2, Zenon DEF FoundOK
<1> QED
  BY <1>4, <1>5, <1>6

LEMMA FullInjective ==
  ASSUME NEW c \in ListCalls, NEW x \in EntryNames, NEW y \in EntryNames, Full(c, x) = Full(c, y)
  PROVE  x = y
<1> PICK base : base = Base(c.root)
  OBVIOUS
<1>1. base \in Paths
  BY BaseIs DEF ListCalls
<1>2. Append(base, x) = Append(base, y)
  BY FullIs, Zenon
<1> QED
  BY <1>1, <1>2, LastOfAppended, Zenon

LEMMA AheadIs ==
  ASSUME NEW c \in ListCalls
  PROVE  /\ \A i \in Ahead(c) : i \in 1..Len(c.dir_entries) /\ c.dir_entries[i] \in Entry
                                /\ c.dir_entries[i].name \in EntryNames
         /\ c.current >= Len(c.dir_entries) => Ahead(c) = {}
<1>1. c.dir_entries \in Seq(Entry) /\ c.current \in Nat /\ Len(c.dir_entries) \in Nat
  BY LenProperties DEF ListCalls
<1>2. ASSUME NEW i \in Ahead(c)
      PROVE  i \in 1..Len(c.dir_entries) /\ c.dir_entries[i] \in Entry /\ c.dir_entries[i].name \in EntryNames
  <2>1. i \in 1..Len(c.dir_entries)
    BY <1>1 DEF Ahead
  <2>2. c.dir_entries[i] \in Entry
    BY <1>1, <2>1, ElementOfSeq
  <2> QED
    BY <2>1, <2>2 DEF Entry
<1> QED
  BY <1>1, <1>2 DEF Ahead

LEMMA ReadingIs ==
  /\ "readdir" \in Reading /\ "stat" \in Reading
  /\ "next" \notin Reading /\ "returned" \notin Reading
  BY DEF Reading

LEMMA NothingRead ==
  ASSUME NEW label, label \notin Reading, NEW c
  PROVE  \A path : ~BeingRead(label, c, path)
  BY Zenon DEF BeingRead

(* next() within a directory. *)
LEMMA EmitsListed ==
  ASSUME NEW p, NEW c \in ListCalls, NEW d \in ListCalls, ListOK(p, "next", c), Emits(c, d)
  PROVE  ListOK(p, "next", d)
<1>1. /\ ThereOK(p, "next", c) /\ ScanOK("next", c) /\ OnceOK("next", c)
      /\ EntriesOK(p, "next", c) /\ NamesOK(p, "next", c)
  BY Zenon DEF ListOK
<1> PICK n : n = c.current + 1
  OBVIOUS
<1> PICK m : m = Len(c.listed)
  OBVIOUS
<1> PICK path : path = Full(c, c.dir_entries[n].name)
  OBVIOUS
<1>2. /\ n \in Ahead(c) /\ n \notin Ahead(d) /\ Ahead(d) \subseteq Ahead(c)
      /\ \A i \in Ahead(c) : i = n \/ i \in Ahead(d)
  <2>1. c.current \in Nat /\ Len(c.dir_entries) \in Nat /\ c.current < Len(c.dir_entries)
        /\ d.current = n /\ d.dir_entries = c.dir_entries
    BY LenProperties DEF Emits, ListCalls
  <2> QED
    BY <2>1 DEF Ahead
<1>3. /\ d.root = c.root /\ d.pending = c.pending /\ d.dir_entries = c.dir_entries
      /\ SameCall(c, d)
  BY Zenon DEF Emits
<1>4. \A y : Full(d, y) = Full(c, y)
  BY <1>3, Zenon DEF Full
<1>5. /\ m \in Nat /\ Len(d.listed) = m + 1 /\ d.listed[m + 1] = path
      /\ \A i \in 1..m : d.listed[i] = c.listed[i]
  <2>1. c.listed \in Seq(Paths) /\ path \in Paths
    <3>1. c.dir_entries[n].name \in EntryNames
      BY <1>2, AheadIs
    <3> QED
      BY <3>1, FullIs DEF ListCalls
  <2>2. d.listed = Append(c.listed, path)
    BY Zenon DEF Emits
  <2> QED
    BY <2>1, <2>2, AppendProperties, LenProperties
<1>6. \A i \in 1..Len(d.listed) : (i = m + 1 \/ i \in 1..m) /\ (i \in 1..m => i # m + 1)
  BY <1>5
<1>7. m + 1 \in 1..Len(d.listed) /\ \A i \in 1..m : i \in 1..Len(d.listed)
  BY <1>5
<1>8. \A q : Got(d, q) <=> Got(c, q) \/ q = path
  BY <1>5, <1>6, <1>7, Zenon DEF Got
<1>9. \A q : Coming(c, q) <=> Coming(d, q) \/ q = path
  BY <1>2, <1>3, <1>4, Zenon DEF Coming
<1>10. There(p, path)
  BY <1>1, <1>2, Zenon DEF ThereOK
<1>11. ThereOK(p, "next", d)
  <2>1. \A i \in 1..Len(d.listed) : There(p, d.listed[i])
    BY <1>1, <1>5, <1>6, <1>10, Zenon DEF ThereOK
  <2>2. \A i \in Ahead(d) : There(p, Full(d, d.dir_entries[i].name))
    BY <1>1, <1>2, <1>3, <1>4, Zenon DEF ThereOK
  <2> QED
    BY <2>1, <2>2, ReadingIs, Zenon DEF ThereOK
<1>12. ScanOK("next", d)
  <2>1. \A i \in 1..Len(c.pending) : FromHere(c, StripTrailingSeparators(c.pending[i]))
    BY <1>1, Zenon DEF ScanOK
  <2>2. \A i \in 1..Len(d.pending) : FromHere(d, StripTrailingSeparators(d.pending[i]))
    BY <1>3, <2>1, SameCallSame, ZenonT(60)
  <2> QED
    BY <2>2, ReadingIs DEF ScanOK
<1>13. OnceOK("next", d)
  <2>1. /\ \A i, j \in 1..Len(c.listed) : i # j => c.listed[i] # c.listed[j]
        /\ \A i, j \in Ahead(c) : i # j => c.dir_entries[i].name # c.dir_entries[j].name
        /\ \A i \in Ahead(c) : ~Got(c, Full(c, c.dir_entries[i].name))
        /\ \A a \in 1..Len(c.pending) :
             /\ \A i \in 1..Len(c.listed) : ~Under(BaseOf(c.pending[a]), c.listed[i])
             /\ \A i \in Ahead(c) : ~Under(BaseOf(c.pending[a]), Full(c, c.dir_entries[i].name))
             /\ \A b \in 1..Len(c.pending) : a # b => Apart(BaseOf(c.pending[a]), BaseOf(c.pending[b]))
    BY <1>1, Zenon DEF OnceOK
  <2>2. \A i \in 1..m : c.listed[i] # path
    BY <1>2, <2>1, Zenon DEF Got
  <2>3. \A i, j \in 1..Len(d.listed) : i # j => d.listed[i] # d.listed[j]
    BY <1>5, <1>6, <2>1, <2>2, Zenon
  <2>4. \A i, j \in Ahead(d) : i # j => d.dir_entries[i].name # d.dir_entries[j].name
    BY <1>2, <1>3, <2>1, Zenon
  <2>5. ASSUME NEW i \in Ahead(d) PROVE ~Got(d, Full(d, d.dir_entries[i].name))
    <3>1. i \in Ahead(c) /\ i # n
      BY <1>2, Zenon
    <3>2. c.dir_entries[i].name \in EntryNames /\ c.dir_entries[n].name \in EntryNames
      BY <1>2, <3>1, AheadIs
    <3>3. Full(c, c.dir_entries[i].name) # path
      BY <1>2, <2>1, <3>1, <3>2, FullInjective, Zenon
    <3> QED
      BY <1>3, <1>4, <1>8, <2>1, <3>1, <3>3, Zenon
  <2>6. ASSUME NEW a \in 1..Len(d.pending)
        PROVE  /\ \A i \in 1..Len(d.listed) : ~Under(BaseOf(d.pending[a]), d.listed[i])
               /\ \A i \in Ahead(d) : ~Under(BaseOf(d.pending[a]), Full(d, d.dir_entries[i].name))
               /\ \A b \in 1..Len(d.pending) : a # b => Apart(BaseOf(d.pending[a]), BaseOf(d.pending[b]))
    <3>1. a \in 1..Len(c.pending) /\ d.pending = c.pending
      BY <1>3, Zenon
    <3>2. ASSUME NEW i \in 1..Len(d.listed) PROVE ~Under(BaseOf(c.pending[a]), d.listed[i])
      <4>1. CASE i = m + 1
        BY <1>2, <1>5, <2>1, <3>1, <4>1, ZenonT(60)
      <4>2. CASE i \in 1..m
        BY <1>5, <2>1, <3>1, <4>2, Zenon
      <4> QED
        BY <1>6, <4>1, <4>2, Zenon
    <3>3. \A i \in Ahead(d) : ~Under(BaseOf(c.pending[a]), Full(d, d.dir_entries[i].name))
      BY <1>2, <1>3, <1>4, <2>1, <3>1, Zenon
    <3> QED
      BY <2>1, <3>1, <3>2, <3>3, Zenon
  <2> QED
    BY <2>3, <2>4, <2>5, <2>6, ReadingIs, Zenon DEF OnceOK
<1>14. EntriesOK(p, "next", d)
  BY ReadingIs, Zenon DEF EntriesOK
<1>15. NamesOK(p, "next", d)
  <2>1. \A q : ToRead(d, q) <=> ToRead(c, q)
    BY <1>3, Zenon DEF ToRead
  <2>2. ListsOn(c, d)
    BY <1>8, <1>9, Zenon DEF ListsOn
  <2>3. ReadsOn("next", c, "next", d)
    BY <2>1, ReadingIs, NothingRead, Zenon DEF ReadsOn
  <2>4. EntersOn("next", c, "next", d)
    BY <2>1, ReadingIs, NothingRead, Zenon DEF EntersOn, Entering
  <2> QED
    BY <1>1, <1>3, <2>2, <2>3, <2>4, NamesGoOn
<1> QED
  BY <1>11, <1>12, <1>13, <1>14, <1>15, Zenon DEF ListOK

(* next() when the directory that has been read is at its end. *)
LEMMA EndsListed ==
  ASSUME NEW p, NEW c \in ListCalls, NEW d \in ListCalls, ListOK(p, "next", c), Ends(c, d)
  PROVE  ListOK(p, "returned", d)
<1>1. /\ ThereOK(p, "next", c) /\ ScanOK("next", c) /\ OnceOK("next", c)
      /\ EntriesOK(p, "next", c) /\ NamesOK(p, "next", c)
  BY Zenon DEF ListOK
<1>2. /\ Ahead(c) = {} /\ d.pending = <<>> /\ c.pending = <<>> /\ d.listed = c.listed
      /\ d.dir_entries = c.dir_entries /\ d.current = c.current /\ SameCall(c, d)
  BY AheadIs, Zenon DEF Ends, SameList
<1>3. Ahead(d) = {} /\ 1..Len(d.pending) = {}
  BY <1>2, EmptySeq DEF Ahead
<1>4. /\ \A q : Got(d, q) <=> Got(c, q)
      /\ \A q : ~Coming(d, q) /\ ~Coming(c, q) /\ ~ToRead(d, q) /\ ~ToRead(c, q)
  <2>1. 1..Len(c.pending) = {}
    BY <1>2, <1>3, Zenon
  <2> QED
    BY <1>2, <1>3, <2>1, Zenon DEF Got, Coming, ToRead
<1>5. ThereOK(p, "returned", d)
  BY <1>1, <1>2, <1>3, ReadingIs, Zenon DEF ThereOK
<1>6. ScanOK("returned", d)
  BY <1>2, <1>3, ReadingIs DEF ScanOK
<1>7. OnceOK("returned", d)
  BY <1>1, <1>2, <1>3, ReadingIs, Zenon DEF OnceOK
<1>8. EntriesOK(p, "returned", d)
  BY ReadingIs, Zenon DEF EntriesOK
<1>9. NamesOK(p, "returned", d)
  <2>1. ListsOn(c, d)
    BY <1>4, Zenon DEF ListsOn
  <2>2. ReadsOn("next", c, "returned", d)
    BY <1>4, ReadingIs, NothingRead, Zenon DEF ReadsOn
  <2>3. EntersOn("next", c, "returned", d)
    BY <1>4, ReadingIs, NothingRead, Zenon DEF EntersOn, Entering
  <2> QED
    BY <1>1, <1>2, <2>1, <2>2, <2>3, NamesGoOn
<1> QED
  BY <1>5, <1>6, <1>7, <1>8, <1>9, Zenon DEF ListOK

(* A name that should be listed is below directories. *)
LEMMA ListedThere ==
  ASSUME TypeInv, NEW c \in ListCalls, NEW s \in Seq(Names), Lists(c, s), NEW k \in 0..(Len(s) - 1)
  PROVE  /\ k + 1 \in 1..Len(s) /\ s[k + 1] \in Names /\ IsStripped(Way(c, s, k))
         /\ DirectoryExists(Way(c, s, k))
         /\ s[k + 1] \in {Last(n) : n \in Children(Target(Way(c, s, k)))}
<1>1. ListsSo(c, s)
  BY AllListsAre, Zenon DEF ListsAre
<1> PICK l : l = Len(s)
  OBVIOUS
<1> PICK m : m = k + 1
  OBVIOUS
<1> PICK way : way = Way(c, s, k)
  OBVIOUS
<1>2. l \in Nat /\ m \in 1..l /\ m - 1 = k /\ (k # 0 => k \in 1..l) /\ (m = l \/ m \in 1..(l - 1))
  BY LenProperties
<1>3. s[m] \in Names /\ Way(c, s, m) = Append(Base(way), s[m])
  BY <1>2, WayStep, Zenon
<1>4. IsStripped(way)
  <2>1. CASE k = 0
    <3>1. way = StripTrailingSeparators(c.start) /\ c.start # <<>> /\ c.start \in Paths
      BY <1>1, <2>1, WaysAre DEF ListsSo, MayList, ListCalls
    <3> QED
      BY <3>1, StripIsStripped
  <2>2. CASE k # 0
    BY <1>2, <2>2, WayStep, Zenon
  <2> QED
    BY <2>1, <2>2
<1>5. KindAt(Lookup(Way(c, s, m))) # "none"
  <2>1. CASE m = l
    BY <1>1, <2>1, Zenon DEF ListsSo
  <2>2. CASE m \in 1..(l - 1)
    <3> PICK path : path = Way(c, s, m)
      OBVIOUS
    <3>1. KindAt(Shown(c, path)) = "dir"
      BY <1>1, <2>2, Zenon DEF ListsSo, Opened
    <3>2. CASE Shown(c, path) = Lookup(path)
      BY <3>1, <3>2
    <3>3. CASE Shown(c, path) = Target(path)
      <4>1. Lookup(path) # NoNode
        BY <3>1, <3>3, NodesAssumption DEF Target, Follow, KindAt
      <4>2. CASE Follow(Lookup(path)) = Lookup(path)
        BY <3>1, <3>3, <4>2, Zenon DEF Target
      <4>3. CASE Follow(Lookup(path)) # Lookup(path)
        BY <4>1, <4>3 DEF Follow, KindAt
      <4> QED
        BY <4>2, <4>3
    <3> QED
      BY <3>2, <3>3, Zenon DEF Shown
  <2> QED
    BY <1>2, <2>1, <2>2
<1>6. KindAt(Lookup(Append(Base(way), s[m]))) # "none"
  BY <1>3, <1>5, Zenon
<1>7. DirectoryExists(way) /\ s[m] \in {Last(n) : n \in Children(Target(way))}
  BY <1>3, <1>4, <1>6, ThereIsEntry, Zenon
<1> QED
  BY <1>2, <1>3, <1>4, <1>7, Zenon

(* next() takes the last of the pending directories. *)
LEMMA PopsIs ==
  ASSUME NEW c \in ListCalls, NEW d \in ListCalls, Pops(c, d)
  PROVE  /\ Len(c.pending) \in 1..Len(c.pending)
         /\ c.pending[Len(c.pending)] \in Paths
         /\ d.root = StripTrailingSeparators(c.pending[Len(c.pending)])
         /\ Base(d.root) = BaseOf(c.pending[Len(c.pending)])
         /\ \A i \in 1..Len(d.pending) :
              i \in 1..Len(c.pending) /\ i # Len(c.pending) /\ d.pending[i] = c.pending[i]
         /\ \A i \in 1..Len(c.pending) : i = Len(c.pending) \/ i \in 1..Len(d.pending)
         /\ Ahead(c) = {} /\ Ahead(d) = {} /\ d.listed = c.listed /\ SameCall(c, d)
<1> PICK s : s = c.pending
  OBVIOUS
<1> PICK n : n = Len(s)
  OBVIOUS
<1>1. s \in Seq(Paths) /\ s # <<>> /\ n \in Nat /\ n \in 1..n
  <2>1. s \in Seq(Paths) /\ s # <<>>
    BY Zenon DEF Pops, ListCalls
  <2> QED
    BY <2>1, EmptySeq, LenProperties
<1>2. s[n] \in Paths
  BY <1>1, ElementOfSeq
<1>3. d.root = StripTrailingSeparators(s[n])
  BY Zenon DEF Pops, Last
<1>4. Len(Front(s)) = n - 1 /\ \A i \in 1..(n - 1) : Front(s)[i] = s[i]
  BY <1>1 DEF Front
<1>5. d.pending = Front(s)
  BY Zenon DEF Pops
<1>6. /\ \A i \in 1..(n - 1) : i \in 1..n /\ i # n
      /\ \A i \in 1..n : i = n \/ i \in 1..(n - 1)
  BY <1>1
<1>7. /\ Ahead(c) = {} /\ d.listed = c.listed /\ d.dir_entries = c.dir_entries
      /\ d.current = c.current /\ SameCall(c, d)
  BY AheadIs, Zenon DEF Pops, SameList
<1>8. Ahead(d) = {}
  BY <1>7, Zenon DEF Ahead
<1> QED
  BY <1>1, <1>2, <1>3, <1>4, <1>5, <1>6, <1>7, <1>8, Zenon DEF BaseOf

LEMMA PopsCommon ==
  ASSUME NEW p, NEW c \in ListCalls, NEW d \in ListCalls, ListOK(p, "next", c), Pops(c, d), NEW label
  PROVE  /\ \A i \in 1..Len(d.listed) : There(p, d.listed[i])
         /\ FromHere(d, d.root)
         /\ \A i \in 1..Len(d.pending) : FromHere(d, StripTrailingSeparators(d.pending[i]))
         /\ \A i, j \in 1..Len(d.listed) : i # j => d.listed[i] # d.listed[j]
         /\ \A i \in 1..Len(d.listed) : ~Under(Base(d.root), d.listed[i])
         /\ \A a \in 1..Len(d.pending) :
              /\ \A i \in 1..Len(d.listed) : ~Under(BaseOf(d.pending[a]), d.listed[i])
              /\ \A b \in 1..Len(d.pending) : a # b => Apart(BaseOf(d.pending[a]), BaseOf(d.pending[b]))
              /\ Apart(BaseOf(d.pending[a]), Base(d.root))
         /\ ListsOn(c, d) /\ ReadsOn("next", c, label, d)
         /\ \A path : ToRead(c, path) => ToRead(d, path) \/ path = d.root
<1>1. /\ ThereOK(p, "next", c) /\ ScanOK("next", c) /\ OnceOK("next", c)
  BY Zenon DEF ListOK
<1> PICK n : n = Len(c.pending)
  OBVIOUS
<1>2. /\ n \in 1..Len(c.pending)
      /\ d.root = StripTrailingSeparators(c.pending[n])
      /\ Base(d.root) = BaseOf(c.pending[n])
      /\ \A i \in 1..Len(d.pending) : i \in 1..Len(c.pending) /\ i # n /\ d.pending[i] = c.pending[i]
      /\ \A i \in 1..Len(c.pending) : i = n \/ i \in 1..Len(d.pending)
      /\ Ahead(c) = {} /\ Ahead(d) = {} /\ d.listed = c.listed /\ SameCall(c, d)
  BY PopsIs
<1>3. \A i \in 1..Len(d.listed) : There(p, d.listed[i])
  BY <1>1, <1>2, Zenon DEF ThereOK
<1>4. /\ FromHere(d, d.root)
      /\ \A i \in 1..Len(d.pending) : FromHere(d, StripTrailingSeparators(d.pending[i]))
  <2>1. \A i \in 1..Len(c.pending) : FromHere(c, StripTrailingSeparators(c.pending[i]))
    BY <1>1, Zenon DEF ScanOK
  <2>2. \A i \in 1..Len(c.pending) : FromHere(d, StripTrailingSeparators(c.pending[i]))
    BY <1>2, <2>1, SameCallSame, Zenon
  <2> QED
    BY <1>2, <2>2, Zenon
<1>5. /\ \A i, j \in 1..Len(d.listed) : i # j => d.listed[i] # d.listed[j]
      /\ \A a \in 1..Len(c.pending) :
           /\ \A i \in 1..Len(d.listed) : ~Under(BaseOf(c.pending[a]), d.listed[i])
           /\ \A b \in 1..Len(c.pending) : a # b => Apart(BaseOf(c.pending[a]), BaseOf(c.pending[b]))
  BY <1>1, <1>2, Zenon DEF OnceOK
<1>6. \A i \in 1..Len(d.listed) : ~Under(Base(d.root), d.listed[i])
  BY <1>2, <1>5, Zenon
<1>7. ASSUME NEW a \in 1..Len(d.pending)
      PROVE  /\ \A i \in 1..Len(d.listed) : ~Under(BaseOf(d.pending[a]), d.listed[i])
             /\ \A b \in 1..Len(d.pending) : a # b => Apart(BaseOf(d.pending[a]), BaseOf(d.pending[b]))
             /\ Apart(BaseOf(d.pending[a]), Base(d.root))
  BY <1>2, <1>5, Zenon
<1>8. \A path : ToRead(c, path) => ToRead(d, path) \/ path = d.root
  BY <1>2, Zenon DEF ToRead
<1>9. \A path : ToRead(d, path) \/ path = d.root => ToRead(c, path)
  BY <1>2, Zenon DEF ToRead
<1>10. ReadsOn("next", c, label, d)
  BY <1>9, Zenon DEF ReadsOn, BeingRead
<1>11. ListsOn(c, d)
  BY <1>2, Zenon DEF ListsOn, Got, Coming
<1> QED
  BY <1>3, <1>4, <1>5, <1>6, <1>7, <1>8, <1>10, <1>11

LEMMA PopsListed ==
  ASSUME TypeInv, NEW p, NEW c \in ListCalls, NEW d \in ListCalls, ListOK(p, "next", c), Pops(c, d),
         ~DirectoryExists(d.root)
  PROVE  ListOK(p, "next", d)
<1>1. /\ \A i \in 1..Len(d.listed) : There(p, d.listed[i])
      /\ \A i \in 1..Len(d.pending) : FromHere(d, StripTrailingSeparators(d.pending[i]))
      /\ \A i, j \in 1..Len(d.listed) : i # j => d.listed[i] # d.listed[j]
      /\ \A a \in 1..Len(d.pending) :
           /\ \A i \in 1..Len(d.listed) : ~Under(BaseOf(d.pending[a]), d.listed[i])
           /\ \A b \in 1..Len(d.pending) : a # b => Apart(BaseOf(d.pending[a]), BaseOf(d.pending[b]))
      /\ ListsOn(c, d) /\ ReadsOn("next", c, "next", d)
      /\ \A path : ToRead(c, path) => ToRead(d, path) \/ path = d.root
  BY PopsCommon
<1>2. Ahead(d) = {} /\ SameCall(c, d)
  BY PopsIs
<1>3. ThereOK(p, "next", d)
  BY <1>1, <1>2, ReadingIs, Zenon DEF ThereOK
<1>4. ScanOK("next", d)
  BY <1>1, ReadingIs DEF ScanOK
<1>5. OnceOK("next", d)
  BY <1>1, <1>2, ReadingIs, Zenon DEF OnceOK
<1>6. EntriesOK(p, "next", d)
  BY ReadingIs, Zenon DEF EntriesOK
<1>7. EntersOn("next", c, "next", d)
  <2> SUFFICES ASSUME NEW s \in Seq(Names), Lists(c, s), NEW k \in 0..(Len(s) - 1),
                      ToRead(c, Way(c, s, k)) \/ Entering("next", c, s, k)
               PROVE  ToRead(d, Way(c, s, k))
    BY Zenon DEF EntersOn
  <2>1. ToRead(c, Way(c, s, k))
    BY ReadingIs, NothingRead, Zenon DEF Entering
  <2>2. DirectoryExists(Way(c, s, k))
    BY ListedThere
  <2> QED
    BY <1>1, <2>1, <2>2, Zenon
<1>8. NamesOK(p, "next", d)
  <2>1. NamesOK(p, "next", c)
    BY Zenon DEF ListOK
  <2> QED
    BY <1>1, <1>2, <1>7, <2>1, NamesGoOn
<1> QED
  BY <1>3, <1>4, <1>5, <1>6, <1>8, Zenon DEF ListOK

LEMMA OpensListed ==
  ASSUME TypeInv, NEW p, NEW c \in ListCalls, NEW d \in ListCalls, ListOK(p, "next", c), Opens(c, d),
         DirectoryExists(d.root)
  PROVE  ListOK(p, "readdir", d)
<1>0. Pops(c, d)
  BY Zenon DEF Opens
<1>1. /\ \A i \in 1..Len(d.listed) : There(p, d.listed[i])
      /\ FromHere(d, d.root)
      /\ \A i \in 1..Len(d.pending) : FromHere(d, StripTrailingSeparators(d.pending[i]))
      /\ \A i, j \in 1..Len(d.listed) : i # j => d.listed[i] # d.listed[j]
      /\ \A i \in 1..Len(d.listed) : ~Under(Base(d.root), d.listed[i])
      /\ \A a \in 1..Len(d.pending) :
           /\ \A i \in 1..Len(d.listed) : ~Under(BaseOf(d.pending[a]), d.listed[i])
           /\ \A b \in 1..Len(d.pending) : a # b => Apart(BaseOf(d.pending[a]), BaseOf(d.pending[b]))
           /\ Apart(BaseOf(d.pending[a]), Base(d.root))
      /\ ListsOn(c, d) /\ ReadsOn("next", c, "readdir", d)
      /\ \A path : ToRead(c, path) => ToRead(d, path) \/ path = d.root
  BY <1>0, PopsCommon
<1>2. Ahead(d) = {} /\ SameCall(c, d)
  BY <1>0, PopsIs
<1>3. IsStripped(d.root)
  <2> PICK path : path = c.pending[Len(c.pending)]
    OBVIOUS
  <2>1. path \in Paths /\ d.root = StripTrailingSeparators(path)
    BY <1>0, PopsIs
  <2>2. path # <<>>
    <3>1. Lookup(<<>>) = NoNode
      BY Zenon DEF Lookup
    <3>2. Target(<<>>) = NoNode
      BY <3>1, NodesAssumption DEF Target, Follow
    <3>3. ~DirectoryExists(<<>>)
      BY <3>2 DEF DirectoryExists, KindAt
    <3> QED
      BY <2>1, <3>3, NothingStripped, Zenon
  <2> QED
    BY <2>1, <2>2, StripIsStripped, Zenon
<1>4. /\ d.seen = {} /\ d.left = {Last(n) : n \in Children(Target(d.root))}
      /\ Len(d.entries) = 2 /\ d.entries[1].name = kCurrentDirectory
      /\ d.entries[2].name = kParentDirectory
  BY DEF Opens
<1>5. \A i \in 1..Len(d.entries) : i = 1 \/ i = 2
  BY <1>4
<1>6. ThereOK(p, "readdir", d)
  <2>1. \A x \in EntryNames : Full(d, x) = Append(Base(d.root), x)
    BY FullIs
  <2>2. d.left \subseteq Names
    BY DEF ListCalls
  <2>3. \A x \in d.left : There(p, Full(d, x))
    <3> SUFFICES ASSUME NEW x \in d.left PROVE KindAt(Lookup(Full(d, x))) # "none"
      BY Zenon DEF There
    <3>1. x \in EntryNames /\ x \in {Last(n) : n \in Children(Target(d.root))}
      BY <1>4, <2>2, NamesAreEntries, Zenon
    <3>2. KindAt(Lookup(Append(Base(d.root), x))) # "none"
      BY <1>3, <3>1, EntryThere, Zenon
    <3> QED
      BY <2>1, <3>1, <3>2, Zenon
  <2>4. \A i \in 1..Len(d.entries) : There(p, Full(d, d.entries[i].name))
    <3> SUFFICES ASSUME NEW x \in {kCurrentDirectory, kParentDirectory}
                 PROVE  KindAt(Lookup(Full(d, x))) # "none"
      BY <1>4, <1>5, Zenon DEF There
    <3>1. x \in EntryNames
      BY NamesAreEntries
    <3>2. KindAt(Lookup(Append(Base(d.root), x))) # "none"
      BY <1>3, <3>1, EntryThere, Zenon
    <3> QED
      BY <2>1, <3>1, <3>2, Zenon
  <2> QED
    BY <1>1, <1>2, <2>3, <2>4, Zenon DEF ThereOK
<1>7. ScanOK("readdir", d)
  <2>1. \A i \in 3..Len(d.entries) : FALSE
    BY <1>4
  <2>2. \A i, j \in 1..Len(d.entries) : i # j => d.entries[i].name # d.entries[j].name
    BY <1>4, <1>5, TokensDiffer, Zenon
  <2> QED
    BY <1>1, <1>2, <1>3, <1>4, <2>1, <2>2 DEF ScanOK
<1>8. OnceOK("readdir", d)
  BY <1>1, <1>2, Zenon DEF OnceOK
<1>9. EntriesOK(p, "readdir", d)
  <2>1. \A i \in 3..Len(d.entries) : FALSE
    BY <1>4
  <2> QED
    BY <2>1, Zenon DEF EntriesOK
<1>10. EntersOn("next", c, "readdir", d)
  <2> SUFFICES ASSUME NEW s \in Seq(Names), Lists(c, s), NEW k \in 0..(Len(s) - 1),
                      ToRead(c, Way(c, s, k)) \/ Entering("next", c, s, k)
               PROVE  ToRead(d, Way(c, s, k)) \/ Entering("readdir", d, s, k)
    BY Zenon DEF EntersOn
  <2>1. ToRead(c, Way(c, s, k))
    BY ReadingIs, NothingRead, Zenon DEF Entering
  <2> SUFFICES ASSUME Way(c, s, k) = d.root PROVE Entering("readdir", d, s, k)
    BY <1>1, <2>1, Zenon
  <2>2. s[k + 1] \in d.left \ d.seen
    <3>1. s[k + 1] \in {Last(n) : n \in Children(Target(Way(c, s, k)))}
      BY ListedThere
    <3> QED
      BY <1>4, <3>1, Zenon
  <2>3. Way(d, s, k) = d.root
    <3>1. \A t, j : Way(d, t, j) = Way(c, t, j)
      BY <1>2, SameCallSame
    <3> QED
      BY <3>1, Zenon
  <2> QED
    BY <2>2, <2>3, ReadingIs, Zenon DEF Entering, BeingRead
<1>11. NamesOK(p, "readdir", d)
  <2>1. NamesOK(p, "next", c)
    BY Zenon DEF ListOK
  <2> QED
    BY <1>1, <1>2, <1>10, <2>1, NamesGoOn
<1> QED
  BY <1>6, <1>7, <1>8, <1>9, <1>11, Zenon DEF ListOK

(* While a directory is read, only its entries become more.                *)
LEMMA ReadingSame ==
  ASSUME NEW p, NEW c \in ListCalls, NEW d \in ListCalls, NEW label \in Reading, NEW next \in Reading,
         ListOK(p, label, c), SameList(c, d), d.root = c.root, d.pending = c.pending
  PROVE  /\ \A y : Full(d, y) = Full(c, y)
         /\ \A path : Shown(d, path) = Shown(c, path)
         /\ \A s, k : Way(d, s, k) = Way(c, s, k)
         /\ \A i \in 1..Len(d.listed) : There(p, d.listed[i])
         /\ Ahead(d) = {} /\ IsStripped(d.root) /\ FromHere(d, d.root)
         /\ \A i \in 1..Len(d.pending) : FromHere(d, StripTrailingSeparators(d.pending[i]))
         /\ OnceOK(next, d)
         /\ ListsOn(c, d) /\ ReadsOn(label, c, next, d)
         /\ \A path : ToRead(d, path) <=> ToRead(c, path)
         /\ \A path : BeingRead(next, d, path) <=> BeingRead(label, c, path)
<1>1. /\ ThereOK(p, label, c) /\ ScanOK(label, c) /\ OnceOK(label, c)
  BY Zenon DEF ListOK
<1>2. /\ SameCall(c, d) /\ d.listed = c.listed /\ d.dir_entries = c.dir_entries
      /\ d.current = c.current
  BY Zenon DEF SameList
<1>3. \A y : Full(d, y) = Full(c, y)
  BY Zenon DEF Full
<1>4. /\ \A path : Shown(d, path) = Shown(c, path)
      /\ \A path : FromHere(d, path) <=> FromHere(c, path)
      /\ \A s, k : Way(d, s, k) = Way(c, s, k)
  BY <1>2, SameCallSame
<1>5. Ahead(d) = {} /\ Ahead(c) = {} /\ IsStripped(d.root) /\ FromHere(d, d.root)
  <2>1. Ahead(c) = {} /\ IsStripped(c.root) /\ FromHere(c, c.root)
    BY <1>1, Zenon DEF ScanOK
  <2> QED
    BY <1>2, <1>4, <2>1, Zenon DEF Ahead
<1>6. \A i \in 1..Len(d.pending) : FromHere(d, StripTrailingSeparators(d.pending[i]))
  <2>1. \A i \in 1..Len(c.pending) : FromHere(c, StripTrailingSeparators(c.pending[i]))
    BY <1>1, Zenon DEF ScanOK
  <2> QED
    BY <1>4, <2>1, Zenon
<1>7. \A i \in 1..Len(d.listed) : There(p, d.listed[i])
  BY <1>1, <1>2, Zenon DEF ThereOK
<1>8. OnceOK(next, d)
  BY <1>1, <1>2, <1>5, Zenon DEF OnceOK
<1>9. /\ \A path : ToRead(d, path) <=> ToRead(c, path)
      /\ \A path : BeingRead(next, d, path) <=> BeingRead(label, c, path)
  BY Zenon DEF ToRead, BeingRead
<1>10. ListsOn(c, d)
  BY <1>2, <1>5, Zenon DEF ListsOn, Got, Coming
<1>11. ReadsOn(label, c, next, d)
  BY <1>9, Zenon DEF ReadsOn
<1> QED
  BY <1>3, <1>4, <1>5, <1>6, <1>7, <1>8, <1>9, <1>10, <1>11

LEMMA ReadsListed ==
  ASSUME TypeInv, NEW p, NEW c \in ListCalls, NEW d \in ListCalls, ListOK(p, "readdir", c),
         NEW name \in (c.left \cup Present(c)) \ c.seen, Reads(c, d, name)
  PROVE  ListOK(p, "stat", d)
<1>1. /\ ThereOK(p, "readdir", c) /\ ScanOK("readdir", c)
      /\ EntriesOK(p, "readdir", c) /\ NamesOK(p, "readdir", c)
  BY Zenon DEF ListOK
<1>2. /\ SameList(c, d) /\ SameCall(c, d) /\ d.root = c.root /\ d.pending = c.pending /\ d.left = c.left
      /\ d.seen = c.seen \cup {name}
  BY Zenon DEF Reads, SameList
<1>3. /\ \A y : Full(d, y) = Full(c, y)
      /\ \A path : Shown(d, path) = Shown(c, path)
      /\ \A s, k : Way(d, s, k) = Way(c, s, k)
      /\ \A i \in 1..Len(d.listed) : There(p, d.listed[i])
      /\ Ahead(d) = {} /\ IsStripped(d.root) /\ FromHere(d, d.root)
      /\ \A i \in 1..Len(d.pending) : FromHere(d, StripTrailingSeparators(d.pending[i]))
      /\ OnceOK("stat", d)
      /\ ListsOn(c, d) /\ ReadsOn("readdir", c, "stat", d)
      /\ \A path : ToRead(d, path) <=> ToRead(c, path)
      /\ \A path : BeingRead("stat", d, path) <=> BeingRead("readdir", c, path)
  BY <1>2, ReadingIs, ReadingSame
<1> PICK m : m = Len(c.entries)
  OBVIOUS
<1>4. /\ m \in Nat /\ Len(d.entries) = m + 1 /\ d.entries[m + 1].name = name
      /\ \A i \in 1..m : d.entries[i] = c.entries[i]
  <2> PICK e : e = [name |-> name, dir |-> FALSE]
    OBVIOUS
  <2>1. e.name = name /\ d.entries = Append(c.entries, e) /\ c.entries \in Seq(Entry)
    BY Zenon DEF Reads, ListCalls
  <2>2. e \in Entry
    <3>1. name \in Names
      BY NamesOfChildren DEF ListCalls, Present
    <3> QED
      BY <3>1, NamesAreEntries DEF Entry
  <2> QED
    BY <2>1, <2>2, AppendProperties, LenProperties
<1>5. /\ name \in Names /\ name \in EntryNames /\ name # kCurrentDirectory /\ name # kParentDirectory
      /\ name \notin c.seen
  <2>1. name \in Names
    BY NamesOfChildren DEF ListCalls, Present
  <2> QED
    BY <2>1, NamesAreEntries DEF Names
<1>6. m >= 2
  BY <1>1, ReadingIs, Zenon DEF ScanOK
<1>7. /\ m + 1 \in 3..(m + 1) /\ m + 1 \in 1..(m + 1)
      /\ \A i \in 1..(m + 1) : (i = m + 1 \/ i \in 1..m) /\ (i \in 1..m => i # m + 1)
      /\ \A i \in 3..(m + 1) : i = m + 1 \/ i \in 3..m
      /\ \A i \in 3..m : i \in 3..(m + 1) /\ i \in 1..m /\ i # m + 1
      /\ 1 \in 1..m /\ 2 \in 1..m /\ m + 1 >= 3 /\ m + 1 >= 2
      /\ \A i \in 1..m : i = 1 \/ i = 2 \/ i \in 3..m
  BY <1>4, <1>6
<1>8. There(p, Full(c, name))
  <2>1. CASE name \in c.left
    BY <1>1, <2>1, ReadingIs, Zenon DEF ThereOK
  <2>2. CASE name \in Present(c)
    <3>1. PICK n \in Children(Target(c.root)) : name = Last(n)
      BY <2>2, Zenon DEF Present
    <3>2. n \in Nodes /\ n # Root /\ tree[n] # "none" /\ Front(n) = Target(c.root)
      BY <3>1, Zenon DEF Children
    <3>3. tree[Target(c.root)] = "dir" /\ Target(c.root) \in Nodes
      BY <3>2, NodesAssumption, Zenon DEF TypeInv, TypeOK
    <3>4. DirectoryExists(c.root)
      BY <3>3, NodesAssumption DEF DirectoryExists, KindAt
    <3>5. IsStripped(c.root)
      BY <1>2, <1>3
    <3>6. name \in {Last(x) : x \in Children(Target(c.root))}
      BY <2>2, Zenon DEF Present
    <3>7. KindAt(Lookup(Append(Base(c.root), name))) # "none"
      BY <1>5, <3>4, <3>5, <3>6, EntryThere, Zenon
    <3>8. Full(c, name) = Append(Base(c.root), name)
      BY <1>5, FullIs
    <3> QED
      BY <3>7, <3>8, Zenon DEF There
  <2> QED
    BY <2>1, <2>2, Zenon
<1>9. ThereOK(p, "stat", d)
  <2>1. \A x \in d.left : There(p, Full(d, x))
    BY <1>1, <1>2, <1>3, ReadingIs, Zenon DEF ThereOK
  <2>2. \A i \in 1..m : There(p, Full(c, c.entries[i].name))
    BY <1>1, ReadingIs, Zenon DEF ThereOK
  <2>3. \A i \in 1..Len(d.entries) : There(p, Full(d, d.entries[i].name))
    BY <1>3, <1>4, <1>7, <1>8, <2>2, Zenon
  <2> QED
    BY <1>3, <2>1, <2>3, Zenon DEF ThereOK
<1>10. ScanOK("stat", d)
  <2>1. /\ c.entries[1].name = kCurrentDirectory /\ c.entries[2].name = kParentDirectory
        /\ \A i \in 3..m : c.entries[i].name \in c.seen \cap Names
        /\ \A i, j \in 1..m : i # j => c.entries[i].name # c.entries[j].name
    BY <1>1, ReadingIs, Zenon DEF ScanOK
  <2>2. d.entries[1].name = kCurrentDirectory /\ d.entries[2].name = kParentDirectory
    BY <1>4, <1>7, <2>1, Zenon
  <2>3. ASSUME NEW i \in 3..(m + 1) PROVE d.entries[i].name \in d.seen \cap Names
    <3>1. CASE i = m + 1
      BY <1>2, <1>4, <1>5, <3>1
    <3>2. CASE i \in 3..m
      <4>1. d.entries[i].name = c.entries[i].name /\ c.entries[i].name \in c.seen \cap Names
        BY <1>4, <1>7, <2>1, <3>2, Zenon
      <4> QED
        BY <1>2, <4>1
    <3> QED
      BY <1>7, <3>1, <3>2
  <2>4. ASSUME NEW i \in 1..m PROVE c.entries[i].name # name
    <3>1. CASE i \in 3..m
      BY <1>5, <2>1, <3>1
    <3>2. CASE i = 1 \/ i = 2
      BY <1>5, <2>1, <3>2, Zenon
    <3> QED
      BY <1>7, <3>1, <3>2
  <2>5. ASSUME NEW i \in 1..(m + 1), NEW j \in 1..(m + 1), i # j
        PROVE  d.entries[i].name # d.entries[j].name
    <3>1. CASE i \in 1..m /\ j \in 1..m
      BY <1>4, <2>1, <2>5, <3>1, ZenonT(60)
    <3>2. CASE i = m + 1 /\ j \in 1..m
      BY <1>4, <2>4, <3>2, Zenon
    <3>3. CASE j = m + 1 /\ i \in 1..m
      BY <1>4, <2>4, <3>3, Zenon
    <3> QED
      BY <1>7, <2>5, <3>1, <3>2, <3>3, Zenon
  <2> QED
    BY <1>3, <1>4, <1>7, <2>2, <2>3, <2>5 DEF ScanOK
<1>11. EntriesOK(p, "stat", d)
  <2> SUFFICES ASSUME NEW i \in 3..(m + 1), i # m + 1 PROVE StatOK(p, d, d.entries[i])
    BY <1>4, Zenon DEF EntriesOK
  <2>1. i \in 3..m /\ d.entries[i] = c.entries[i]
    BY <1>4, <1>7, Zenon
  <2>2. StatOK(p, c, c.entries[i])
    BY <1>1, <2>1, ReadingIs DEF EntriesOK
  <2> PICK e : e = c.entries[i]
    OBVIOUS
  <2> PICK path : path = Full(c, e.name)
    OBVIOUS
  <2>3. Full(d, e.name) = path /\ Shown(d, path) = Shown(c, path)
    BY <1>3, Zenon
  <2>4. StatOK(p, d, e)
    BY <2>2, <2>3, Zenon DEF StatOK
  <2> QED
    BY <2>1, <2>4
<1>12. EntersOn("readdir", c, "stat", d)
  <2> SUFFICES ASSUME NEW s \in Seq(Names), NEW k, Entering("readdir", c, s, k)
               PROVE  Entering("stat", d, s, k)
    BY <1>3, Zenon DEF EntersOn
  <2>1. BeingRead("stat", d, Way(d, s, k))
    BY <1>3, Zenon DEF Entering
  <2>2. CASE s[k + 1] \in c.left \ c.seen
    <3>1. CASE s[k + 1] = name
      BY <1>4, <1>7, <2>1, <3>1, Zenon DEF Entering
    <3>2. CASE s[k + 1] # name
      <4>1. s[k + 1] \in d.left \ d.seen
        BY <1>2, <2>2, <3>2
      <4> QED
        BY <2>1, <4>1, Zenon DEF Entering
    <3> QED
      BY <3>1, <3>2
  <2>3. CASE \E i \in 3..m : c.entries[i].name = s[k + 1]
    BY <1>4, <1>7, <2>1, <2>3, Zenon DEF Entering
  <2> QED
    BY <2>2, <2>3, Zenon DEF Entering
<1>13. NamesOK(p, "stat", d)
  BY <1>1, <1>2, <1>3, <1>12, NamesGoOn
<1> QED
  BY <1>3, <1>9, <1>10, <1>11, <1>13, Zenon DEF ListOK

LEMMA StatsListed ==
  ASSUME NEW p, NEW c \in ListCalls, NEW d \in ListCalls, ListOK(p, "stat", c),
         Stats(c, d, KindAt(Shown(c, Full(c, Last(c.entries).name))) = "dir")
  PROVE  ListOK(p, "readdir", d)
<1>1. /\ ThereOK(p, "stat", c) /\ ScanOK("stat", c)
      /\ EntriesOK(p, "stat", c) /\ NamesOK(p, "stat", c)
  BY Zenon DEF ListOK
<1>2. /\ SameList(c, d) /\ SameCall(c, d) /\ d.root = c.root /\ d.pending = c.pending
      /\ d.left = c.left /\ d.seen = c.seen
  BY Zenon DEF Stats, SameList
<1>3. /\ \A y : Full(d, y) = Full(c, y)
      /\ \A path : Shown(d, path) = Shown(c, path)
      /\ \A s, k : Way(d, s, k) = Way(c, s, k)
      /\ \A i \in 1..Len(d.listed) : There(p, d.listed[i])
      /\ Ahead(d) = {} /\ IsStripped(d.root) /\ FromHere(d, d.root)
      /\ \A i \in 1..Len(d.pending) : FromHere(d, StripTrailingSeparators(d.pending[i]))
      /\ OnceOK("readdir", d)
      /\ ListsOn(c, d) /\ ReadsOn("stat", c, "readdir", d)
      /\ \A path : ToRead(d, path) <=> ToRead(c, path)
      /\ \A path : BeingRead("readdir", d, path) <=> BeingRead("stat", c, path)
  BY <1>2, ReadingIs, ReadingSame
<1> PICK m : m = Len(c.entries)
  OBVIOUS
<1> PICK isDirectory \in BOOLEAN :
      isDirectory <=> KindAt(Shown(c, Full(c, c.entries[m].name))) = "dir"
  OBVIOUS
<1>4. m \in Nat /\ c.entries \in Seq(Entry)
  BY LenProperties DEF ListCalls
<1>5. m >= 3
  BY <1>1, Zenon DEF ScanOK
<1>6. /\ m \in 1..m /\ m >= 2
      /\ 1 \in 1..m /\ 2 \in 1..m /\ \A i \in 3..m : i \in 1..m
  BY <1>4, <1>5
<1>7. /\ Len(d.entries) = m
      /\ \A i \in 1..m : d.entries[i].name = c.entries[i].name
      /\ \A i \in 1..m : i # m => d.entries[i] = c.entries[i]
      /\ d.entries[m].dir = isDirectory
  <2> PICK b : b = (KindAt(Shown(c, Full(c, c.entries[m].name))) = "dir")
    OBVIOUS
  <2>1. b = isDirectory
    BY Zenon
  <2>2. d.entries = [c.entries EXCEPT ![m].dir = b]
    BY Zenon DEF Stats, Last
  <2>3. d.entries = [c.entries EXCEPT ![m] = [c.entries[m] EXCEPT !.dir = b]]
    BY <2>2, Zenon
  <2>4. c.entries[m] \in Entry
    BY <1>4, <1>6, ElementOfSeq
  <2> PICK e : e = [c.entries[m] EXCEPT !.dir = b]
    OBVIOUS
  <2>5. e.name = c.entries[m].name /\ e.dir = b
    BY <2>4 DEF Entry
  <2>6. d.entries = [c.entries EXCEPT ![m] = e]
    BY <2>3, Zenon
  <2>7. DOMAIN c.entries = 1..m /\ DOMAIN d.entries = 1..m
    BY <1>4, <2>6, LenProperties
  <2>8. Len(d.entries) = m
    <3>1. d.entries \in Seq(Entry)
      BY Zenon DEF ListCalls
    <3> QED
      BY <1>4, <2>7, <3>1, LenProperties
  <2>9. d.entries[m] = e /\ \A i \in 1..m : i # m => d.entries[i] = c.entries[i]
    BY <1>6, <2>6, <2>7, Zenon
  <2> QED
    BY <2>1, <2>5, <2>8, <2>9, Zenon
<1>8. ThereOK(p, "readdir", d)
  <2>1. \A x \in d.left : There(p, Full(d, x))
    BY <1>1, <1>2, <1>3, ReadingIs, Zenon DEF ThereOK
  <2>2. \A i \in 1..m : There(p, Full(c, c.entries[i].name))
    BY <1>1, ReadingIs, Zenon DEF ThereOK
  <2>3. \A i \in 1..Len(d.entries) : There(p, Full(d, d.entries[i].name))
    BY <1>3, <1>7, <2>2, Zenon
  <2> QED
    BY <1>3, <2>1, <2>3, Zenon DEF ThereOK
<1>9. ScanOK("readdir", d)
  <2>1. /\ c.entries[1].name = kCurrentDirectory /\ c.entries[2].name = kParentDirectory
        /\ \A i \in 3..m : c.entries[i].name \in c.seen \cap Names
        /\ \A i, j \in 1..m : i # j => c.entries[i].name # c.entries[j].name
    BY <1>1, ReadingIs, Zenon DEF ScanOK
  <2>2. /\ d.entries[1].name = kCurrentDirectory /\ d.entries[2].name = kParentDirectory
        /\ \A i \in 3..m : d.entries[i].name \in d.seen \cap Names
        /\ \A i, j \in 1..m : i # j => d.entries[i].name # d.entries[j].name
    BY <1>2, <1>6, <1>7, <2>1, ZenonT(60)
  <2> QED
    BY <1>3, <1>6, <1>7, <2>2 DEF ScanOK
<1>10. EntriesOK(p, "readdir", d)
  <2> SUFFICES ASSUME NEW i \in 3..m PROVE StatOK(p, d, d.entries[i])
    BY <1>7, Zenon DEF EntriesOK
  <2> PICK e : e = d.entries[i]
    OBVIOUS
  <2> PICK path : path = Full(c, e.name)
    OBVIOUS
  <2>1. Full(d, e.name) = path /\ Shown(d, path) = Shown(c, path)
    BY <1>3, Zenon
  <2>2. CASE i # m
    <3>1. e = c.entries[i]
      BY <1>6, <1>7, <2>2, Zenon
    <3>2. StatOK(p, c, c.entries[i])
      BY <1>1, <2>2, ReadingIs, Zenon DEF EntriesOK
    <3>3. StatOK(p, d, e)
      BY <2>1, <3>1, <3>2, Zenon DEF StatOK
    <3> QED
      BY <3>3
  <2>3. CASE i = m
    <3>1. e.name = c.entries[m].name /\ e.dir = isDirectory
      BY <1>6, <1>7, <2>3, Zenon
    <3>2. e.dir <=> KindAt(Shown(c, path)) = "dir"
      BY <3>1, Zenon
    <3>3. StatOK(p, d, e)
      BY <2>1, <3>2, Zenon DEF StatOK
    <3> QED
      BY <3>3
  <2> QED
    BY <2>2, <2>3
<1>11. EntersOn("stat", c, "readdir", d)
  <2> SUFFICES ASSUME NEW s \in Seq(Names), NEW k, Entering("stat", c, s, k)
               PROVE  Entering("readdir", d, s, k)
    BY <1>3, Zenon DEF EntersOn
  <2>1. BeingRead("readdir", d, Way(d, s, k))
    BY <1>3, Zenon DEF Entering
  <2>2. CASE s[k + 1] \in c.left \ c.seen
    BY <1>2, <2>1, <2>2, Zenon DEF Entering
  <2>3. CASE \E i \in 3..m : c.entries[i].name = s[k + 1]
    BY <1>6, <1>7, <2>1, <2>3, Zenon DEF Entering
  <2> QED
    BY <2>2, <2>3, Zenon DEF Entering
<1>12. NamesOK(p, "readdir", d)
  BY <1>1, <1>2, <1>3, <1>11, NamesGoOn
<1> QED
  BY <1>3, <1>8, <1>9, <1>10, <1>12, Zenon DEF ListOK

(* The bases of the paths that a directory's entries have. *)
IsNewBase(b, u, x) ==
  /\ u \in Seq(Tokens) /\ Len(u) = Len(b) + 2 /\ u[Len(b) + 1] = x /\ Under(b, u)

LEMMA NewBase ==
  ASSUME NEW root \in Paths, NEW x \in EntryNames, x # kCurrentDirectory
  PROVE  /\ StripTrailingSeparators(Append(Base(root), x)) = Append(Base(root), x)
         /\ Append(Base(root), x) # Here
         /\ IsNewBase(Base(root), BaseOf(Append(Base(root), x)), x)
<1> PICK path : path = Append(Base(root), x)
  OBVIOUS
<1> PICK b : b = Base(root)
  OBVIOUS
<1> PICK n : n = Len(b)
  OBVIOUS
<1>1. /\ path \in Paths /\ IsStripped(path) /\ Len(path) = n + 1 /\ path[n + 1] = x
      /\ \A i \in 1..n : path[i] = b[i]
  BY AppendedIs, Zenon
<1>2. b \in Seq(Tokens) /\ n \in Nat /\ path \in Seq(Tokens) /\ ~IsSeparator(x) /\ x \in Tokens
  BY <1>1, BaseIs, LenProperties DEF Paths, EntryNames, IsSeparator
<1>3. StripTrailingSeparators(path) = path /\ path # <<>>
  BY <1>1, StrippedStays DEF IsStripped
<1>4. path # Here
  <2>1. CASE path = Here
    <3>1. Len(Here) = 1 /\ Here[1] = kCurrentDirectory
      BY DEF Here
    <3>2. n + 1 = 1
      BY <1>1, <2>1, <3>1
    <3> QED
      BY <1>1, <2>1, <3>1, <3>2
  <2> QED
    BY <2>1
<1>5. BaseOf(path) = Append(path, Sep)
  <2>1. ~IsSeparator(path[Len(path)])
    BY <1>1, <1>2
  <2> QED
    BY <1>3, <1>4, <2>1, Zenon DEF BaseOf, Base
<1>6. /\ BaseOf(path) \in Seq(Tokens) /\ Len(BaseOf(path)) = n + 2
      /\ \A i \in 1..(n + 1) : BaseOf(path)[i] = path[i]
  BY <1>1, <1>2, <1>5, TokensAssumption, AppendProperties
<1>7. n + 1 \in 1..(n + 1) /\ n <= n + 2 /\ \A i \in 1..n : i \in 1..(n + 1)
  BY <1>2
<1>8. Under(b, BaseOf(path))
  BY <1>1, <1>6, <1>7, Zenon DEF Under
<1> QED
  BY <1>1, <1>3, <1>4, <1>6, <1>7, <1>8, Zenon DEF IsNewBase

LEMMA AppendedToOne ==
  ASSUME NEW x, NEW y
  PROVE  Len(Append(<<x>>, y)) = 2 /\ Append(<<x>>, y)[1] = x
  OBVIOUS

(* The path where an enumeration starts, and it without separators. *)
LEMMA StartIs ==
  ASSUME NEW start \in Paths, start # <<>>, NEW path, path = StripTrailingSeparators(start)
  PROVE  /\ path # Here \/ start = Here => Base(start) = Base(path)
         /\ path = Here /\ start # Here =>
              Len(Base(start)) = 2 /\ Base(start)[1] = kCurrentDirectory
         /\ Base(Here) = <<>>
<1>1. StripTrailingSeparators(path) = path
  BY StripIsStripped, StrippedStays, Zenon
<1>2. Base(Here) = <<>>
  BY Zenon DEF Base
<1>3. CASE start = Here
  <2>1. IsStripped(Here)
    <3>1. Here \in Seq(Tokens) /\ Len(Here) = 1 /\ Here # <<>> /\ Here[1] = kCurrentDirectory
      BY TokensAssumption DEF Here
    <3>2. ~IsSeparator(Here[Len(Here)])
      BY <3>1, TokensDiffer, Zenon DEF IsSeparator
    <3>3. 1..(Len(Here) - 1) = {}
      BY <3>1
    <3>4. Here \in Paths
      BY <3>1, <3>3, Zenon DEF Paths
    <3> QED
      BY <3>1, <3>2, <3>4, Zenon DEF IsStripped
  <2>2. path = Here
    BY <1>3, <2>1, StrippedStays, Zenon
  <2> QED
    BY <1>2, <1>3, <2>2, Zenon
<1>4. CASE start # Here /\ path # Here
  BY <1>1, <1>2, <1>4, Zenon DEF Base
<1>5. CASE start # Here /\ path = Here
  <2>1. Len(Here) = 1 /\ Here[1] = kCurrentDirectory /\ Here # <<>> /\ Here \in Seq(Tokens)
    BY TokensAssumption DEF Here
  <2>2. ~IsSeparator(Here[Len(Here)])
    BY <2>1, TokensDiffer DEF IsSeparator
  <2>3. Base(start) = Append(Here, Sep)
    BY <1>5, <2>1, <2>2, Zenon DEF Base
  <2>4. Len(Append(Here, Sep)) = 2 /\ Append(Here, Sep)[1] = kCurrentDirectory
    BY AppendedToOne, Zenon DEF Here
  <2> QED
    BY <1>2, <1>5, <2>3, <2>4, Zenon
<1> QED
  BY <1>3, <1>4, <1>5

(* A pattern is matched only by a path directly below the start. *)
LEMMA PatternOnce ==
  ASSUME NEW c \in ListCalls, c.start # <<>>, NEW s \in Seq(Names), NEW k \in 1..Len(s),
         Base(Way(c, s, k - 1)) = Base(c.start)
  PROVE  k = 1 /\ (StripTrailingSeparators(c.start) = Here => c.start = Here)
<1> PICK start : start = c.start
  OBVIOUS
<1> PICK first : first = StripTrailingSeparators(start)
  OBVIOUS
<1> PICK b : b = Base(start)
  OBVIOUS
<1>1. start \in Paths /\ start # <<>> /\ Way(c, s, 0) = first
  BY WaysAre DEF ListCalls
<1>2. /\ first # Here \/ start = Here => b = Base(first)
      /\ first = Here /\ start # Here => Len(b) = 2 /\ b[1] = kCurrentDirectory
      /\ Base(Here) = <<>>
  BY <1>1, StartIs, Zenon
<1>3. CASE k # 1
  <2>1. k - 1 \in 1..Len(s) /\ 1 \in 1..Len(s) /\ 1 \in 1..(k - 1) /\ 1 - 1 = 0
    BY <1>3, LenProperties
  <2> PICK j : j = k - 1
    OBVIOUS
  <2>2. IsStripped(Way(c, s, j)) /\ Way(c, s, j) # Here /\ Way(c, s, j) \in Paths
    BY <2>1, WayStep, Zenon
  <2>3. Way(c, s, 1) = Append(Base(first), s[1]) /\ s[1] \in Names /\ s[1] \in EntryNames
        /\ Way(c, s, 1) \in Paths
    BY <1>1, <2>1, WayStep, Zenon
  <2>4. Under(Way(c, s, 1), Way(c, s, j))
    BY <2>1, WayUnder
  <2>5. Under(Way(c, s, j), b) /\ b \in Paths
    <3>1. Under(Way(c, s, j), Base(Way(c, s, j)))
      BY <2>2, UnderBase
    <3> QED
      BY <1>1, <3>1, BaseIs, Zenon
  <2>6. Under(Way(c, s, 1), b)
    <3>1. Way(c, s, 1) \in Seq(Tokens) /\ Way(c, s, j) \in Seq(Tokens) /\ b \in Seq(Tokens)
      BY <2>2, <2>3, <2>5 DEF Paths
    <3> QED
      BY <2>4, <2>5, <3>1, UnderTrans, Zenon
  <2>7. /\ first \in Paths /\ Len(Way(c, s, 1)) = Len(Base(first)) + 1
        /\ Way(c, s, 1)[Len(Base(first)) + 1] = s[1] /\ Len(Base(first)) \in Nat
    <3>1. first \in Paths
      BY <1>1, StripType
    <3>2. Base(first) \in Seq(Tokens)
      BY <3>1, BaseIs DEF Paths
    <3> QED
      BY <2>3, <3>1, <3>2, AppendedIs, LenProperties
  <2>8. CASE b = Base(first)
    BY <2>6, <2>7, <2>8 DEF Under
  <2>9. CASE b # Base(first)
    <3>1. first = Here /\ b[1] = kCurrentDirectory /\ Base(first) = <<>>
      BY <1>2, <2>9, Zenon
    <3>2. Len(Base(first)) = 0
      BY <3>1
    <3>3. b[1] = s[1]
      BY <2>6, <2>7, <3>2 DEF Under
    <3> QED
      BY <2>3, <3>1, <3>3 DEF Names
  <2> QED
    BY <2>8, <2>9
<1>4. CASE k = 1
  <2>1. Base(first) = b
    BY <1>1, <1>4
  <2>2. ASSUME first = Here, start # Here PROVE FALSE
    <3>1. Len(b) = 2 /\ Len(<<>>) = 0 /\ b = <<>>
      BY <1>2, <2>1, <2>2
    <3> QED
      BY <3>1
  <2> QED
    BY <1>4, <2>2
<1> QED
  BY <1>3, <1>4

(* An entry of the directory that is read whose path is on the way of the  *)
(* names. *)
OnWay(c, s, k, i) ==
  /\ s[k] = c.entries[i].name /\ i \in 3..Len(c.entries) /\ (k = 1 => c.start # <<>>)
  /\ Base(Way(c, s, k - 1)) = Base(c.root)
  /\ k # 1 => k - 1 \in 1..Len(s) /\ BeingRead("readdir", c, Way(c, s, k - 1))

LEMMA EntryOnWay ==
  ASSUME NEW c \in ListCalls, ScanOK("readdir", c), NEW s \in Seq(Names), NEW k \in 1..Len(s),
         NEW i \in 1..Len(c.entries), Way(c, s, k) = Full(c, c.entries[i].name)
  PROVE  OnWay(c, s, k, i)
<1> PICK x : x = c.entries[i].name
  OBVIOUS
<1> PICK root : root = c.root
  OBVIOUS
<1> PICK way : way = Way(c, s, k - 1)
  OBVIOUS
<1>1. /\ IsStripped(root) /\ FromHere(c, root)
      /\ c.entries[1].name = kCurrentDirectory /\ c.entries[2].name = kParentDirectory
      /\ Len(c.entries) >= 2
  BY ReadingIs, Zenon DEF ScanOK
<1>2. x \in EntryNames
  <2>1. c.entries[i] \in Entry
    BY ElementOfSeq DEF ListCalls
  <2> QED
    BY <2>1 DEF Entry
<1>3. Full(c, x) = Append(Base(root), x) /\ root \in Paths
  BY <1>2, FullIs DEF ListCalls
<1>4. s[k] \in Names /\ s[k] \in EntryNames /\ way \in Paths /\ Way(c, s, k) = Append(Base(way), s[k])
  BY WayStep, Zenon
<1>5. /\ Base(way) \in Seq(Tokens) /\ Base(root) \in Seq(Tokens)
      /\ Append(Base(way), s[k]) = Append(Base(root), x) /\ s[k] \in Tokens /\ x \in Tokens
  BY <1>2, <1>3, <1>4, BaseIs DEF Paths, EntryNames
<1>6. Base(way) = Base(root) /\ s[k] = x
  <2> PICK b : b = Base(way)
    OBVIOUS
  <2> PICK r : r = Base(root)
    OBVIOUS
  <2> PICK y : y = s[k]
    OBVIOUS
  <2>1. b \in Seq(Tokens) /\ r \in Seq(Tokens) /\ Append(b, y) = Append(r, x) /\ y \in Tokens /\ x \in Tokens
    BY <1>5, Zenon
  <2>2. b = r /\ y = x
    BY ONLY <2>1, AppendInjective
  <2> QED
    BY <2>2
<1>7. i \in 3..Len(c.entries)
  <2>1. i # 1 /\ i # 2
    BY <1>1, <1>4, <1>6, Zenon DEF Names
  <2>2. Len(c.entries) \in Nat
    BY LenProperties DEF ListCalls
  <2> QED
    BY <2>1, <2>2
<1>8. k # 1 => k - 1 \in 1..Len(s) /\ way = root
  <2> SUFFICES ASSUME k # 1 PROVE k - 1 \in 1..Len(s) /\ way = root
    OBVIOUS
  <2>1. k - 1 \in 1..Len(s)
    BY LenProperties
  <2>2. IsStripped(way)
    BY <2>1, WayStep, Zenon
  <2> QED
    BY <1>1, <1>6, <2>1, <2>2, BaseInjective, Zenon
<1>9. k = 1 => c.start # <<>>
  <2> SUFFICES ASSUME k = 1, c.start = <<>> PROVE FALSE
    OBVIOUS
  <2>1. way = <<>>
    <3>1. k - 1 = 0
      OBVIOUS
    <3>2. Way(c, s, 0) = <<>>
      BY WaysAre, NothingStripped, Zenon
    <3> QED
      BY <3>1, <3>2, Zenon
  <2>2. Base(<<>>) = <<>>
    BY NothingStripped, Zenon DEF Base
  <2>3. Base(root) = <<>>
    BY <1>6, <2>1, <2>2, Zenon
  <2>4. root = Here
    <3>1. StripTrailingSeparators(root) = root /\ root # <<>> /\ root \in Seq(Tokens)
      BY <1>1, StrippedStays DEF IsStripped, Paths
    <3>2. Append(root, Sep) # <<>>
      BY <3>1, TokensAssumption, AppendProperties
    <3> QED
      BY <2>3, <3>1, <3>2, Zenon DEF Base
  <2>5. StripTrailingSeparators(c.start) = Here /\ <<>> # Here
    BY <1>1, <2>4 DEF FromHere, Here
  <2> QED
    BY <2>5, NothingStripped, Zenon
<1> QED
  BY <1>4, <1>6, <1>7, <1>8, <1>9, ReadingIs, Zenon DEF OnWay, BeingRead

(* What the end of a directory makes of its entries. *)
Taken(c, d) ==
  /\ d.listed = c.listed /\ d.root = c.root /\ SameCall(c, d)
  /\ \A i \in Ahead(d) : \E j \in WantedOf(c) : d.dir_entries[i] = c.entries[j]
  /\ \A j \in WantedOf(c) : \E i \in Ahead(d) : d.dir_entries[i] = c.entries[j]
  /\ \A a, b \in Ahead(d) :
       a # b => \E i, j \in WantedOf(c) :
                  i # j /\ d.dir_entries[a] = c.entries[i] /\ d.dir_entries[b] = c.entries[j]
TakenPending(c, d) ==
  /\ \A i \in 1..Len(c.pending) : i \in 1..Len(d.pending) /\ d.pending[i] = c.pending[i]
  /\ \A i \in 1..Len(d.pending) :
       i \in 1..Len(c.pending)
         \/ \E j \in EnteredOf(c) : d.pending[i] = Full(c, c.entries[j].name)
  /\ \A j \in EnteredOf(c) : \E i \in 1..Len(d.pending) : d.pending[i] = Full(c, c.entries[j].name)
  /\ \A a, b \in 1..Len(d.pending) :
       a # b /\ a \notin 1..Len(c.pending) /\ b \notin 1..Len(c.pending)
         => \E i, j \in EnteredOf(c) :
              /\ i # j /\ d.pending[a] = Full(c, c.entries[i].name)
              /\ d.pending[b] = Full(c, c.entries[j].name)

OneByOne(new, from, want, what) ==
  \A a, b \in from..Len(new) :
    a # b => \E i, j \in want : i # j /\ new[a] = what[i] /\ new[b] = what[j]

LEMMA GathersOneByOne ==
  ASSUME NEW old, NEW new, NEW k, NEW want, want \in SUBSET Nat, NEW what, Gathers(old, new, k, want, what),
         Len(old) \in Nat, Len(new) \in Nat
  PROVE  OneByOne(new, Len(old) + 1, want, what)
<1> SUFFICES ASSUME NEW a \in (Len(old) + 1)..Len(new), NEW b \in (Len(old) + 1)..Len(new), a # b
             PROVE  \E i, j \in want : i # j /\ new[a] = what[i] /\ new[b] = what[j]
  BY Zenon DEF OneByOne
<1>1. \A x, y \in (Len(old) + 1)..Len(new) :
        x < y => \E i, j \in want : i < j /\ j <= k /\ new[x] = what[i] /\ new[y] = what[j]
  BY Zenon DEF Gathers
<1>2. a < b \/ b < a
  OBVIOUS
<1>3. CASE a < b
  <2>1. PICK i \in want, j \in want : i < j /\ new[a] = what[i] /\ new[b] = what[j]
    BY <1>1, <1>3, Zenon
  <2>2. i # j
    BY <2>1
  <2> QED
    BY <2>1, <2>2, Zenon
<1>4. CASE b < a
  <2>1. PICK i \in want, j \in want : i < j /\ new[b] = what[i] /\ new[a] = what[j]
    BY <1>1, <1>4, Zenon
  <2>2. i # j
    BY <2>1
  <2> QED
    BY <2>1, <2>2, Zenon
<1> QED
  BY <1>2, <1>3, <1>4

LEMMA TakenIs ==
  ASSUME NEW c \in ListCalls, NEW d, TakenTo(c, d, Len(c.entries))
  PROVE  Taken(c, d) /\ TakenPending(c, d)
<1>1. /\ d.listed = c.listed /\ d.root = c.root /\ SameCall(c, d) /\ d.current = 0 /\ d \in ListCalls
  BY Zenon DEF TakenTo, SameScan, SameCall
<1> PICK m : m = Len(c.entries)
  OBVIOUS
<1>2. /\ Gathers(<<>>, d.dir_entries, m, WantedOf(c), c.entries)
      /\ Gathers(c.pending, d.pending, m, EnteredOf(c), PathsOf(c))
  BY Zenon DEF TakenTo
<1>3. /\ WantedOf(c) \in SUBSET Nat /\ EnteredOf(c) \in SUBSET Nat
      /\ \A j \in WantedOf(c) : j <= m
      /\ \A j \in EnteredOf(c) : j <= m /\ PathsOf(c)[j] = Full(c, c.entries[j].name)
  BY LenProperties DEF WantedOf, EnteredOf, PathsOf
<1>4. Len(<<>>) \in Nat /\ Ahead(d) = (Len(<<>>) + 1)..Len(d.dir_entries)
      /\ Len(d.dir_entries) \in Nat /\ Len(d.pending) \in Nat /\ Len(c.pending) \in Nat
  <2>1. d.dir_entries \in Seq(Entry) /\ d.pending \in Seq(Paths) /\ c.pending \in Seq(Paths)
    BY <1>1 DEF ListCalls
  <2> QED
    BY <1>1, <2>1, LenProperties DEF Ahead
<1>5. Taken(c, d)
  <2>1. /\ \A i \in Ahead(d) : \E j \in WantedOf(c) : d.dir_entries[i] = c.entries[j]
        /\ \A j \in WantedOf(c) : \E i \in Ahead(d) : d.dir_entries[i] = c.entries[j]
    <3>1. /\ \A i \in (Len(<<>>) + 1)..Len(d.dir_entries) :
               \E j \in WantedOf(c) : j <= m /\ d.dir_entries[i] = c.entries[j]
          /\ \A j \in WantedOf(c) : j <= m =>
               \E i \in (Len(<<>>) + 1)..Len(d.dir_entries) : d.dir_entries[i] = c.entries[j]
      BY <1>2, Zenon DEF Gathers
    <3> QED
      BY <1>3, <1>4, <3>1, Zenon
  <2>2. ASSUME NEW a \in Ahead(d), NEW b \in Ahead(d), a # b
        PROVE  \E i, j \in WantedOf(c) :
                 i # j /\ d.dir_entries[a] = c.entries[i] /\ d.dir_entries[b] = c.entries[j]
    <3>1. a \in (Len(<<>>) + 1)..Len(d.dir_entries) /\ b \in (Len(<<>>) + 1)..Len(d.dir_entries)
      BY <1>4, <2>2, Zenon
    <3>2. OneByOne(d.dir_entries, Len(<<>>) + 1, WantedOf(c), c.entries)
      BY <1>2, <1>3, <1>4, GathersOneByOne, Zenon
    <3> QED
      BY <2>2, <3>1, <3>2, Zenon DEF OneByOne
  <2> QED
    BY <1>1, <2>1, <2>2, Zenon DEF Taken
<1>6. TakenPending(c, d)
  <2> PICK n : n = Len(c.pending)
    OBVIOUS
  <2>1. /\ n <= Len(d.pending) /\ \A i \in 1..n : d.pending[i] = c.pending[i]
        /\ \A i \in (n + 1)..Len(d.pending) : \E j \in EnteredOf(c) : d.pending[i] = PathsOf(c)[j]
        /\ \A j \in EnteredOf(c) : \E i \in (n + 1)..Len(d.pending) : d.pending[i] = PathsOf(c)[j]
    BY <1>2, <1>3, ZenonT(60) DEF Gathers
  <2>2. /\ \A i \in 1..n : i \in 1..Len(d.pending)
        /\ \A i \in 1..Len(d.pending) : i \in 1..n \/ i \in (n + 1)..Len(d.pending)
        /\ \A i \in (n + 1)..Len(d.pending) : i \in 1..Len(d.pending)
    BY <1>4, <2>1
  <2>3. /\ \A i \in 1..n : i \in 1..Len(d.pending) /\ d.pending[i] = c.pending[i]
        /\ \A i \in 1..Len(d.pending) :
             i \in 1..n \/ \E j \in EnteredOf(c) : d.pending[i] = Full(c, c.entries[j].name)
        /\ \A j \in EnteredOf(c) : \E i \in 1..Len(d.pending) : d.pending[i] = Full(c, c.entries[j].name)
    <3>1. \A i \in 1..n : i \in 1..Len(d.pending) /\ d.pending[i] = c.pending[i]
      BY <2>1, <2>2, Zenon
    <3>2. ASSUME NEW i \in 1..Len(d.pending)
          PROVE  i \in 1..n \/ \E j \in EnteredOf(c) : d.pending[i] = Full(c, c.entries[j].name)
      <4>1. CASE i \in (n + 1)..Len(d.pending)
        <5>1. PICK j \in EnteredOf(c) : d.pending[i] = PathsOf(c)[j]
          BY <2>1, <4>1, Zenon
        <5> QED
          BY <1>3, <5>1, Zenon
      <4> QED
        BY <2>2, <4>1, Zenon
    <3>3. ASSUME NEW j \in EnteredOf(c)
          PROVE  \E i \in 1..Len(d.pending) : d.pending[i] = Full(c, c.entries[j].name)
      <4>1. PICK i \in (n + 1)..Len(d.pending) : d.pending[i] = PathsOf(c)[j]
        BY <2>1, Zenon
      <4> QED
        BY <1>3, <2>2, <4>1, Zenon
    <3> QED
      BY <3>1, <3>2, <3>3, Zenon
  <2>4. ASSUME NEW a \in 1..Len(d.pending), NEW b \in 1..Len(d.pending), a # b, a \notin 1..n, b \notin 1..n
        PROVE  \E i, j \in EnteredOf(c) :
                 /\ i # j /\ d.pending[a] = Full(c, c.entries[i].name)
                 /\ d.pending[b] = Full(c, c.entries[j].name)
    <3>1. a \in (n + 1)..Len(d.pending) /\ b \in (n + 1)..Len(d.pending)
      BY <2>2, <2>4, Zenon
    <3>2. \E i, j \in EnteredOf(c) : i # j /\ d.pending[a] = PathsOf(c)[i] /\ d.pending[b] = PathsOf(c)[j]
      <4>1. OneByOne(d.pending, Len(c.pending) + 1, EnteredOf(c), PathsOf(c))
        BY <1>2, <1>3, <1>4, GathersOneByOne, Zenon
      <4> QED
        BY <2>4, <3>1, <4>1, Zenon DEF OneByOne
    <3>3. PICK i \in EnteredOf(c), j \in EnteredOf(c) :
            i # j /\ d.pending[a] = PathsOf(c)[i] /\ d.pending[b] = PathsOf(c)[j]
      BY <3>2, Zenon
    <3> QED
      BY <1>3, <3>3, Zenon
  <2> QED
    BY <2>3, <2>4, Zenon DEF TakenPending
<1> QED
  BY <1>5, <1>6

(* An entry that is not skipped is not the directory itself, and a name is *)
(* not skipped. *)
LEMMA PassesIs ==
  ASSUME NEW c \in ListCalls, NEW e \in Entry
  PROVE  /\ e.name \in EntryNames /\ Full(c, e.name) = Append(Base(c.root), e.name)
         /\ Passes(c, e) => e.name # kCurrentDirectory
         /\ e.name \in Names => ~Skip(c, Full(c, e.name))
<1> PICK x : x = e.name
  OBVIOUS
<1>1. x \in EntryNames /\ Full(c, x) = Append(Base(c.root), x) /\ c.root \in Paths
  BY FullIs DEF Entry, ListCalls
<1>2. BaseName(Full(c, x)) = <<x>>
  BY <1>1, BaseNameIs, Zenon
<1>3. \A y : <<x>> = <<y>> => x = y
  OBVIOUS
<1>4. x \in Names => x # kCurrentDirectory /\ x # kParentDirectory
  BY Zenon DEF Names
<1> QED
  BY <1>1, <1>2, <1>3, <1>4, Zenon DEF Passes, Skip

LEMMA EnteredIs ==
  ASSUME NEW c \in ListCalls, NEW i \in EnteredOf(c)
  PROVE  /\ i \in 1..Len(c.entries) /\ c.entries[i] \in Entry /\ c.recursive
         /\ c.entries[i].dir /\ Passes(c, c.entries[i])
         /\ c.entries[i].name \in EntryNames /\ c.entries[i].name # kCurrentDirectory
         /\ Full(c, c.entries[i].name) = Append(Base(c.root), c.entries[i].name)
<1>1. i \in 1..Len(c.entries) /\ c.recursive /\ c.entries[i].dir /\ Passes(c, c.entries[i])
  BY DEF EnteredOf
<1>2. c.entries[i] \in Entry
  BY <1>1, ElementOfSeq DEF ListCalls
<1> QED
  BY <1>1, <1>2, PassesIs

LEMMA WantedIs ==
  ASSUME NEW c \in ListCalls, NEW i \in WantedOf(c)
  PROVE  /\ i \in 1..Len(c.entries) /\ c.entries[i] \in Entry
         /\ (IF c.entries[i].dir THEN "DIRECTORIES" ELSE "FILES") \in c.type
         /\ Passes(c, c.entries[i])
         /\ c.entries[i].name \in EntryNames /\ c.entries[i].name # kCurrentDirectory
         /\ Full(c, c.entries[i].name) = Append(Base(c.root), c.entries[i].name)
<1>1. /\ i \in 1..Len(c.entries) /\ Passes(c, c.entries[i])
      /\ (IF c.entries[i].dir THEN "DIRECTORIES" ELSE "FILES") \in c.type
  BY DEF WantedOf
<1>2. c.entries[i] \in Entry
  BY <1>1, ElementOfSeq DEF ListCalls
<1> QED
  BY <1>1, <1>2, PassesIs

LEMMA TakenThere ==
  ASSUME NEW p, NEW c \in ListCalls, NEW d \in ListCalls, ListOK(p, "readdir", c), Taken(c, d),
         TakenPending(c, d)
  PROVE  ThereOK(p, "next", d) /\ ScanOK("next", d)
<1>1. ThereOK(p, "readdir", c) /\ ScanOK("readdir", c)
  BY Zenon DEF ListOK
<1>2. d.listed = c.listed /\ d.root = c.root /\ SameCall(c, d)
  BY Zenon DEF Taken
<1>3. \A y : Full(d, y) = Full(c, y)
  BY <1>2, Zenon DEF Full
<1>4. ThereOK(p, "next", d)
  <2>1. \A i \in 1..Len(d.listed) : There(p, d.listed[i])
    BY <1>1, <1>2, Zenon DEF ThereOK
  <2>2. \A j \in 1..Len(c.entries) : There(p, Full(c, c.entries[j].name))
    BY <1>1, ReadingIs, Zenon DEF ThereOK
  <2>3. ASSUME NEW i \in Ahead(d) PROVE There(p, Full(d, d.dir_entries[i].name))
    <3>1. PICK j \in WantedOf(c) : d.dir_entries[i] = c.entries[j]
      BY Zenon DEF Taken
    <3>2. j \in 1..Len(c.entries)
      BY WantedIs
    <3> QED
      BY <1>3, <2>2, <3>1, <3>2, Zenon
  <2> QED
    BY <2>1, <2>3, ReadingIs, Zenon DEF ThereOK
<1>5. ASSUME NEW i \in 1..Len(d.pending) PROVE FromHere(d, StripTrailingSeparators(d.pending[i]))
  <2>1. CASE i \in 1..Len(c.pending)
    <3>1. FromHere(c, StripTrailingSeparators(c.pending[i]))
      BY <1>1, <2>1, Zenon DEF ScanOK
    <3>2. d.pending[i] = c.pending[i]
      BY <2>1, Zenon DEF TakenPending
    <3>3. \A path : FromHere(d, path) <=> FromHere(c, path)
      BY <1>2, SameCallSame
    <3> QED
      BY <3>1, <3>2, <3>3, Zenon
  <2>2. CASE \E j \in EnteredOf(c) : d.pending[i] = Full(c, c.entries[j].name)
    <3>1. PICK j \in EnteredOf(c) : d.pending[i] = Full(c, c.entries[j].name)
      BY <2>2
    <3>2. /\ c.entries[j].name \in EntryNames /\ c.entries[j].name # kCurrentDirectory
          /\ Full(c, c.entries[j].name) = Append(Base(c.root), c.entries[j].name)
      BY EnteredIs
    <3>3. c.root \in Paths
      BY DEF ListCalls
    <3>4. StripTrailingSeparators(d.pending[i]) = d.pending[i] /\ d.pending[i] # Here
      <4> PICK path : path = d.pending[i]
        OBVIOUS
      <4> PICK x : x = c.entries[j].name
        OBVIOUS
      <4>1. x \in EntryNames /\ x # kCurrentDirectory /\ path = Append(Base(c.root), x)
        BY <3>1, <3>2, Zenon
      <4>2. StripTrailingSeparators(path) = path /\ path # Here
        BY <3>3, <4>1, NewBase, Zenon
      <4> QED
        BY <4>2
    <3> QED
      BY <3>4, Zenon DEF FromHere
  <2> QED
    BY <2>1, <2>2, Zenon DEF TakenPending
<1>6. ScanOK("next", d)
  BY <1>5, ReadingIs DEF ScanOK
<1> QED
  BY <1>4, <1>6

(* What is below an entry of the directory is not below another of its     *)
(* entries, not below a directory that is to be read, and nothing below it *)
(* has been listed.                                                        *)
LEMMA NewBases ==
  ASSUME NEW b \in Seq(Tokens)
  PROVE  /\ \A u, x, w : IsNewBase(b, u, x) /\ w \in Seq(Tokens) /\ Under(u, w) => Under(b, w)
         /\ \A u, x : \A y \in Tokens : IsNewBase(b, u, x) => ~Under(u, Append(b, y))
         /\ \A u, x, v, y : IsNewBase(b, u, x) /\ IsNewBase(b, v, y) /\ x # y => ~Under(u, v)
         /\ \A u, x : \A v \in Seq(Tokens) : IsNewBase(b, u, x) /\ Apart(v, b) => Apart(v, u) /\ Apart(u, v)
<1> PICK n : n = Len(b)
  OBVIOUS
<1>0. n \in Nat
  BY LenProperties
<1>1. ASSUME NEW u, NEW x, NEW w \in Seq(Tokens), IsNewBase(b, u, x), Under(u, w) PROVE Under(b, w)
  BY <1>1, UnderTrans, Zenon DEF IsNewBase
<1>2. ASSUME NEW u, NEW x, NEW y \in Tokens, IsNewBase(b, u, x) PROVE ~Under(u, Append(b, y))
  <2>1. Len(Append(b, y)) = n + 1
    BY UnderAppended
  <2>2. Len(u) = n + 2
    BY <1>2, Zenon DEF IsNewBase
  <2>3. ~(n + 2 <= n + 1)
    BY <1>0
  <2> QED
    BY <2>1, <2>2, <2>3, Zenon DEF Under
<1>3. ASSUME NEW u, NEW x, NEW v, NEW y, IsNewBase(b, u, x), IsNewBase(b, v, y), x # y PROVE ~Under(u, v)
  <2>1. Len(u) = n + 2 /\ u[n + 1] = x /\ v[n + 1] = y
    BY <1>3, Zenon DEF IsNewBase
  <2>2. n + 1 \in 1..(n + 2)
    BY <1>0
  <2> QED
    BY <1>3, <2>1, <2>2, Zenon DEF Under
<1>4. ASSUME NEW u, NEW x, NEW v \in Seq(Tokens), IsNewBase(b, u, x), Apart(v, b)
      PROVE  Apart(v, u) /\ Apart(u, v)
  <2>1. u \in Seq(Tokens) /\ Under(b, u) /\ ~Under(v, b) /\ ~Under(b, v)
    BY <1>4, Zenon DEF IsNewBase, Apart
  <2>2. ~Under(v, u)
    BY <2>1, UnderEither, Zenon
  <2>3. ~Under(u, v)
    BY <2>1, UnderTrans, Zenon
  <2> QED
    BY <2>2, <2>3, Zenon DEF Apart
<1> QED
  BY <1>1, <1>2, <1>3, <1>4

LEMMA TakenOnce ==
  ASSUME NEW p, NEW c \in ListCalls, NEW d \in ListCalls, ListOK(p, "readdir", c), Taken(c, d),
         TakenPending(c, d)
  PROVE  OnceOK("next", d)
<1>1. OnceOK("readdir", c) /\ ScanOK("readdir", c)
  BY Zenon DEF ListOK
<1> PICK b : b = Base(c.root)
  OBVIOUS
<1>2. /\ d.listed = c.listed /\ d.root = c.root
      /\ c.root \in Paths /\ b \in Seq(Tokens) /\ d.listed \in Seq(Paths) /\ c.pending \in Seq(Paths)
  <2>1. d.listed = c.listed /\ d.root = c.root
    BY Zenon DEF Taken
  <2>2. c.root \in Paths /\ d.listed \in Seq(Paths) /\ c.pending \in Seq(Paths)
    BY DEF ListCalls
  <2>3. b \in Seq(Tokens)
    BY <2>2, BaseIs DEF Paths
  <2> QED
    BY <2>1, <2>2, <2>3
<1>3. \A y : Full(d, y) = Full(c, y)
  BY <1>2, Zenon DEF Full
<1>4. \A i, j \in 1..Len(c.entries) : i # j => c.entries[i].name # c.entries[j].name
  BY <1>1, ReadingIs, Zenon DEF ScanOK
<1>5. \A i \in 1..Len(d.listed) : d.listed[i] \in Seq(Tokens) /\ ~Under(b, d.listed[i])
  <2>1. \A i \in 1..Len(d.listed) : ~Under(b, d.listed[i])
    BY <1>1, <1>2, ReadingIs, Zenon DEF OnceOK
  <2>2. ASSUME NEW i \in 1..Len(d.listed) PROVE d.listed[i] \in Seq(Tokens)
    <3>1. d.listed[i] \in Paths
      BY <1>2, ElementOfSeq
    <3> QED
      BY <3>1 DEF Paths
  <2> QED
    BY <2>1, <2>2, Zenon
<1>6. ASSUME NEW i \in Ahead(d)
      PROVE  /\ d.dir_entries[i].name \in Tokens
             /\ Full(d, d.dir_entries[i].name) = Append(b, d.dir_entries[i].name)
             /\ Full(d, d.dir_entries[i].name) \in Seq(Tokens)
             /\ Under(b, Full(d, d.dir_entries[i].name))
  <2>1. PICK j \in WantedOf(c) : d.dir_entries[i] = c.entries[j]
    BY Zenon DEF Taken
  <2>2. c.entries[j].name \in EntryNames /\ Full(c, c.entries[j].name) = Append(b, c.entries[j].name)
    BY WantedIs
  <2> PICK x : x = c.entries[j].name
    OBVIOUS
  <2>3. x \in Tokens
    BY <2>2 DEF EntryNames
  <2>4. Under(b, Append(b, x)) /\ Append(b, x) \in Seq(Tokens)
    BY <1>2, <2>3, UnderAppended
  <2> QED
    BY <1>3, <2>1, <2>2, <2>3, <2>4, Zenon
<1>7. \A i, j \in 1..Len(d.listed) : i # j => d.listed[i] # d.listed[j]
  BY <1>1, <1>2, Zenon DEF OnceOK
<1>8. ASSUME NEW i \in Ahead(d), NEW j \in Ahead(d), i # j
      PROVE  d.dir_entries[i].name # d.dir_entries[j].name
  <2>1. PICK k \in WantedOf(c), l \in WantedOf(c) :
          k # l /\ d.dir_entries[i] = c.entries[k] /\ d.dir_entries[j] = c.entries[l]
    BY <1>8, Zenon DEF Taken
  <2>2. k \in 1..Len(c.entries) /\ l \in 1..Len(c.entries)
    BY WantedIs
  <2> QED
    BY <1>4, <2>1, <2>2, Zenon
<1>9. \A i \in Ahead(d) : ~Got(d, Full(d, d.dir_entries[i].name))
  BY <1>5, <1>6, Zenon DEF Got
(* The pending paths: an old one, or an entry's. *)
<1>10. ASSUME NEW a \in 1..Len(c.pending)
       PROVE  /\ d.pending[a] = c.pending[a] /\ BaseOf(c.pending[a]) \in Seq(Tokens)
              /\ Apart(BaseOf(c.pending[a]), b)
              /\ \A i \in 1..Len(d.listed) : ~Under(BaseOf(c.pending[a]), d.listed[i])
              /\ \A k \in 1..Len(c.pending) : a # k => Apart(BaseOf(c.pending[a]), BaseOf(c.pending[k]))
  <2>1. BaseOf(c.pending[a]) \in Seq(Tokens)
    <3>1. c.pending[a] \in Paths
      BY <1>2, ElementOfSeq
    <3>2. StripTrailingSeparators(c.pending[a]) \in Paths
      BY <3>1, StripType
    <3> QED
      BY <3>2, BaseIs DEF BaseOf, Paths
  <2>2. d.pending[a] = c.pending[a]
    BY Zenon DEF TakenPending
  <2>3. /\ Apart(BaseOf(c.pending[a]), b)
        /\ \A i \in 1..Len(d.listed) : ~Under(BaseOf(c.pending[a]), d.listed[i])
        /\ \A k \in 1..Len(c.pending) : a # k => Apart(BaseOf(c.pending[a]), BaseOf(c.pending[k]))
    BY <1>1, <1>2, ReadingIs, Zenon DEF OnceOK
  <2> QED
    BY <2>1, <2>2, <2>3
<1>11. ASSUME NEW a \in 1..Len(d.pending), NEW j \in EnteredOf(c), d.pending[a] = Full(c, c.entries[j].name)
       PROVE  IsNewBase(b, BaseOf(d.pending[a]), c.entries[j].name)
  <2>1. /\ c.entries[j].name \in EntryNames /\ c.entries[j].name # kCurrentDirectory
        /\ d.pending[a] = Append(Base(c.root), c.entries[j].name)
    BY <1>11, EnteredIs, Zenon
  <2> PICK path : path = d.pending[a]
    OBVIOUS
  <2> PICK x : x = c.entries[j].name
    OBVIOUS
  <2>2. x \in EntryNames /\ x # kCurrentDirectory /\ path = Append(Base(c.root), x)
    BY <2>1, Zenon
  <2> QED
    BY <1>2, <2>2, NewBase, Zenon
<1>12. ASSUME NEW a \in 1..Len(d.pending), a \notin 1..Len(c.pending)
       PROVE  \E x : IsNewBase(b, BaseOf(d.pending[a]), x)
  <2>1. PICK j \in EnteredOf(c) : d.pending[a] = Full(c, c.entries[j].name)
    BY <1>12, Zenon DEF TakenPending
  <2> QED
    BY <1>11, <2>1, Zenon
<1>13. ASSUME NEW a \in 1..Len(d.pending)
       PROVE  /\ \A i \in 1..Len(d.listed) : ~Under(BaseOf(d.pending[a]), d.listed[i])
              /\ \A i \in Ahead(d) : ~Under(BaseOf(d.pending[a]), Full(d, d.dir_entries[i].name))
  <2>1. CASE a \in 1..Len(c.pending)
    <3> PICK u : u = BaseOf(c.pending[a])
      OBVIOUS
    <3>1. u \in Seq(Tokens) /\ BaseOf(d.pending[a]) = u /\ Apart(u, b)
          /\ \A i \in 1..Len(d.listed) : ~Under(u, d.listed[i])
      BY <1>10, <2>1, Zenon
    <3>2. ASSUME NEW i \in Ahead(d) PROVE ~Under(u, Full(d, d.dir_entries[i].name))
      BY <1>2, <1>6, <3>1, UnderEither, Zenon DEF Apart
    <3> QED
      BY <3>1, <3>2, Zenon
  <2>2. CASE a \notin 1..Len(c.pending)
    <3> PICK u : u = BaseOf(d.pending[a])
      OBVIOUS
    <3>1. PICK x : IsNewBase(b, u, x)
      BY <1>12, <2>2, Zenon
    <3>2. \A i \in 1..Len(d.listed) : ~Under(u, d.listed[i])
      BY <1>2, <1>5, <3>1, NewBases, Zenon
    <3>3. ASSUME NEW i \in Ahead(d) PROVE ~Under(u, Full(d, d.dir_entries[i].name))
      <4>1. \A y \in Tokens : ~Under(u, Append(b, y))
        BY <1>2, <3>1, NewBases, Zenon
      <4> QED
        BY <1>6, <4>1, Zenon
    <3> QED
      BY <3>2, <3>3, Zenon
  <2> QED
    BY <2>1, <2>2
<1>14. ASSUME NEW a \in 1..Len(d.pending), NEW k \in 1..Len(d.pending), a # k
       PROVE  Apart(BaseOf(d.pending[a]), BaseOf(d.pending[k]))
  <2>1. CASE a \in 1..Len(c.pending) /\ k \in 1..Len(c.pending)
    BY <1>10, <1>14, <2>1, Zenon
  <2>2. CASE a \in 1..Len(c.pending) /\ k \notin 1..Len(c.pending)
    <3>1. PICK x : IsNewBase(b, BaseOf(d.pending[k]), x)
      BY <1>12, <2>2, Zenon
    <3>2. BaseOf(d.pending[a]) \in Seq(Tokens) /\ Apart(BaseOf(d.pending[a]), b)
      BY <1>10, <2>2, Zenon
    <3> QED
      BY <1>2, <3>1, <3>2, NewBases, Zenon
  <2>3. CASE a \notin 1..Len(c.pending) /\ k \in 1..Len(c.pending)
    <3>1. PICK x : IsNewBase(b, BaseOf(d.pending[a]), x)
      BY <1>12, <2>3, Zenon
    <3>2. BaseOf(d.pending[k]) \in Seq(Tokens) /\ Apart(BaseOf(d.pending[k]), b)
      BY <1>10, <2>3, Zenon
    <3> QED
      BY <1>2, <3>1, <3>2, NewBases, Zenon
  <2>4. CASE a \notin 1..Len(c.pending) /\ k \notin 1..Len(c.pending)
    <3>1. PICK i \in EnteredOf(c), j \in EnteredOf(c) :
            /\ i # j /\ d.pending[a] = Full(c, c.entries[i].name)
            /\ d.pending[k] = Full(c, c.entries[j].name)
      BY <1>14, <2>4, Zenon DEF TakenPending
    <3>2. i \in 1..Len(c.entries) /\ j \in 1..Len(c.entries)
      BY EnteredIs
    <3>3. c.entries[i].name # c.entries[j].name
      BY <1>4, <3>1, <3>2, Zenon
    <3>4. /\ IsNewBase(b, BaseOf(d.pending[a]), c.entries[i].name)
          /\ IsNewBase(b, BaseOf(d.pending[k]), c.entries[j].name)
      BY <1>11, <3>1, Zenon
    <3> QED
      <4> PICK u : u = BaseOf(d.pending[a])
        OBVIOUS
      <4> PICK v : v = BaseOf(d.pending[k])
        OBVIOUS
      <4> PICK x : x = c.entries[i].name
        OBVIOUS
      <4> PICK y : y = c.entries[j].name
        OBVIOUS
      <4>1. x # y /\ IsNewBase(b, u, x) /\ IsNewBase(b, v, y)
        BY <3>3, <3>4, Zenon
      <4>2. \A w, z, t, r : IsNewBase(b, w, z) /\ IsNewBase(b, t, r) /\ z # r => ~Under(w, t)
        BY <1>2, NewBases
      <4>3. ~Under(u, v)
        BY <4>1, <4>2, Zenon
      <4>4. ~Under(v, u)
        BY <4>1, <4>2, Zenon
      <4> QED
        BY <4>3, <4>4, Zenon DEF Apart
  <2> QED
    BY <2>1, <2>2, <2>3, <2>4
<1> QED
  BY <1>7, <1>8, <1>9, <1>13, <1>14, ReadingIs, Zenon DEF OnceOK

(* An entry on the way of some names is below directories that the         *)
(* enumeration goes through.                                               *)
LEMMA EntryBelow ==
  ASSUME NEW p, NEW c \in ListCalls, ScanOK("readdir", c), NEW s \in Seq(Names), s # <<>>,
         DirsOK(p, "readdir", c, s), NEW k \in 1..Len(s), NEW i \in 1..Len(c.entries),
         Way(c, s, k) = Full(c, c.entries[i].name), Undisturbed(p, Way(c, s, k))
  PROVE  c.start # <<>> /\ Opened(c, s, k - 1) /\ (k # 1 => c.recursive)
<1>1. /\ k = 1 => c.start # <<>>
      /\ k # 1 => k - 1 \in 1..Len(s) /\ BeingRead("readdir", c, Way(c, s, k - 1))
  BY EntryOnWay, Zenon DEF OnWay
<1>2. CASE k = 1
  <2>1. 1..(k - 1) = {}
    BY <1>2
  <2> QED
    BY <1>1, <1>2, <2>1, Zenon DEF Opened
<1>3. CASE k # 1
  <2>1. k - 1 \in 1..k
    BY <1>3
  <2> PICK j : j = k - 1
    OBVIOUS
  <2>2. j \in 1..k /\ j \in 1..Len(s) /\ BeingRead("readdir", c, Way(c, s, j))
    BY <1>1, <1>3, <2>1, Zenon
  <2>3. Undisturbed(p, Way(c, s, j))
    BY <2>2, WayUndisturbed
  <2>4. c.recursive /\ c.start # <<>> /\ Opened(c, s, j)
    BY <2>2, <2>3, Zenon DEF DirsOK
  <2> QED
    BY <2>4, Zenon
<1> QED
  BY <1>2, <1>3

LEMMA TakenDirs ==
  ASSUME NEW p, NEW c \in ListCalls, NEW d \in ListCalls, ListOK(p, "readdir", c), Taken(c, d),
         TakenPending(c, d), NEW s \in Seq(Names), s # <<>>
  PROVE  DirsOK(p, "next", d, s)
<1> SUFFICES ASSUME NEW k \in 1..Len(s), Undisturbed(p, Way(d, s, k)), ToRead(d, Way(d, s, k))
             PROVE  d.recursive /\ d.start # <<>> /\ Opened(d, s, k)
  BY ReadingIs, NothingRead, Zenon DEF DirsOK
<1>1. /\ ScanOK("readdir", c) /\ EntriesOK(p, "readdir", c) /\ DirsOK(p, "readdir", c, s)
  BY Zenon DEF ListOK, NamesOK
<1>2. /\ \A path : Shown(d, path) = Shown(c, path)
      /\ \A t, j : Way(d, t, j) = Way(c, t, j)
  BY SameCallSame DEF Taken
<1>3. d.recursive = c.recursive /\ d.start = c.start
  BY Zenon DEF Taken, SameCall
<1> PICK way : way = Way(c, s, k)
  OBVIOUS
<1>4. Undisturbed(p, way) /\ ToRead(d, way)
  BY <1>2, Zenon
<1>5. c.recursive /\ c.start # <<>> /\ Opened(c, s, k)
  <2>1. PICK a \in 1..Len(d.pending) : way = StripTrailingSeparators(d.pending[a])
    BY <1>4, Zenon DEF ToRead
  <2>2. CASE a \in 1..Len(c.pending)
    <3>1. ToRead(c, way)
      BY <2>1, <2>2, Zenon DEF ToRead, TakenPending
    <3> QED
      BY <1>1, <1>4, <3>1, Zenon DEF DirsOK
  <2>3. CASE \E i \in EnteredOf(c) : d.pending[a] = Full(c, c.entries[i].name)
    <3>1. PICK i \in EnteredOf(c) : d.pending[a] = Full(c, c.entries[i].name)
      BY <2>3
    <3> PICK e : e = c.entries[i]
      OBVIOUS
    <3>2. /\ i \in 1..Len(c.entries) /\ c.recursive /\ e.dir /\ e.name \in EntryNames
          /\ e.name # kCurrentDirectory
          /\ Full(c, e.name) = Append(Base(c.root), e.name)
      BY EnteredIs, Zenon
    <3>3. way = Full(c, e.name)
      <4>1. c.root \in Paths
        BY DEF ListCalls
      <4>2. StripTrailingSeparators(Full(c, e.name)) = Full(c, e.name)
        BY <3>2, <4>1, NewBase, Zenon
      <4> QED
        BY <2>1, <3>1, <4>2, Zenon
    <3>4. i \in 3..Len(c.entries)
      <4>1. Way(c, s, k) = Full(c, c.entries[i].name)
        BY <3>3, Zenon
      <4>2. OnWay(c, s, k, i)
        BY <1>1, <3>2, <4>1, EntryOnWay
      <4> QED
        BY <4>2, Zenon DEF OnWay
    <3>5. c.start # <<>> /\ Opened(c, s, k - 1)
      BY <1>1, <1>4, <3>2, <3>3, EntryBelow, Zenon
    <3>6. KindAt(Shown(c, way)) = "dir"
      <4>1. StatOK(p, c, e)
        BY <1>1, <3>4, ReadingIs, TokensDiffer DEF EntriesOK
      <4> QED
        BY <1>4, <3>2, <3>3, <4>1, Zenon DEF StatOK
    <3>7. Opened(c, s, k)
      <4>1. \A j \in 1..k : j = k \/ j \in 1..(k - 1)
        BY LenProperties
      <4> QED
        BY <3>5, <3>6, <4>1, Zenon DEF Opened
    <3> QED
      BY <3>2, <3>5, <3>7
  <2> QED
    BY <2>1, <2>2, <2>3, Zenon DEF TakenPending
<1> QED
  BY <1>2, <1>3, <1>5, Zenon DEF Opened

LEMMA TakenListed ==
  ASSUME NEW p, NEW c \in ListCalls, NEW d \in ListCalls, ListOK(p, "readdir", c), Taken(c, d),
         NEW s \in Seq(Names), s # <<>>
  PROVE  ListedOK(p, d, s)
<1>1. /\ ThereOK(p, "readdir", c) /\ ScanOK("readdir", c) /\ EntriesOK(p, "readdir", c)
      /\ DirsOK(p, "readdir", c, s) /\ ListedOK(p, c, s)
  BY Zenon DEF ListOK, NamesOK
<1>2. /\ PathOf(d, s) = PathOf(c, s)
      /\ Lists(d, s) <=> Lists(c, s)
  <2>1. /\ \A t : PathOf(d, t) = PathOf(c, t)
        /\ \A t \in Seq(Names) : Lists(d, t) <=> Lists(c, t)
    BY SameCallSame DEF Taken
  <2> QED
    BY <2>1
<1>3. d.listed = c.listed /\ d.root = c.root
  BY Zenon DEF Taken
<1> PICK l : l = Len(s)
  OBVIOUS
<1> PICK way : way = Way(c, s, l)
  OBVIOUS
<1>4. l \in 1..l /\ l \in Nat /\ way = PathOf(c, s)
  BY NamesThere, WaysAre, Zenon
<1> SUFFICES ASSUME Undisturbed(p, way), Got(d, way) \/ Coming(d, way) PROVE Lists(c, s)
  BY <1>2, <1>4, Zenon DEF ListedOK
<1>5. CASE Got(d, way)
  <2>1. Got(c, way)
    BY <1>3, <1>5, Zenon DEF Got
  <2> QED
    BY <1>1, <1>4, <2>1, Zenon DEF ListedOK
<1>6. CASE Coming(d, way)
  <2>1. PICK a \in Ahead(d) : way = Full(d, d.dir_entries[a].name)
    BY <1>6, Zenon DEF Coming
  <2>2. PICK i \in WantedOf(c) : d.dir_entries[a] = c.entries[i]
    BY Zenon DEF Taken
  <2> PICK e : e = c.entries[i]
    OBVIOUS
  <2>3. /\ i \in 1..Len(c.entries) /\ (IF e.dir THEN "DIRECTORIES" ELSE "FILES") \in c.type
        /\ Passes(c, e) /\ e.name \in EntryNames
        /\ Full(c, e.name) = Append(Base(c.root), e.name)
    BY WantedIs, Zenon
  <2>4. way = Full(c, e.name)
    BY <1>3, <2>1, <2>2, Zenon DEF Full
  <2>5. /\ s[l] = e.name /\ i \in 3..Len(c.entries)
        /\ Base(Way(c, s, l - 1)) = Base(c.root)
    <3>1. Way(c, s, l) = Full(c, c.entries[i].name) /\ l \in 1..Len(s)
      BY <1>4, <2>4, Zenon
    <3>2. OnWay(c, s, l, i)
      BY <1>1, <2>3, <3>1, EntryOnWay
    <3> QED
      BY <3>2, Zenon DEF OnWay
  <2>6. c.start # <<>> /\ Opened(c, s, l - 1) /\ (l # 1 => c.recursive)
    BY <1>1, <1>4, <2>3, <2>4, EntryBelow, Zenon
  <2>7. e.dir <=> KindAt(Shown(c, way)) = "dir"
    <3>1. StatOK(p, c, e)
      BY <1>1, <2>5, ReadingIs, TokensDiffer DEF EntriesOK
    <3> QED
      BY <2>4, <3>1, Zenon DEF StatOK
  <2>8. TypeOf(c, way) \in c.type
    BY <2>3, <2>7, Zenon DEF TypeOf
  <2>9. KindAt(Lookup(way)) # "none"
    <3>1. There(p, Full(c, e.name))
      BY <1>1, <2>3, ReadingIs, Zenon DEF ThereOK
    <3> QED
      BY <2>4, <3>1, Zenon DEF There
  <2>10. ASSUME c.pattern # NoPattern
         PROVE  s = <<c.pattern>> /\ (StripTrailingSeparators(c.start) = Here => c.start = Here)
    <3> PICK q : q = c.pattern
      OBVIOUS
    <3> PICK x : x = e.name
      OBVIOUS
    <3>1. c.start \in Paths /\ c.root \in Paths /\ q \in Tokens
      BY <2>10 DEF ListCalls
    <3>2. Append(Base(c.root), x) = AppendTo(c.start, <<q>>)
      BY <2>3, <2>10, Zenon DEF Passes, Matches
    <3>3. AppendTo(c.start, <<q>>) = Append(Base(c.start), q)
      BY <3>1, AppendToIs
    <3> PICK r : r = Base(c.root)
      OBVIOUS
    <3> PICK b : b = Base(c.start)
      OBVIOUS
    <3>4. Append(r, x) = Append(b, q) /\ r \in Seq(Tokens) /\ b \in Seq(Tokens) /\ x \in Tokens /\ q \in Tokens
      BY <2>3, <3>1, <3>2, <3>3, BaseIs DEF EntryNames, Paths
    <3>5. r = b /\ x = q
      BY ONLY <3>4, AppendInjective
    <3>6. l = 1 /\ (StripTrailingSeparators(c.start) = Here => c.start = Here)
      BY <1>4, <2>5, <2>6, <3>5, PatternOnce, Zenon
    <3>7. s = <<q>>
      <4>1. s \in Seq(Names) /\ Len(s) = 1 /\ s[1] = q
        BY <2>5, <3>5, <3>6, Zenon
      <4> QED
        BY ONLY <4>1
    <3> QED
      BY <3>6, <3>7
  <2>11. ListsSo(c, s)
    BY <2>6, <2>8, <2>9, <2>10, Zenon DEF ListsSo, MayList
  <2> QED
    BY <2>11, AllListsAre, Zenon DEF ListsAre
<1> QED
  BY <1>5, <1>6

(* What should be listed is listed, or its directory entered. *)
LEMMA NamePasses ==
  ASSUME NEW c \in ListCalls, NEW s \in Seq(Names), MayList(c, s), NEW k \in 1..Len(s),
         NEW e \in Entry, e.name = s[k], Base(Way(c, s, k - 1)) = Base(c.root)
  PROVE  Passes(c, e) /\ Full(c, e.name) = Way(c, s, k)
<1>1. s[k] \in Names /\ Way(c, s, k) = Append(Base(Way(c, s, k - 1)), s[k])
  BY WayStep, Zenon
<1>2. ~Skip(c, Full(c, e.name)) /\ Full(c, e.name) = Append(Base(c.root), e.name)
  BY <1>1, PassesIs, Zenon
<1>3. Full(c, e.name) = Way(c, s, k)
  BY <1>1, <1>2, Zenon
<1>4. ASSUME c.pattern # NoPattern
      PROVE  Full(c, e.name) = AppendTo(c.start, <<c.pattern>>)
  <2> PICK q : q = c.pattern
    OBVIOUS
  <2> PICK start : start = c.start
    OBVIOUS
  <2> PICK first : first = StripTrailingSeparators(start)
    OBVIOUS
  <2>1. start \in Paths /\ start # <<>> /\ q \in Tokens /\ s = <<q>> /\ (first = Here => start = Here)
        /\ Way(c, s, 0) = first
    BY <1>4, WaysAre DEF MayList, ListCalls
  <2>2. k = 1 /\ s[1] = q
    BY <2>1
  <2>3. Base(start) = Base(first)
    BY <2>1, StartIs, Zenon
  <2>4. AppendTo(start, <<q>>) = Append(Base(start), q)
    BY <2>1, AppendToIs, Zenon
  <2>5. Way(c, s, k - 1) = first
    <3>1. k - 1 = 0
      BY <2>2
    <3> QED
      BY <2>1, <3>1, Zenon
  <2> QED
    BY <1>1, <1>3, <2>2, <2>3, <2>4, <2>5, Zenon
<1> QED
  BY <1>2, <1>3, <1>4, Zenon DEF Passes, Matches

LEMMA TakenFound ==
  ASSUME TypeInv, NEW p, NEW c \in ListCalls, NEW d \in ListCalls, ListOK(p, "readdir", c),
         c.left \cap Present(c) \subseteq c.seen, Taken(c, d), TakenPending(c, d),
         NEW s \in Seq(Names), s # <<>>
  PROVE  FoundOK(p, "next", d, s)
<1>1. /\ ScanOK("readdir", c) /\ EntriesOK(p, "readdir", c) /\ FoundOK(p, "readdir", c, s)
  BY Zenon DEF ListOK, NamesOK
<1>2. /\ \A k : Way(d, s, k) = Way(c, s, k)
      /\ PathOf(d, s) = PathOf(c, s)
      /\ Lists(d, s) <=> Lists(c, s)
  <2>1. /\ \A t : PathOf(d, t) = PathOf(c, t)
        /\ \A t, k : Way(d, t, k) = Way(c, t, k)
        /\ \A t \in Seq(Names) : Lists(d, t) <=> Lists(c, t)
    BY SameCallSame DEF Taken
  <2> QED
    BY <2>1
<1>3. d.listed = c.listed /\ d.root = c.root
  BY Zenon DEF Taken
<1> PICK l : l = Len(s)
  OBVIOUS
<1>4. l \in 1..l /\ l \in Nat /\ Way(c, s, l) = PathOf(c, s)
  BY NamesThere, WaysAre, Zenon
<1> SUFFICES ASSUME Undisturbed(p, PathOf(c, s)), Lists(c, s)
             PROVE  \/ Got(d, PathOf(c, s)) \/ Coming(d, PathOf(c, s))
                    \/ \E k \in 0..(l - 1) : ToRead(d, Way(c, s, k))
  BY <1>2, Zenon DEF FoundOK
<1>5. ListsSo(c, s)
  BY AllListsAre, Zenon DEF ListsAre
<1>6. CASE Got(c, PathOf(c, s))
  BY <1>3, <1>6, Zenon DEF Got
<1>7. ~Coming(c, PathOf(c, s))
  BY <1>1, ReadingIs, Zenon DEF ScanOK, Coming
<1>8. CASE \E k \in 0..(l - 1) : ToRead(c, Way(c, s, k))
  <2>1. \A path : ToRead(c, path) => ToRead(d, path)
    BY Zenon DEF ToRead, TakenPending
  <2> QED
    BY <1>8, <2>1, Zenon
<1>9. CASE \E k \in 0..(l - 1) : Entering("readdir", c, s, k)
  <2>1. PICK k \in 0..(l - 1) : Entering("readdir", c, s, k)
    BY <1>9
  <2> PICK j : j = k + 1
    OBVIOUS
  <2>2. /\ j \in 1..l /\ s[j] \in Names
        /\ s[j] \in {Last(n) : n \in Children(Target(Way(c, s, k)))}
    BY ListedThere
  <2>3. Way(c, s, k) = c.root
    BY <2>1, Zenon DEF Entering, BeingRead
  <2>4. s[j] \notin c.left \ c.seen
    <3>1. s[j] \in Present(c)
      BY <2>2, <2>3, Zenon DEF Present
    <3> QED
      BY <3>1
  <2>5. PICK i \in 3..Len(c.entries) : c.entries[i].name = s[j]
    BY <2>1, <2>4, Zenon DEF Entering
  <2>6. i \in 1..Len(c.entries)
    BY LenProperties DEF ListCalls
  <2> PICK e : e = c.entries[i]
    OBVIOUS
  <2>7. e \in Entry /\ e.name = s[j]
    BY <2>5, <2>6, ElementOfSeq DEF ListCalls
  <2>8. j - 1 = k
    OBVIOUS
  <2>9. Passes(c, e) /\ Full(c, e.name) = Way(c, s, j)
    <3>1. Base(Way(c, s, j - 1)) = Base(c.root)
      BY <2>3, <2>8, Zenon
    <3>2. MayList(c, s)
      BY <1>5, Zenon DEF ListsSo
    <3> QED
      BY <2>2, <2>7, <3>1, <3>2, NamePasses
  <2>10. e.dir <=> KindAt(Shown(c, Way(c, s, j))) = "dir"
    <3>1. Undisturbed(p, Way(c, s, j))
      BY <1>4, <2>2, WayUndisturbed, Zenon
    <3>2. StatOK(p, c, e)
      BY <1>1, ReadingIs, TokensDiffer DEF EntriesOK
    <3> QED
      BY <2>9, <3>1, <3>2, Zenon DEF StatOK
  <2>11. CASE j = l
    <3>1. (IF e.dir THEN "DIRECTORIES" ELSE "FILES") \in c.type
      BY <1>5, <2>10, <2>11, Zenon DEF ListsSo, TypeOf
    <3>2. i \in WantedOf(c)
      BY <2>6, <2>9, <3>1, Zenon DEF WantedOf
    <3>3. PICK a \in Ahead(d) : d.dir_entries[a] = e
      BY <3>2, Zenon DEF Taken
    <3>4. Coming(d, PathOf(c, s))
      BY <1>3, <1>4, <2>9, <2>11, <3>3, Zenon DEF Coming, Full
    <3> QED
      BY <3>4
  <2>12. CASE j # l
    <3>1. j \in 1..(l - 1) /\ j \in 0..(l - 1) /\ l # 1
      BY <1>4, <2>2, <2>12
    <3>2. e.dir /\ c.recursive
      BY <1>5, <2>10, <3>1, Zenon DEF ListsSo, Opened, MayList
    <3>3. i \in EnteredOf(c)
      BY <2>6, <2>9, <3>2, Zenon DEF EnteredOf
    <3>4. PICK a \in 1..Len(d.pending) : d.pending[a] = Way(c, s, j)
      BY <2>9, <3>3, Zenon DEF TakenPending
    <3>5. StripTrailingSeparators(Way(c, s, j)) = Way(c, s, j)
      BY <2>2, WayStep, StrippedStays, Zenon
    <3> QED
      BY <3>1, <3>4, <3>5, Zenon DEF ToRead
  <2> QED
    BY <2>11, <2>12
<1> QED
  BY <1>1, <1>6, <1>7, <1>8, <1>9, Zenon DEF FoundOK

LEMMA EndsDirectory ==
  ASSUME TypeInv, NEW p, NEW c \in ListCalls, NEW d \in ListCalls, ListOK(p, "readdir", c),
         c.left \cap Present(c) \subseteq c.seen, TakenTo(c, d, Len(c.entries))
  PROVE  ListOK(p, "next", d)
<1>1. Taken(c, d) /\ TakenPending(c, d)
  BY TakenIs
<1>2. ThereOK(p, "next", d) /\ ScanOK("next", d)
  BY <1>1, TakenThere
<1>3. OnceOK("next", d)
  BY <1>1, TakenOnce
<1>4. EntriesOK(p, "next", d)
  BY ReadingIs, Zenon DEF EntriesOK
<1>5. NamesOK(p, "next", d)
  <2> SUFFICES ASSUME NEW s \in Seq(Names), s # <<>>
               PROVE  DirsOK(p, "next", d, s) /\ ListedOK(p, d, s) /\ FoundOK(p, "next", d, s)
    BY Zenon DEF NamesOK
  <2> QED
    BY <1>1, TakenDirs, TakenListed, TakenFound
<1> QED
  BY <1>2, <1>3, <1>4, <1>5, Zenon DEF ListOK

-----------------------------------------------------------------------------
(* An enumeration that begins has all to read. *)

LEMMA WayFromStart ==
  ASSUME NEW c \in ListCalls, NEW s \in Seq(Names), NEW k \in 1..Len(s)
  PROVE  Way(c, s, k) # StripTrailingSeparators(c.start)
<1> PICK base : base = StripTrailingSeparators(c.start)
  OBVIOUS
<1>0. c.start \in Paths /\ base \in Paths
  BY StripType DEF ListCalls
<1>1. CASE base = Here
  BY <1>1, WayStep, Zenon
<1>2. CASE base = <<>>
  BY <1>2, WayStep, Zenon DEF IsStripped
<1>3. CASE base # Here /\ base # <<>>
  <2>1. c.start # <<>>
    BY <1>3, NothingStripped, Zenon
  <2>2. IsStripped(base)
    BY <1>0, <2>1, StripIsStripped, Zenon
  <2>3. Len(base) <= Len(Base(base))
    BY <1>3, <2>2, UnderBase DEF Under
  <2> PICK one : one = Way(c, s, 1)
    OBVIOUS
  <2> PICK w : w = Way(c, s, k)
    OBVIOUS
  <2>4. 1 \in 1..Len(s) /\ 1 \in 1..k /\ 1 - 1 = 0
    BY LenProperties
  <2>5. one = Append(Base(base), s[1]) /\ s[1] \in EntryNames
    <3> PICK n : n = 1
      OBVIOUS
    <3>1. n \in 1..Len(s) /\ n - 1 = 0
      BY <2>4
    <3>2. Way(c, s, n) = Append(Base(Way(c, s, n - 1)), s[n]) /\ s[n] \in EntryNames
      BY <3>1, WayStep, Zenon
    <3>3. Way(c, s, 0) = StripTrailingSeparators(c.start)
      BY WaysAre
    <3> QED
      BY <3>1, <3>2, <3>3, Zenon
  <2>6. Base(base) \in Seq(Tokens) /\ base \in Seq(Tokens)
    BY <1>0, BaseIs DEF Paths
  <2>7. Len(one) = Len(Base(base)) + 1
    BY <2>5, <2>6, UnderAppended DEF EntryNames
  <2>8. Len(one) <= Len(w)
    BY <2>4, WayUnder, Zenon DEF Under
  <2>9. w \in Seq(Tokens)
    BY WayStep, Zenon DEF Paths
  <2>10. Len(base) \in Nat /\ Len(Base(base)) \in Nat /\ Len(w) \in Nat
    BY <2>6, <2>9, LenProperties
  <2> PICK n : n = Len(Base(base))
    OBVIOUS
  <2>11. Len(base) # Len(w)
    BY <2>3, <2>7, <2>8, <2>10
  <2> QED
    BY <2>11, Zenon
<1> QED
  BY <1>1, <1>2, <1>3

Fresh(c) ==
  /\ c \in ListCalls /\ c.dir_entries = <<>> /\ c.current = 1
  /\ c.pending = <<c.start>> /\ c.listed = <<>>

LEMMA FreshIsListed ==
  ASSUME NEW p, NEW c, Fresh(c)
  PROVE  ListOK(p, "next", c)
<1>0. c \in ListCalls /\ "next" \notin Reading /\ "next" # "stat" /\ "next" # "returned"
  BY DEF Fresh, Reading
<1>1. /\ Ahead(c) = {} /\ 1..Len(c.listed) = {} /\ 1..Len(c.pending) = {1}
      /\ c.pending[1] = c.start
  BY DEF Fresh, Ahead
<1>2. ThereOK(p, "next", c)
  BY <1>0, <1>1, Zenon DEF ThereOK
<1>3. ScanOK("next", c)
  BY <1>0, <1>1, Zenon DEF ScanOK, FromHere
<1>4. OnceOK("next", c)
  <2>1. \A a, b \in 1..Len(c.pending) : ~(a # b)
    BY <1>1
  <2> QED
    BY <1>0, <1>1, <2>1, Zenon DEF OnceOK
<1>5. EntriesOK(p, "next", c)
  BY <1>0, Zenon DEF EntriesOK
<1>6. NamesOK(p, "next", c)
  <2> SUFFICES ASSUME NEW s \in Seq(Names), s # <<>>
               PROVE  DirsOK(p, "next", c, s) /\ ListedOK(p, c, s) /\ FoundOK(p, "next", c, s)
    BY Zenon DEF NamesOK
  <2>1. \A path : ToRead(c, path) <=> path = StripTrailingSeparators(c.start)
    BY <1>1, Zenon DEF ToRead
  <2>2. \A path : ~Got(c, path) /\ ~Coming(c, path) /\ ~BeingRead("next", c, path)
    BY <1>0, <1>1, Zenon DEF Got, Coming, BeingRead
  <2>3. DirsOK(p, "next", c, s)
    BY <1>0, <2>1, <2>2, WayFromStart, Zenon DEF DirsOK
  <2>4. ListedOK(p, c, s)
    BY <2>2, Zenon DEF ListedOK
  <2>5. FoundOK(p, "next", c, s)
    <3>1. 0 \in 0..(Len(s) - 1)
      BY NamesThere
    <3>2. Way(c, s, 0) = StripTrailingSeparators(c.start)
      BY <1>0, WaysAre
    <3> QED
      BY <2>1, <3>1, <3>2, Zenon DEF FoundOK
  <2> QED
    BY <2>3, <2>4, <2>5
<1> QED
  BY <1>2, <1>3, <1>4, <1>5, <1>6, Zenon DEF ListOK

FreshListed == \A p \in Processes : \A c : Fresh(c) => ListOK(p, "next", c)

LEMMA FreshAreListed == FreshListed
  BY FreshIsListed DEF FreshListed

LEMMA FreshAreListedNext == FreshListed'
  BY FreshAreListed, PTL

-----------------------------------------------------------------------------
(* Nobody's call goes on as if undisturbed where another process has       *)
(* changed something. *)

LEMMA SettledSame ==
  ASSUME NEW q, UNCHANGED tree, still'[q] \subseteq still[q]
  PROVE  Settled(q)
  BY DEF Settled

LEMMA SettledUnchanged ==
  ASSUME UNCHANGED <<kernel, history>>, NEW q
  PROVE  Settled(q)
  BY DEF Settled, kernel, history

LEMMA SettledDisturbed ==
  ASSUME TypeInv, NEW doers, NEW nodes, Disturb(doers, nodes), NEW q \in Processes
  PROVE  still'[q] \subseteq still[q] /\ (q \notin doers => still'[q] = still[q] \ nodes)
  BY DEF Disturb, Unless

LEMMA OpenWriteSettles ==
  ASSUME TypeInv, NEW p \in Processes, OpenWrite(p), NEW q \in Processes, q # p
  PROVE  Settled(q)
<1> DEFINE node == Target(call[p].path)
           made == tree[node] = "none"
           file == IF made THEN Len(content) + 1 ELSE inode[node]
<1>1. /\ tree[node] \in {"none", "file"} /\ tree' = [tree EXCEPT ![node] = "file"]
      /\ IF made THEN Spoil({p}, {node}) ELSE Disturb({p}, NodesOf(file)) /\ UNCHANGED clear
  BY Zenon DEF OpenWrite
<1>2. tree \in [Nodes -> Kinds] /\ still[q] \subseteq Nodes
  BY DEF TypeInv, TypeOK
<1> HIDE DEF node, file
<1>3. CASE made
  <2>1. Disturb({p}, {node})
    BY <1>1, <1>3, Zenon DEF Spoil
  <2>2. still'[q] = still[q] \ {node}
    BY <2>1, SettledDisturbed
  <2> QED
    BY <1>1, <1>2, <2>2 DEF Settled
<1>4. CASE ~made
  <2>1. Disturb({p}, NodesOf(file)) /\ tree[node] = "file"
    BY <1>1, <1>4
  <2>2. still'[q] \subseteq still[q]
    BY <2>1, SettledDisturbed
  <2> QED
    BY <1>1, <1>2, <2>1, <2>2 DEF Settled
<1> QED
  BY <1>3, <1>4

LEMMA MakeDirectorySettles ==
  ASSUME TypeInv, NEW p \in Processes, MakeDirectory(p), NEW q \in Processes, q # p
  PROVE  Settled(q)
<1> DEFINE node == Lookup(Head(call[p].todo))
<1>1. \/ tree' = [tree EXCEPT ![node] = "dir"] /\ Disturb({p}, {node})
      \/ UNCHANGED <<kernel, history>>
  BY Zenon DEF MakeDirectory
<1> HIDE DEF node
<1>2. CASE UNCHANGED <<kernel, history>>
  BY <1>2, SettledUnchanged
<1>3. CASE tree' = [tree EXCEPT ![node] = "dir"] /\ Disturb({p}, {node})
  <2>1. tree \in [Nodes -> Kinds] /\ still[q] \subseteq Nodes
    BY DEF TypeInv, TypeOK
  <2>2. still'[q] = still[q] \ {node}
    BY <1>3, SettledDisturbed
  <2> QED
    BY <1>3, <2>1, <2>2 DEF Settled
<1> QED
  BY <1>1, <1>2, <1>3

LEMMA RemoveNodeSettles ==
  ASSUME TypeInv, NEW n \in Nodes, RemoveNode(n), NEW q \in Processes
  PROVE  Settled(q)
<1>1. tree' = [tree EXCEPT ![n] = "none"] /\ Disturb({}, {n})
  BY Zenon DEF RemoveNode, Spoil
<1>2. tree \in [Nodes -> Kinds] /\ still[q] \subseteq Nodes
  BY DEF TypeInv, TypeOK
<1>3. still'[q] = still[q] \ {n}
  BY <1>1, SettledDisturbed
<1> QED
  BY <1>1, <1>2, <1>3 DEF Settled

LEMMA StepSettles ==
  ASSUME TypeInv, NEW p \in Processes, Step(p), NEW q \in Processes, q # p
  PROVE  Settled(q)
<1>1. CASE OpenWrite(p)
  BY <1>1, OpenWriteSettles
<1>2. CASE Write(p)
  <2>1. UNCHANGED tree /\ Disturb({p}, NodesOf(call[p].inode))
    BY <1>2, Zenon DEF Write
  <2>2. still'[q] \subseteq still[q]
    BY <2>1, SettledDisturbed
  <2> QED
    BY <2>1, <2>2, SettledSame
<1>3. CASE MakeDirectory(p)
  BY <1>3, MakeDirectorySettles
<1>4. CASE \/ OpenRead(p) \/ Fstat(p) \/ Read(p) \/ ReadFails(p)
           \/ OpenWriteFails(p) \/ WriteFails(p) \/ Close(p)
           \/ CheckExists(p) \/ CheckAgain(p)
  <2>1. UNCHANGED <<kernel, history>>
    BY <1>4, Zenon DEF OpenRead, Fstat, Read, ReadFails, OpenWriteFails, WriteFails, Close,
                       CheckExists, CheckAgain
  <2> QED
    BY <2>1, SettledUnchanged
<1>5. CASE \/ NextEntry(p) \/ NextDirectory(p) \/ ReadEntry(p) \/ StatEntry(p) \/ EndDirectory(p)
  BY <1>5, ListSteps, SettledUnchanged
<1> QED
  BY <1>1, <1>2, <1>3, <1>4, <1>5, Zenon DEF Step

-----------------------------------------------------------------------------
(* A step of an enumeration. *)

LEMMA ListStepGoes ==
  ASSUME TypeInv, ListInv, NEW p \in Processes,
         NextEntry(p) \/ NextDirectory(p) \/ ReadEntry(p) \/ StatEntry(p) \/ EndDirectory(p)
  PROVE  \E place : \E d \in ListCalls : Go(p, place, d) /\ ListOK(p, place, d)
<1> PICK c : c = call[p]
  OBVIOUS
<1>1. \A label : pc[p] = label => ListOK(p, label, c)
  BY Zenon DEF ListInv
<1>2. CASE NextEntry(p)
  <2>1. c \in ListCalls /\ pc[p] = "next" /\ \E d \in ListCalls : Go(p, "next", d) /\ Emits(c, d)
    BY <1>2, NextEntryGoes
  <2> PICK d \in ListCalls : Go(p, "next", d) /\ Emits(c, d)
    BY <2>1
  <2>2. ListOK(p, "next", d)
    BY <1>1, <2>1, EmitsListed
  <2> QED
    BY <2>2, Zenon
<1>3. CASE NextDirectory(p)
  <2>1. /\ c \in ListCalls /\ pc[p] = "next"
        /\ \E d \in ListCalls :
             \/ Go(p, "returned", d) /\ Ends(c, d)
             \/ Go(p, "next", d) /\ Pops(c, d) /\ ~DirectoryExists(d.root)
             \/ Go(p, "readdir", d) /\ Opens(c, d) /\ DirectoryExists(d.root)
    BY <1>3, NextDirectoryGoes
  <2>2. ListOK(p, "next", c)
    BY <1>1, <2>1
  <2> PICK d \in ListCalls :
             \/ Go(p, "returned", d) /\ Ends(c, d)
             \/ Go(p, "next", d) /\ Pops(c, d) /\ ~DirectoryExists(d.root)
             \/ Go(p, "readdir", d) /\ Opens(c, d) /\ DirectoryExists(d.root)
    BY <2>1
  <2>3. CASE Go(p, "returned", d) /\ Ends(c, d)
    <3>1. ListOK(p, "returned", d)
      BY <2>1, <2>2, <2>3, EndsListed
    <3> QED
      BY <2>3, <3>1, Zenon
  <2>4. CASE Go(p, "next", d) /\ Pops(c, d) /\ ~DirectoryExists(d.root)
    <3>1. ListOK(p, "next", d)
      BY <2>1, <2>2, <2>4, PopsListed
    <3> QED
      BY <2>4, <3>1, Zenon
  <2>5. CASE Go(p, "readdir", d) /\ Opens(c, d) /\ DirectoryExists(d.root)
    <3>1. ListOK(p, "readdir", d)
      BY <2>1, <2>2, <2>5, OpensListed
    <3> QED
      BY <2>5, <3>1, Zenon
  <2> QED
    BY <2>3, <2>4, <2>5, Zenon
<1>4. CASE ReadEntry(p)
  <2>1. /\ c \in ListCalls /\ pc[p] = "readdir"
        /\ \E d \in ListCalls : \E name \in (c.left \cup Present(c)) \ c.seen :
             Go(p, "stat", d) /\ Reads(c, d, name)
    BY <1>4, ReadEntryGoes
  <2> PICK d \in ListCalls : \E name \in (c.left \cup Present(c)) \ c.seen :
             Go(p, "stat", d) /\ Reads(c, d, name)
    BY <2>1
  <2> PICK name \in (c.left \cup Present(c)) \ c.seen : Go(p, "stat", d) /\ Reads(c, d, name)
    OBVIOUS
  <2>2. ListOK(p, "readdir", c)
    BY <1>1, <2>1
  <2>3. ListOK(p, "stat", d)
    BY <2>1, <2>2, ReadsListed
  <2> QED
    BY <2>3, Zenon
<1>5. CASE StatEntry(p)
  <2>1. /\ c \in ListCalls /\ pc[p] = "stat"
        /\ \E d \in ListCalls :
             /\ Go(p, "readdir", d)
             /\ Stats(c, d, KindAt(Shown(c, Full(c, Last(c.entries).name))) = "dir")
    BY <1>5, StatEntryGoes
  <2> PICK d \in ListCalls :
             /\ Go(p, "readdir", d)
             /\ Stats(c, d, KindAt(Shown(c, Full(c, Last(c.entries).name))) = "dir")
    BY <2>1
  <2>2. ListOK(p, "readdir", d)
    BY <1>1, <2>1, StatsListed
  <2> QED
    BY <2>2, Zenon
<1>6. CASE EndDirectory(p)
  <2>1. /\ c \in ListCalls /\ pc[p] = "readdir" /\ c.left \cap Present(c) \subseteq c.seen
        /\ \E d \in ListCalls : Go(p, "next", d) /\ TakenTo(c, d, Len(c.entries))
    BY <1>6, EndDirectoryGoes
  <2> PICK d \in ListCalls : Go(p, "next", d) /\ TakenTo(c, d, Len(c.entries))
    BY <2>1
  <2>2. ListOK(p, "readdir", c)
    BY <1>1, <2>1
  <2>3. ListOK(p, "next", d)
    BY <2>1, <2>2, EndsDirectory
  <2> QED
    BY <2>3, Zenon
<1> QED
  BY <1>2, <1>3, <1>4, <1>5, <1>6

LEMMA StepLists ==
  ASSUME FilesInv, FilesInv', ListInv, NEW p \in Processes, Step(p)
  PROVE  ListInv'
<1>0. TypeInv /\ TypeInv'
  BY DEF FilesInv
<1>1. PICK place : \E record : Go(p, place, record) /\ ListOK(p, place, record)'
  <2>1. CASE NextEntry(p) \/ NextDirectory(p) \/ ReadEntry(p) \/ StatEntry(p) \/ EndDirectory(p)
    <3>1. PICK place : \E d \in ListCalls : Go(p, place, d) /\ ListOK(p, place, d)
      BY <1>0, <2>1, ListStepGoes
    <3>2. PICK d \in ListCalls : Go(p, place, d) /\ ListOK(p, place, d)
      BY <3>1
    <3>3. Settled(p)
      BY <1>0, <2>1, ListSteps, SettledUnchanged
    <3>4. ListOK(p, place, d)'
      BY <1>0, <3>2, <3>3, ListKept
    <3> QED
      BY <3>2, <3>4, Zenon
  <2>2. CASE ~(NextEntry(p) \/ NextDirectory(p) \/ ReadEntry(p) \/ StatEntry(p) \/ EndDirectory(p))
    <3>1. pc[p] \in {"open", "fstat", "read", "create", "write", "close", "exists", "mkdir", "recheck"}
      BY <2>2, Zenon DEF Step, OpenRead, Fstat, Read, ReadFails, OpenWrite, OpenWriteFails, Write,
                         WriteFails, Close, CheckExists, MakeDirectory, CheckAgain
    <3>2. call[p] \in ReadCalls \/ call[p] \in WriteCalls \/ call[p] \in CreateCalls
      BY <1>0, <3>1 DEF TypeInv, PlaceOK
    <3>3. call[p] \notin ListCalls
      BY <3>2, OpsDiffer
    <3>4. PICK place : \E record : Go(p, place, record) /\ (record \in ListCalls => call[p] \in ListCalls)
      BY StepStaysOther, Zenon DEF StaysOther
    <3>5. PICK record : Go(p, place, record) /\ (record \in ListCalls => call[p] \in ListCalls)
      BY <3>4
    <3>6. ListOK(p, place, record)'
      BY <3>3, <3>5, Zenon DEF ListOK, ListCalls, Entry, EntryNames, Types
    <3> QED
      BY <3>5, <3>6, Zenon
  <2> QED
    BY <2>1, <2>2
<1>2. PICK record : Go(p, place, record) /\ ListOK(p, place, record)'
  BY <1>1
<1>3. /\ pc'[p] = place /\ call'[p] = record
      /\ \A q \in Processes : q # p => pc'[q] = pc[q] /\ call'[q] = call[q]
  BY <1>0, <1>2, GoIs
<1> SUFFICES ASSUME NEW q \in Processes
             PROVE  \A label \in {pc'[q]}, d \in {call'[q]} : ListOK(q, label, d)'
  BY Zenon DEF ListInv
<1>4. CASE q # p
  <2>1. PICK label : label = pc[q]
    BY Zenon
  <2>2. PICK d : d = call[q]
    BY Zenon
  <2>3. ListOK(q, label, d)
    BY <2>1, <2>2, Zenon DEF ListInv
  <2>4. ListOK(q, label, d)'
    BY <1>0, <1>4, <2>3, StepSettles, ListKept
  <2> QED
    BY <1>3, <1>4, <2>1, <2>2, <2>4, Zenon
<1>5. CASE q = p
  BY <1>2, <1>3, <1>5, Zenon
<1> QED
  BY <1>4, <1>5

-----------------------------------------------------------------------------
(* A call begins, or something is removed. *)

LEMMA BeginLists ==
  ASSUME FilesInv, FilesInv', ListInv, NEW p \in Processes, NEW place \in Labels, NEW record,
         Begin(p, place, record), ListOK(p, place, record)'
  PROVE  ListInv'
<1>0. TypeInv /\ TypeInv'
  BY DEF FilesInv
<1>1. /\ pc'[p] = place /\ call'[p] = record /\ UNCHANGED kernel
      /\ \A q \in Processes : q # p =>
           pc'[q] = pc[q] /\ call'[q] = call[q] /\ still'[q] = still[q]
  BY <1>0, BeginIs
<1> SUFFICES ASSUME NEW q \in Processes
             PROVE  \A label \in {pc'[q]}, d \in {call'[q]} : ListOK(q, label, d)'
  BY Zenon DEF ListInv
<1>2. CASE q = p
  BY <1>1, <1>2, Zenon
<1>3. CASE q # p
  <2>1. PICK label : label = pc[q]
    BY Zenon
  <2>2. PICK d : d = call[q]
    BY Zenon
  <2>3. ListOK(q, label, d)
    BY <2>1, <2>2, Zenon DEF ListInv
  <2>4. Settled(q)
    <3>1. UNCHANGED tree /\ still'[q] \subseteq still[q]
      BY <1>1, <1>3 DEF kernel
    <3> QED
      BY <3>1, SettledSame
  <2>5. ListOK(q, label, d)'
    BY <1>0, <2>3, <2>4, ListKept
  <2> QED
    BY <1>1, <1>3, <2>1, <2>2, <2>5, Zenon
<1> QED
  BY <1>2, <1>3

LEMMA NotListed ==
  ASSUME NEW p, NEW label, NEW c, c.op # "list"
  PROVE  ListOK(p, label, c)'
<1>1. c \notin ListCalls
  BY DEF ListCalls
<1> QED
  BY <1>1, Zenon DEF ListOK, ListCalls, Entry, EntryNames, Types

LEMMA OtherBeginsList ==
  ASSUME FilesInv, FilesInv', ListInv, NEW p \in Processes,
         BeginRead(p) \/ BeginWrite(p) \/ BeginCreate(p)
  PROVE  ListInv'
<1>0. \E place \in {"open", "create", "exists"} : \E record :
        Begin(p, place, record) /\ record.op # "list"
  <2>1. CASE BeginRead(p)
    <3>1. PICK path \in ReadPaths, max \in Limits :
            \E d : Begin(p, "open", d) /\ d =
                 [op |-> "read", path |-> path, max |-> max, inode |-> 0,
                  size |-> 0, soFar |-> 0, total |-> 0, out |-> <<>>,
                  failed |-> FALSE, result |-> FALSE]
      BY <2>1, Zenon DEF BeginRead
    <3>2. PICK d : Begin(p, "open", d) /\ d =
                 [op |-> "read", path |-> path, max |-> max, inode |-> 0,
                  size |-> 0, soFar |-> 0, total |-> 0, out |-> <<>>,
                  failed |-> FALSE, result |-> FALSE]
      BY <3>1
    <3>3. d.op # "list"
      BY <3>2
    <3> QED
      BY <3>2, <3>3, Zenon
  <2>2. CASE BeginWrite(p)
    <3>1. PICK path \in WritePaths, data \in Data :
            \E d : Begin(p, "create", d) /\ d =
                 [op |-> "write", path |-> path, data |-> data, inode |-> 0,
                  stored |-> 0, total |-> 0, failed |-> FALSE, result |-> FALSE]
      BY <2>2, Zenon DEF BeginWrite
    <3>2. PICK d : Begin(p, "create", d) /\ d =
                 [op |-> "write", path |-> path, data |-> data, inode |-> 0,
                  stored |-> 0, total |-> 0, failed |-> FALSE, result |-> FALSE]
      BY <3>1
    <3>3. d.op # "list"
      BY <3>2
    <3> QED
      BY <3>2, <3>3, Zenon
  <2>3. CASE BeginCreate(p)
    <3>1. PICK path \in DirPaths :
            \E d : Begin(p, "exists", d) /\ d =
                 [op |-> "mkdir", path |-> path, todo |-> SubPaths(path), result |-> FALSE]
      BY <2>3, Zenon DEF BeginCreate
    <3>2. PICK d : Begin(p, "exists", d) /\ d =
                 [op |-> "mkdir", path |-> path, todo |-> SubPaths(path), result |-> FALSE]
      BY <3>1
    <3>3. d.op # "list"
      BY <3>2
    <3> QED
      BY <3>2, <3>3, Zenon
  <2> QED
    BY <2>1, <2>2, <2>3
<1>1. PICK place \in {"open", "create", "exists"} : \E record :
        Begin(p, place, record) /\ record.op # "list"
  BY <1>0, Zenon
<1>2. PICK record : Begin(p, place, record) /\ record.op # "list"
  BY <1>1
<1>3. ListOK(p, place, record)'
  BY <1>2, NotListed
<1>4. place \in Labels
  BY DEF Labels
<1> QED
  BY <1>2, <1>3, <1>4, BeginLists

LEMMA EnumerateBeginsList ==
  ASSUME FilesInv, FilesInv', ListInv, NEW p \in Processes, BeginEnumerate(p)
  PROVE  ListInv'
<1>1. PICK e \in Enumerations :
        \E d : Begin(p, "next", d) /\ d =
             [op |-> "list", recursive |-> e.recursive, type |-> e.type,
              start |-> e.root, pattern |-> e.pattern, root |-> e.root,
              dir_entries |-> <<>>, current |-> 1, pending |-> <<e.root>>,
              entries |-> <<>>, left |-> {}, seen |-> {}, listed |-> <<>>,
              result |-> FALSE]
  BY Zenon DEF BeginEnumerate
<1>2. PICK d : Begin(p, "next", d) /\ d =
             [op |-> "list", recursive |-> e.recursive, type |-> e.type,
              start |-> e.root, pattern |-> e.pattern, root |-> e.root,
              dir_entries |-> <<>>, current |-> 1, pending |-> <<e.root>>,
              entries |-> <<>>, left |-> {}, seen |-> {}, listed |-> <<>>,
              result |-> FALSE]
  BY <1>1
<1>3. d \in ListCalls
  <2>1. e.root \in Paths /\ e.recursive \in BOOLEAN /\ e.type \in SUBSET Types
        /\ e.pattern \in Tokens \cup {NoPattern}
    BY EnumerationsAssumption
  <2>2. /\ <<>> \in Seq(Entry) /\ <<>> \in Seq(Paths) /\ <<e.root>> \in Seq(Paths)
        /\ {} \in SUBSET Names /\ 1 \in Nat
    BY <2>1
  <2> QED
    BY <1>2, <2>1, <2>2, Zenon DEF ListCalls
<1>4. Fresh(d)
  BY <1>2, <1>3 DEF Fresh
<1>5. Fresh(d)'
  BY <1>4, Zenon DEF Fresh, ListCalls, Entry, EntryNames, Types
<1>6. ListOK(p, "next", d)'
  BY <1>5, FreshAreListedNext, Zenon DEF FreshListed
<1>7. "next" \in Labels
  BY DEF Labels
<1> QED
  BY <1>2, <1>6, <1>7, BeginLists

LEMMA NobodyLists ==
  ASSUME FilesInv, FilesInv', ListInv, pc' = pc, call' = call, \A q \in Processes : Settled(q)
  PROVE  ListInv'
<1>0. TypeInv /\ TypeInv'
  BY DEF FilesInv
<1>1. pc' = pc /\ call' = call
  OBVIOUS
<1> SUFFICES ASSUME NEW q \in Processes
             PROVE  \A label \in {pc'[q]}, d \in {call'[q]} : ListOK(q, label, d)'
  BY Zenon DEF ListInv
<1>2. PICK label : label = pc[q]
  BY Zenon
<1>3. PICK d : d = call[q]
  BY Zenon
<1>4. ListOK(q, label, d)
  BY <1>2, <1>3, Zenon DEF ListInv
<1>5. ListOK(q, label, d)'
  BY <1>0, <1>4, ListKept
<1> QED
  BY <1>1, <1>2, <1>3, <1>5, Zenon

LEMMA ListInitInv == Init => ListInv
<1> SUFFICES ASSUME Init, NEW q \in Processes PROVE ListOK(q, pc[q], call[q])
  BY Zenon DEF ListInv
<1>1. call[q] = NoCall
  BY DEF Init
<1>2. NoCall \notin ListCalls
  BY DEF NoCall, ListCalls
<1> QED
  BY <1>1, <1>2, Zenon DEF ListOK

LEMMA ListNextInv == FilesInv /\ FilesInv' /\ ListInv /\ [Next]_vars => ListInv'
<1> SUFFICES ASSUME FilesInv, FilesInv', ListInv, [Next]_vars PROVE ListInv'
  OBVIOUS
<1>1. CASE UNCHANGED vars
  BY <1>1, SettledUnchanged, NobodyLists, Zenon DEF vars
<1>2. CASE \E n \in Nodes : RemoveNode(n)
  <2>1. pc' = pc /\ call' = call
    BY <1>2, Zenon DEF RemoveNode
  <2>2. \A q \in Processes : Settled(q)
    BY <1>2, RemoveNodeSettles DEF FilesInv
  <2> QED
    BY <2>1, <2>2, NobodyLists
<1>3. ASSUME NEW p \in Processes,
             BeginRead(p) \/ BeginEnumerate(p) \/ BeginWrite(p) \/ BeginCreate(p) \/ Step(p)
      PROVE  ListInv'
  BY <1>3, OtherBeginsList, EnumerateBeginsList, StepLists
<1> QED
  BY <1>1, <1>2, <1>3, Zenon DEF Next

(* ListInv is inductive relative to FilesInv. *)
THEOREM ListInvariance == Spec => []ListInv
<1> QED
  BY FilesInvariance, ListInitInv, ListNextInv, PTL DEF Spec

LEMMA BelowIs ==
  ASSUME NEW s \in Below
  PROVE  s \in Seq(Names) /\ s # <<>>
<1>1. PICK n \in Nodes \ {Root} : s \in [1..Len(n) -> Names]
  BY Zenon DEF Below
<1>2. n \in Seq(Names) /\ n # <<>>
  BY <1>1, NodesAssumption DEF Root
<1>3. Len(n) \in Nat \ {0}
  BY <1>2, EmptySeq, LenProperties
<1>4. s \in Seq(Names) /\ Len(s) = Len(n)
  BY <1>1, <1>3
<1> QED
  BY <1>3, <1>4, EmptySeq

LEMMA ListInvFaithful == FilesInv /\ ListInv => ListingFaithful
<1> SUFFICES ASSUME FilesInv, ListInv, NEW p \in Processes, Returned(p, "list")
             PROVE  /\ IsInjective(call[p].listed)
                    /\ \A i \in DOMAIN call[p].listed :
                         Undisturbed(p, call[p].listed[i]) => KindAt(Lookup(call[p].listed[i])) # "none"
                    /\ \A s \in Below :
                         Undisturbed(p, PathOf(call[p], s)) =>
                           (Lists(call[p], s) <=> Contains(call[p].listed, PathOf(call[p], s)))
  BY Zenon DEF ListingFaithful
<1>1. PICK c : c = call[p]
  BY Zenon
<1>2. pc[p] = "returned" /\ c.op = "list"
  BY <1>1, Zenon DEF Returned
<1>3. c \in ListCalls
  <2>1. c \in ReadCalls \/ c \in WriteCalls \/ c \in CreateCalls \/ c \in ListCalls
    BY <1>1, <1>2, Zenon DEF FilesInv, TypeInv, PlaceOK
  <2> QED
    BY <1>2, <2>1 DEF ReadCalls, WriteCalls, CreateCalls
<1>4. ListOK(p, "returned", c)
  BY <1>1, <1>2, Zenon DEF ListInv
<1>5. /\ ThereOK(p, "returned", c) /\ ScanOK("returned", c) /\ OnceOK("returned", c)
      /\ NamesOK(p, "returned", c)
  BY <1>3, <1>4, Zenon DEF ListOK
<1>6. DOMAIN c.listed = 1..Len(c.listed)
  <2>1. c.listed \in Seq(Paths)
    BY <1>3 DEF ListCalls
  <2> QED
    BY <2>1, LenProperties
<1>7. Ahead(c) = {} /\ 1..Len(c.pending) = {} /\ "returned" \notin Reading
  <2>1. Ahead(c) = {} /\ c.pending = <<>>
    BY <1>5, Zenon DEF ScanOK
  <2> QED
    BY <2>1, EmptySeq DEF Reading
<1>8. IsInjective(c.listed)
  BY <1>5, <1>6, Zenon DEF OnceOK, IsInjective
<1>9. \A i \in DOMAIN c.listed : Undisturbed(p, c.listed[i]) => KindAt(Lookup(c.listed[i])) # "none"
  BY <1>5, <1>6, Zenon DEF ThereOK, There
<1>10. ASSUME NEW s \in Below, Undisturbed(p, PathOf(c, s))
       PROVE  Lists(c, s) <=> Contains(c.listed, PathOf(c, s))
  <2>1. ListedOK(p, c, s) /\ FoundOK(p, "returned", c, s)
    BY <1>5, BelowIs, Zenon DEF NamesOK
  <2>2. \A path : ~Coming(c, path) /\ ~ToRead(c, path) /\ ~BeingRead("returned", c, path)
    BY <1>7, Zenon DEF Coming, ToRead, BeingRead
  <2>3. Got(c, PathOf(c, s)) <=> Contains(c.listed, PathOf(c, s))
    BY Zenon DEF Got, Contains
  <2> QED
    BY <1>10, <2>1, <2>2, <2>3, Zenon DEF ListedOK, FoundOK, Entering
<1> QED
  BY <1>1, <1>8, <1>9, <1>10, Zenon

(* ListingFaithful, for any trees, patterns and processes: whatever others *)
(* make and remove meanwhile, FileEnumerator lists no path twice, and of   *)
(* what nobody touches exactly what it should (file_enumerator.cc).        *)
THEOREM ListingsAreFaithful == Spec => []ListingFaithful
<1> QED
  BY FilesInvariance, ListInvariance, ListInvFaithful, PTL
=============================================================================
