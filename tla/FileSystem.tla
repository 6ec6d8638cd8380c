----------------------------- MODULE FileSystem -----------------------------
(***************************************************************************)
(* ReadFile and WriteFile (file/file_utils.h), CreateDirectory            *)
(* (file_utils.cc), FileEnumerator (file_enumerator.cc) and File::remove   *)
(* (file.cc), called by processes that share one file system.              *)
(*                                                                         *)
(* A system call is a step; between two of them the other processes do as  *)
(* they like.  The file system is a tree of Nodes (a node is the sequence  *)
(* of names from the root, which is also the current directory).  Regular  *)
(* files are numbers (inodes) into `content'.  The one kind of symbolic    *)
(* link leads to LinkTarget.  A call interrupted by a signal that is       *)
(* repeated changes nothing, and is no step.                               *)
(***************************************************************************)
EXTENDS FilePath, SequencesExt

CONSTANTS
  Processes, Observers, \* who calls, and who of them ReadFile and FileEnumerator
  Nodes, LinkTarget,   \* the names there may be; where links lead
  Trees, FirstBytes,   \* the trees, and the contents of a file, at first
  ReadPaths, Limits,   \* ReadFile's paths and num_bytes
  WritePaths, Data,    \* WriteFile's paths and containers
  DirPaths,            \* CreateDirectory's paths
  Enumerations,        \* FileEnumerator's arguments
  InitialAlloc,        \* ReadFile's first size for files of unknown size
  MaxInt,              \* the largest int
  MaxCalls, MaxRemoves \* bounds on what is called

Root == <<>>
NoNode == <<"">>
Kinds == {"none", "file", "dir", "link"}
Types == {"FILES", "DIRECTORIES", "INCLUDE_DOT_DOT", "SHOW_SYM_LINKS"}
NoPattern == ""

ASSUME NodesAssumption ==
  /\ Nodes \subseteq Seq(Names)
  /\ Root \in Nodes /\ NoNode \notin Nodes
  /\ \A n \in Nodes \ {Root} : Front(n) \in Nodes
  /\ LinkTarget \in Nodes
ASSUME TreesAssumption ==
  /\ Trees \subseteq [Nodes -> Kinds]
  /\ \A t \in Trees :
       /\ t[Root] = "dir"
       /\ \A n \in Nodes \ {Root} : t[n] # "none" => t[Front(n)] = "dir"
ASSUME CallsAssumption ==
  /\ Observers \subseteq Processes
  /\ ReadPaths \cup WritePaths \cup DirPaths \subseteq Paths
  /\ Data \cup FirstBytes \subseteq Seq(Int)
ASSUME EnumerationsAssumption ==
  \A e \in Enumerations :
    /\ e.root \in Paths /\ e.recursive \in BOOLEAN /\ e.type \subseteq Types
    /\ e.pattern \in Tokens \cup {NoPattern}
ASSUME SizesAssumption ==
  /\ InitialAlloc \in Nat \ {0, 1} /\ MaxInt \in Nat \ {0}
  /\ Limits \subseteq Nat
  /\ MaxCalls \in Nat /\ MaxRemoves \in Nat

VARIABLES
  tree,      \* what is at each node
  inode,     \* the file at a node, 0 if there is none
  content,   \* the bytes of each inode
  pc, call,  \* each process's place, and its call in progress or last call
  calls, removes

(* What properties need to know: the nodes that no other process has       *)
(* changed since a call began, and those where it has removed nothing and  *)
(* made no file.                                                           *)
VARIABLES still, clear

kernel == <<tree, inode, content>>
history == <<still, clear>>
vars == <<kernel, pc, call, calls, removes, history>>

Resting == {"idle", "returned", "terminated"}
NoCall == [op |-> "none"]

Init ==
  /\ tree \in Trees
  /\ inode = [n \in Nodes |-> IF tree[n] = "file" THEN 1 ELSE 0]
  /\ content \in {<<bytes>> : bytes \in FirstBytes}
  /\ pc = [p \in Processes |-> "idle"]
  /\ call = [p \in Processes |-> NoCall]
  /\ calls = 0 /\ removes = 0
  /\ still = [p \in Processes |-> Nodes]
  /\ clear = [p \in Processes |-> Nodes]

-----------------------------------------------------------------------------
(* The operating system. *)

Follow(node) ==
  IF node \in Nodes /\ tree[node] = "link" THEN LinkTarget ELSE node

(* One component of a path further; a separator leads nowhere. *)
Walk(at, token) ==
  LET from == Follow(at)
      to == Append(from, token)
  IN CASE at = NoNode \/ IsSeparator(token) -> at
       [] at # NoNode /\ ~IsSeparator(token) /\ tree[from] # "dir" -> NoNode
       [] OTHER -> CASE token = kCurrentDirectory -> from
                     [] token = kParentDirectory -> IF from = Root THEN Root
                                                    ELSE Front(from)
                     [] OTHER -> IF to \in Nodes THEN to ELSE NoNode

(* The node a path leads to, the last component not followed if it is a    *)
(* link.                                                                   *)
Lookup(path) == IF path = <<>> THEN NoNode ELSE FoldLeft(Walk, Root, path)

Least(m, n) == IF m < n THEN m ELSE n
Target(path) == Follow(Lookup(path))
KindAt(node) == IF node = NoNode THEN "none" ELSE tree[node]

Children(node) == {n \in Nodes : n # Root /\ tree[n] # "none" /\ Front(n) = node}
NodesOf(file) == {n \in Nodes : inode[n] = file}

(* Somebody changes something at some nodes: the calls of others have     *)
(* been disturbed there.  To make a directory spoils nothing for others    *)
(* that make it.                                                           *)
Unless(doers, kept, nodes) ==
  [q \in Processes |-> IF q \in doers THEN kept[q] ELSE kept[q] \ nodes]
Disturb(doers, nodes) == still' = Unless(doers, still, nodes)
Spoil(doers, nodes) == Disturb(doers, nodes) /\ clear' = Unless(doers, clear, nodes)

-----------------------------------------------------------------------------
(* Calls. *)

Begin(p, label, record) ==
  /\ pc[p] \in {"idle", "returned"} /\ calls < MaxCalls
  /\ calls' = calls + 1
  /\ pc' = [pc EXCEPT ![p] = label]
  /\ call' = [call EXCEPT ![p] = record]
  /\ still' = [still EXCEPT ![p] = Nodes]
  /\ clear' = [clear EXCEPT ![p] = Nodes]
  /\ UNCHANGED <<kernel, removes>>

Go(p, label, record) ==
  /\ pc' = [pc EXCEPT ![p] = label]
  /\ call' = [call EXCEPT ![p] = record]
  /\ UNCHANGED <<calls, removes>>
Return(p, record, result) == Go(p, "returned", [record EXCEPT !.result = result])

(* File::remove, one system call, by some other process. *)
RemoveNode(n) ==
  /\ removes < MaxRemoves
  /\ n # Root /\ tree[n] # "none" /\ Children(n) = {}
  /\ tree' = [tree EXCEPT ![n] = "none"]
  /\ inode' = [inode EXCEPT ![n] = 0]
  /\ Spoil({}, {n})
  /\ removes' = removes + 1
  /\ UNCHANGED <<content, pc, call, calls>>

-----------------------------------------------------------------------------
(* ReadFile. *)

BeginRead(p) ==
  \E path \in ReadPaths, max \in Limits :
    Begin(p, "open", [op |-> "read", path |-> path, max |-> max, inode |-> 0,
                      size |-> 0, soFar |-> 0, total |-> 0, out |-> <<>>,
                      failed |-> FALSE, result |-> FALSE])

(* OpenNoInterrupt; without a file, ReadFile fails. *)
OpenRead(p) ==
  LET file == IF Target(call[p].path) = NoNode THEN 0
              ELSE inode[Target(call[p].path)]
  IN /\ pc[p] = "open"
     /\ IF file = 0 THEN Return(p, [call[p] EXCEPT !.failed = TRUE], FALSE)
        ELSE Go(p, "fstat", [call[p] EXCEPT !.inode = file])
     /\ UNCHANGED <<kernel, history>>

(* What fstat says of a file's size may be untrue: there are files that    *)
(* say 0.  One byte more than the size is asked for, or InitialAlloc.      *)
Fstat(p) ==
  /\ pc[p] = "fstat"
  /\ \E st_size \in {Len(content[call[p].inode]), 0} :
       LET wanted == IF st_size > 0 THEN st_size + 1 ELSE InitialAlloc
           size == Least(wanted, call[p].max)
       IN IF size = 0 THEN Return(p, call[p], TRUE)
          ELSE Go(p, "read", [call[p] EXCEPT !.size = size])
  /\ UNCHANGED <<kernel, history>>

(* WrapIncomplete adds up an int. *)
Int32(n) == ((n + MaxInt + 1) % (2 * (MaxInt + 1))) - (MaxInt + 1)

(* Bytes of ReadFull's buffer that have been filled. *)
Filled(c) == Len(c.out) - c.soFar

(* Faulty variant: the container never grows. *)
GrownNot(size, max) == size

Grown(size, max) == Least((size * 3) \div 2, max)

(* What ReadFile makes of ReadFull's result.  read_so_far is unsigned: a   *)
(* total that overflowed to less than nothing makes it larger than any     *)
(* size, and resizing the container to that at the end of the scope throws *)
(* where nothing may be thrown.                                            *)
ReadFullReturns(p, c) ==
  LET soFar == c.soFar + c.total
      size == Grown(c.size, c.max)
      next == [c EXCEPT !.soFar = soFar, !.total = 0]
  IN CASE c.total = -1 -> Return(p, [c EXCEPT !.out = SubSeq(@, 1, c.soFar)], FALSE)
       [] c.total # -1 /\ soFar < 0 -> Go(p, "terminated", c)
       [] c.total # -1 /\ soFar \in 0..(c.size - 1) ->
            Return(p, [next EXCEPT !.out = SubSeq(@, 1, soFar)], TRUE)
       [] c.total # -1 /\ soFar \in c.size..(size - 1) ->
            Go(p, "read", [next EXCEPT !.size = size])
       [] OTHER -> Return(p, [next EXCEPT !.size = size], TRUE)

(* One read() within ReadFull: any part of what there is, and nothing only *)
(* at the end of the file.                                                 *)
Read(p) ==
  LET c == call[p]
      wanted == c.size - c.soFar - Filled(c)
      left == SubSeq(content[c.inode], Len(c.out) + 1, Len(content[c.inode]))
  IN /\ pc[p] = "read"
     /\ \E r \in 0..Least(wanted, Len(left)) :
          LET after == [c EXCEPT !.out = @ \o SubSeq(left, 1, r),
                                 !.total = Int32(@ + r)]
          IN /\ r = 0 <=> left = <<>>
             /\ IF r # 0 /\ r < wanted THEN Go(p, "read", after)
                ELSE ReadFullReturns(p, after)
     /\ UNCHANGED <<kernel, history>>

(* fstat or read fails: what has been read by earlier ReadFulls is left.   *)
ReadFails(p) ==
  /\ pc[p] \in {"fstat", "read"}
  /\ Return(p, [call[p] EXCEPT !.out = SubSeq(@, 1, call[p].soFar),
                               !.failed = TRUE], FALSE)
  /\ UNCHANGED <<kernel, history>>

-----------------------------------------------------------------------------
(* WriteFile. *)

BeginWrite(p) ==
  \E path \in WritePaths, data \in Data :
    Begin(p, "create", [op |-> "write", path |-> path, data |-> data, inode |-> 0,
                        stored |-> 0, total |-> 0, failed |-> FALSE,
                        result |-> FALSE])

(* open with O_CREAT and O_TRUNC. *)
OpenWrite(p) ==
  LET node == Target(call[p].path)
      made == tree[node] = "none"
      file == IF made THEN Len(content) + 1 ELSE inode[node]
  IN /\ pc[p] = "create"
     /\ node # NoNode /\ tree[Front(node)] = "dir" /\ tree[node] \in {"none", "file"}
     /\ tree' = [tree EXCEPT ![node] = "file"]
     /\ inode' = [inode EXCEPT ![node] = file]
     /\ content' = IF made THEN Append(content, <<>>)
                   ELSE [content EXCEPT ![file] = <<>>]
     /\ IF made THEN Spoil({p}, {node})
        ELSE Disturb({p}, NodesOf(file)) /\ UNCHANGED clear
     /\ Go(p, IF call[p].data = <<>> THEN "close" ELSE "write",
           [call[p] EXCEPT !.inode = file])

(* open fails; it is not repeated when a signal interrupts it. *)
OpenWriteFails(p) ==
  /\ pc[p] = "create"
  /\ Return(p, [call[p] EXCEPT !.failed = TRUE], FALSE)
  /\ UNCHANGED <<kernel, history>>

(* The file's bytes after some are written at an offset: if the file has   *)
(* become shorter than that, zeros are what is between.                    *)
Written(old, offset, bytes) ==
  [i \in 1..(IF Len(old) > offset + Len(bytes) THEN Len(old) ELSE offset + Len(bytes)) |->
     IF i \in (offset + 1)..(offset + Len(bytes)) THEN bytes[i - offset]
     ELSE IF i <= Len(old) THEN old[i] ELSE 0]

(* One write() within WriteFull: any part of what is left. *)
Write(p) ==
  LET c == call[p]
      left == Len(c.data) - c.stored
  IN /\ pc[p] = "write"
     /\ \E r \in 1..left :
          /\ content' = [content EXCEPT ![c.inode] =
                           Written(@, c.stored, SubSeq(c.data, c.stored + 1, c.stored + r))]
          /\ Go(p, IF r = left THEN "close" ELSE "write",
                [c EXCEPT !.stored = @ + r, !.total = Int32(@ + r)])
     /\ Disturb({p}, NodesOf(c.inode))
     /\ UNCHANGED <<tree, inode, clear>>

WriteFails(p) ==
  /\ pc[p] = "write"
  /\ Go(p, "close", [call[p] EXCEPT !.total = -1, !.failed = TRUE])
  /\ UNCHANGED <<kernel, history>>

(* CloseNoInterrupt, which may fail as well; WriteFile is true if all was  *)
(* written and the file closed.                                            *)
Close(p) ==
  /\ pc[p] = "close"
  /\ \E closed \in BOOLEAN :
       Return(p, [call[p] EXCEPT !.failed = @ \/ ~closed],
              closed /\ call[p].total = Len(call[p].data))
  /\ UNCHANGED <<kernel, history>>

-----------------------------------------------------------------------------
(* CreateDirectory. *)

BeginCreate(p) ==
  \E path \in DirPaths :
    Begin(p, "exists", [op |-> "mkdir", path |-> path, todo |-> SubPaths(path),
                        result |-> FALSE])

DirectoryExists(path) == KindAt(Target(path)) = "dir"

(* The next of the paths, or the end of them. *)
NextPath(p) ==
  LET rest == [call[p] EXCEPT !.todo = Tail(@)]
  IN IF rest.todo = <<>> THEN Return(p, rest, TRUE) ELSE Go(p, "exists", rest)

CheckExists(p) ==
  /\ pc[p] = "exists"
  /\ IF DirectoryExists(Head(call[p].todo)) THEN NextPath(p)
     ELSE Go(p, "mkdir", call[p])
  /\ UNCHANGED <<kernel, history>>

MakeDirectory(p) ==
  LET node == Lookup(Head(call[p].todo))
  IN /\ pc[p] = "mkdir"
     /\ IF KindAt(node) = "none" /\ node # NoNode /\ tree[Front(node)] = "dir"
        THEN /\ tree' = [tree EXCEPT ![node] = "dir"]
             /\ Disturb({p}, {node})
             /\ NextPath(p)
             /\ UNCHANGED <<inode, content, clear>>
        ELSE /\ Go(p, "recheck", call[p])
             /\ UNCHANGED <<kernel, history>>

(* Faulty variants: what mkdir said is believed; it is tried for ever.     *)
CheckAgainNot(p) ==
  /\ pc[p] = "recheck"
  /\ Return(p, call[p], FALSE)
  /\ UNCHANGED <<kernel, history>>
CheckAgainForever(p) ==
  /\ pc[p] = "recheck"
  /\ IF DirectoryExists(Head(call[p].todo)) THEN NextPath(p)
     ELSE Go(p, "exists", call[p])
  /\ UNCHANGED <<kernel, history>>

(* It may have failed because the directory is there by now. *)
CheckAgain(p) ==
  /\ pc[p] = "recheck"
  /\ IF DirectoryExists(Head(call[p].todo)) THEN NextPath(p)
     ELSE Return(p, call[p], FALSE)
  /\ UNCHANGED <<kernel, history>>

-----------------------------------------------------------------------------
(* FileEnumerator: a process makes one and calls next() until it gets the  *)
(* empty path.  `listed' are the paths it got.                             *)

BeginEnumerate(p) ==
  \E e \in Enumerations :
    Begin(p, "next", [op |-> "list", recursive |-> e.recursive, type |-> e.type,
                      start |-> e.root, pattern |-> e.pattern, root |-> e.root,
                      dir_entries |-> <<>>, current |-> 1, pending |-> <<e.root>>,
                      entries |-> <<>>, left |-> {}, seen |-> {}, listed |-> <<>>,
                      result |-> FALSE])

(* The path of an entry: root_path_.append(name). *)
Full(c, name) == AppendTo(c.root, <<name>>)

Skip(c, path) ==
  \/ BaseName(path) = <<kCurrentDirectory>>
  \/ BaseName(path) = <<kParentDirectory>> /\ "INCLUDE_DOT_DOT" \notin c.type

(* A pattern without wildcards is matched by one path. *)
Matches(c, path) ==
  c.pattern # NoPattern => path = AppendTo(c.start, <<c.pattern>>)

(* next() within a directory that has been read. *)
NextEntry(p) ==
  LET c == call[p]
  IN /\ pc[p] = "next" /\ c.current < Len(c.dir_entries)
     /\ Go(p, "next", [c EXCEPT
             !.listed = Append(@, Full(c, c.dir_entries[c.current + 1].name)),
             !.current = @ + 1])
     /\ UNCHANGED <<kernel, history>>

(* The next of the pending directories is opened, or was none; or the path *)
(* is empty, as none is left.                                              *)
NextDirectory(p) ==
  LET c == call[p]
      root == StripTrailingSeparators(Last(c.pending))
      popped == [c EXCEPT !.root = root, !.pending = Front(@)]
  IN /\ pc[p] = "next" /\ c.current >= Len(c.dir_entries)
     /\ IF c.pending = <<>> THEN Return(p, c, TRUE)
        ELSE IF DirectoryExists(root)
        THEN Go(p, "readdir",
                [popped EXCEPT
                   !.entries = <<[name |-> kCurrentDirectory, dir |-> TRUE],
                                 [name |-> kParentDirectory, dir |-> TRUE]>>,
                   !.left = {Last(n) : n \in Children(Target(root))},
                   !.seen = {}])
        ELSE Go(p, "next", popped)
     /\ UNCHANGED <<kernel, history>>

(* readdir gives each name that is there all the time once; names that     *)
(* come or go meanwhile it may give or not.                                *)
Present(c) == {Last(n) : n \in Children(Target(c.root))}
ReadEntry(p) ==
  LET c == call[p]
  IN /\ pc[p] = "readdir"
     /\ \E name \in (c.left \cup Present(c)) \ c.seen :
          Go(p, "stat", [c EXCEPT !.seen = @ \cup {name},
                                  !.entries = Append(@, [name |-> name, dir |-> FALSE])])
     /\ UNCHANGED <<kernel, history>>

(* stat, or lstat if links are to be shown; an entry that is gone by now   *)
(* keeps a cleared stat, which is no directory's.                          *)
Shown(c, path) == IF "SHOW_SYM_LINKS" \in c.type THEN Lookup(path) ELSE Target(path)
StatEntry(p) ==
  LET c == call[p]
      node == Shown(c, Full(c, Last(c.entries).name))
  IN /\ pc[p] = "stat"
     /\ Go(p, "readdir", [c EXCEPT !.entries[Len(c.entries)].dir = KindAt(node) = "dir"])
     /\ UNCHANGED <<kernel, history>>

(* An entry of a directory that has been read may be wanted, and be a      *)
(* directory to be read as well.                                           *)
TakeEntry(c, e) ==
  LET path == Full(c, e.name)
      wanted == (IF e.dir THEN "DIRECTORIES" ELSE "FILES") \in c.type
  IN IF Skip(c, path) \/ ~Matches(c, path) THEN c
     ELSE [c EXCEPT !.pending = IF c.recursive /\ e.dir THEN Append(@, path) ELSE @,
                    !.dir_entries = IF wanted THEN Append(@, e) ELSE @]

(* Faulty variant: the entries of the last directory are kept. *)
ClearedNot(c) == [c EXCEPT !.current = 0]

Cleared(c) == [c EXCEPT !.dir_entries = <<>>, !.current = 0]

(* The directory has been read: its entries take the place of the last     *)
(* one's, and its directories become pending.                              *)
EndDirectory(p) ==
  LET c == call[p]
      taken == FoldLeft(TakeEntry, Cleared(c), c.entries)
  IN /\ pc[p] = "readdir" /\ c.left \cap Present(c) \subseteq c.seen
     /\ Go(p, "next", [taken EXCEPT !.entries = <<>>, !.left = {}, !.seen = {}])
     /\ UNCHANGED <<kernel, history>>

-----------------------------------------------------------------------------
Step(p) ==
  \/ OpenRead(p) \/ Fstat(p) \/ Read(p) \/ ReadFails(p)
  \/ OpenWrite(p) \/ OpenWriteFails(p) \/ Write(p) \/ WriteFails(p) \/ Close(p)
  \/ CheckExists(p) \/ MakeDirectory(p) \/ CheckAgain(p)
  \/ NextEntry(p) \/ NextDirectory(p) \/ ReadEntry(p) \/ StatEntry(p)
  \/ EndDirectory(p)

Next ==
  \/ \E p \in Processes :
       \/ p \in Observers /\ (BeginRead(p) \/ BeginEnumerate(p))
       \/ BeginWrite(p) \/ BeginCreate(p)
       \/ Step(p)
  \/ \E n \in Nodes : RemoveNode(n)

(* Weak fairness of Step(p), which is enabled exactly while p is in a call. *)
Scheduled(p) == []<>(pc[p] \in Resting) \/ []<><<Step(p)>>_<<pc, call>>

Spec == Init /\ [][Next]_vars /\ \A p \in Processes : Scheduled(p)

-----------------------------------------------------------------------------
(* The tree is one: what is there is in a directory, and only files have   *)
(* inodes.                                                                 *)
TypeOK ==
  /\ tree \in [Nodes -> Kinds] /\ tree[Root] = "dir"
  /\ \A n \in Nodes \ {Root} : tree[n] # "none" => tree[Front(n)] = "dir"
  /\ inode \in [Nodes -> 0..Len(content)]
  /\ \A n \in Nodes : inode[n] # 0 <=> tree[n] = "file"
  /\ still \in [Processes -> SUBSET Nodes] /\ clear \in [Processes -> SUBSET Nodes]
  /\ calls \in 0..MaxCalls /\ removes \in 0..MaxRemoves

Returned(p, op) == pc[p] = "returned" /\ call[p].op = op
(* The file a call has opened still has a name that nobody else has changed *)
(* anything at since the call began, and so nobody else has written to it. *)
Kept(p) == \E n \in still[p] : inode[n] = call[p].inode

(* A file nobody else changes is read whole, or its first num_bytes bytes, *)
(* whatever size fstat gives and however little each read() gives, and     *)
(* what a WriteFile that succeeds leaves is its container; one that fails  *)
(* leaves a beginning of it.  Without errors of the system both succeed.   *)
(* All this as long as an int can count the bytes.                         *)
FilesExact ==
  \A p \in Processes :
    LET c == call[p]
    IN /\ Returned(p, "read") /\ c.inode # 0 /\ Kept(p) =>
            LET file == content[c.inode]
                least == Least(c.max, Len(file))
            IN least <= MaxInt =>
                 /\ c.result <=> ~c.failed
                 /\ c.result => c.out = SubSeq(file, 1, least)
                 /\ IsPrefix(c.out, file)
       /\ Returned(p, "write") /\ c.inode # 0 /\ Kept(p) =>
            /\ c.result => content[c.inode] = c.data
            /\ IsPrefix(content[c.inode], c.data)
            /\ Len(c.data) <= MaxInt => (c.result <=> ~c.failed)
       /\ pc[p] = "terminated" /\ Kept(p) => Len(content[c.inode]) > MaxInt

(* Processes that make the same directory at once all succeed, and then it *)
(* is there: CreateDirectory fails only if something else is in its way,   *)
(* or is or was removed or made there meanwhile.  mkdir and stat that fail *)
(* for another reason (EACCES, ENOSPC) are not modelled: there is memory,  *)
(* space and permission for all that is asked for.                         *)
Involved(path) ==
  UNION {{Lookup(q), Target(q)} : q \in {SubPaths(path)[i] : i \in DOMAIN SubPaths(path)}}
CreatorsAgree ==
  \A p \in Processes :
    LET path == call[p].path
    IN Returned(p, "mkdir") /\ path # <<>> /\ Involved(path) \subseteq clear[p] =>
         IF call[p].result THEN DirectoryExists(path)
         ELSE \E n \in Involved(path) : KindAt(n) \in {"file", "link"}

(* Nobody else has changed anything on the way of a path, as far as it     *)
(* leads.                                                                  *)
Undisturbed(p, path) ==
  \A k \in 1..Len(path) :
    {Lookup(SubSeq(path, 1, k)), Target(SubSeq(path, 1, k))}
      \subseteq still[p] \cup {NoNode}

(* The paths an enumeration c gives to the names below the one where it    *)
(* starts, and which of those it should list.                              *)
AppendName(path, name) == AppendTo(path, <<name>>)
PathOf(c, names) == FoldLeft(AppendName, StripTrailingSeparators(c.start), names)
Below == UNION {[1..Len(n) -> Names] : n \in Nodes \ {Root}}
Lists(c, names) ==
  LET IsDirectory(k) == KindAt(Shown(c, PathOf(c, SubSeq(names, 1, k)))) = "dir"
  IN /\ c.start # <<>> /\ (c.recursive \/ Len(names) = 1)
     /\ c.pattern # NoPattern =>
          /\ names = <<c.pattern>>
          /\ StripTrailingSeparators(c.start) = <<kCurrentDirectory>> =>
               c.start = <<kCurrentDirectory>>
     /\ KindAt(Lookup(PathOf(c, names))) # "none"
     /\ \A k \in 1..(Len(names) - 1) : IsDirectory(k)
     /\ (IF IsDirectory(Len(names)) THEN "DIRECTORIES" ELSE "FILES") \in c.type

(* Whatever else is made and removed in the meantime, an enumeration lists *)
(* no path twice, and none where nothing has been all along; and of the    *)
(* names that nobody changes anything on the way to, those that it should. *)
(* opendir, readdir and stat fail in the model only because nothing, or no *)
(* directory, is there: not for want of permission, memory or descriptors. *)
ListingFaithful ==
  \A p \in Processes :
    LET c == call[p]
    IN Returned(p, "list") =>
         /\ IsInjective(c.listed)
         /\ \A i \in DOMAIN c.listed :
              Undisturbed(p, c.listed[i]) => KindAt(Lookup(c.listed[i])) # "none"
         /\ \A names \in Below :
              Undisturbed(p, PathOf(c, names)) =>
                (Lists(c, names) <=> Contains(c.listed, PathOf(c, names)))

(* Every call returns: reading and writing go on only as long as there is  *)
(* something to read and write, and every enumeration comes to an end.     *)
CallsReturn == \A p \in Processes : pc[p] \notin Resting ~> pc[p] \in Resting
=============================================================================
