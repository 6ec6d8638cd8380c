---------------------------- MODULE MCFileSystem ----------------------------
(* A small file system for TLC to check FileSystem with. *)
EXTENDS FileSystem

MCTokens == {"/", ".", "..", "a", "b", "c"}
MCNodes == {<<>>, <<"a">>, <<"a", "b">>, <<"c">>}
MCLinkTarget == <<"a">>
Tree(a, b, c) ==
  [n \in MCNodes |-> CASE n = <<>> -> "dir" [] n = <<"a">> -> a
                       [] n = <<"a", "b">> -> b [] n = <<"c">> -> c]
MCTrees == {Tree("dir", "file", "link"), Tree("none", "none", "link"),
            Tree("dir", "dir", "file"), Tree("file", "none", "none")}
MCFirstBytes == {<<7, 8, 9>>, <<6, 7, 8, 9>>}
MCReadPaths == {<<"c">>}
MCLimits == {2, 100}
MCWritePaths == {<<"c">>}
MCData == {<<>>, <<1, 2>>}
MCDirPaths == {<<"a", "/", "/", "b", "/">>, <<"/", "c", "/", "b">>}
Enumeration(root, recursive, type, pattern) ==
  [root |-> root, recursive |-> recursive, type |-> type, pattern |-> pattern]
MCEnumerations ==
  {Enumeration(<<".">>, TRUE, {"FILES", "DIRECTORIES"}, ""),
   Enumeration(<<"/">>, TRUE, {"FILES", "DIRECTORIES", "SHOW_SYM_LINKS"}, ""),
   Enumeration(<<"a", "/">>, TRUE, {"FILES"}, "b"),
   Enumeration(<<".", "/">>, FALSE, {"FILES", "DIRECTORIES"}, "a"),
   Enumeration(<<"c">>, FALSE, {"DIRECTORIES", "INCLUDE_DOT_DOT"}, "")}
=============================================================================
