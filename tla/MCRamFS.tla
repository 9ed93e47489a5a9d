------------------------------- MODULE MCRamFS -------------------------------
(* Inputs for model-checking RamFS. *)
EXTENDS RamFS

MCNothing == {}

\* For the run about the tree: a name with a slash in it is also a path
\* through a directory, and a file may be named like a directory.
MCTreeNames == {<<"FD-test">>, <<"a">>, <<"a", "b">>}
MCTreePaths == {<<"", "">>, <<"", "a">>, <<"a", "a">>}
MCTreeTexts == {<<"x">>}
MCTreeFlags == {O_RDONLY, O_APPEND}

\* For the run about contents.  Descriptor 3 is open for appending as well, on
\* the file that rm takes and touch creates anew.
MCDataNames == {<<"FD-test">>}
MCDataPaths == {<<"", "dev", "stdin">>, <<"", "FD-test">>}
MCDataTexts == {<<"x">>, <<"x", "y">>}
MCDataFlags == {O_RDWR, O_APPEND}
MCDataOffsets == {-1, 0, 1}
=============================================================================
