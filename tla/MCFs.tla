-------------------------------- MODULE MCFs --------------------------------
(* Instances of Fs for TLC.                                                  *)
EXTENDS Fs

ThreadSymmetry == Permutations(Thread)

\* System calls on absolute paths, and on paths from the current directory.
On(op, path) == [op |-> op, abs |-> TRUE, path |-> path, new |-> <<>>,
                 trunc |-> FALSE]
From(op, path) == [On(op, path) EXCEPT !.abs = FALSE]
Open(op, path, trunc) == [On(op, path) EXCEPT !.trunc = trunc]
Link(old, new) == [On("link", old) EXCEPT !.new = new]
Close == On("close", <<>>)
Dup == On("dup", <<>>)
Write == On("write", <<>>)

\* Two names of one file, in the root directory.
LoadLinks ==
  {On("mknod", <<"a">>), Link(<<"a">>, <<"b">>), Link(<<"a">>, <<"b", "a">>),
   On("unlink", <<"a">>), On("unlink", <<"b">>)}

\* A device that is opened while it is unlinked.
LoadOpen ==
  {On("mknod", <<"a">>), On("open", <<"a">>), On("unlink", <<"a">>), Close}

\* A file that is written and truncated.
LoadBlocks ==
  {Open("create", <<"a">>, TRUE), On("unlink", <<"a">>), Write, Dup, Close}

\* A directory with a file or a directory in it.
LoadDirs ==
  {On("mkdir", <<"a">>), On("create", <<"a", "b">>), On("mkdir", <<"a", "b">>),
   On("unlink", <<"a", "b">>), On("unlink", <<"a">>), Close}

\* The same from inside the directory.
LoadCwd ==
  {On("mkdir", <<"a">>), On("chdir", <<"a">>), On("unlink", <<"a">>),
   From("mknod", <<"b">>), On("chdir", <<>>), On("unlink", <<>>),
   Open("open", <<"a">>, TRUE)}

\* Going up from a directory that may have been removed.
LoadUp ==
  {On("mkdir", <<"a">>), On("mkdir", <<"a", "b">>), On("chdir", <<"a", "b">>),
   On("unlink", <<"a", "b">>), On("unlink", <<"a">>), From("chdir", <<"..">>)}

FsLoads == {LoadLinks, LoadOpen, LoadBlocks, LoadDirs, LoadCwd}

\* Loads in which a property fails.
LoadsLinks == {LoadLinks}
LoadsUp == {LoadUp}
=============================================================================
