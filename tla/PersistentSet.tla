---------------------------- MODULE PersistentSet ----------------------------
(***************************************************************************)
(* go-fuzz/persistent.go: a set of artifacts held in memory (m) and        *)
(* mirrored as one file per artifact in a directory: the artifacts in      *)
(* whole files (disk) and those whose file is truncated (torn).  An        *)
(* artifact is known by the hash of its bytes, so artifact and hash are    *)
(* the same value here.  The file is named by the hash and, in the corpus, *)
(* by the depth of the input, which may differ the next time it is found;  *)
(* the name does not influence membership.  A write is create-truncate     *)
(* followed by write: it may fail at either (the error is only logged),    *)
(* and a process may die in between.  A truncated file is read as the      *)
(* empty artifact.                                                         *)
(***************************************************************************)

EmptyFile == "empty"       \* the artifact []byte{}

Sets(Artifact) == [m : SUBSET Artifact, disk : SUBSET Artifact, torn : SUBSET Artifact]

\* newPersistentSet, readInDir: whatever the files contain, by content.
newPersistentSet(dir) ==
  [m |-> dir.disk \cup {EmptyFile : a \in dir.torn}, disk |-> dir.disk, torn |-> dir.torn]

has(ps, a) == a \in ps.m

\* What WriteFile leaves of a file: the artifact, under the name of an earlier file of it
\* or another name; an empty file; nothing new.
Files == {"whole", "beside", "torn", "none"}
PlainFiles == Files \ {"beside"}         \* of artifacts whose name is the hash alone
Whole(written) == written \in {"whole", "beside"}

\* Faulty variant: the artifact is never written.
addInMemory(ps, a, written) == [ps EXCEPT !.m = @ \cup {a}]

\* add, for an artifact not yet in m.
add(ps, a, written) ==
  [m    |-> ps.m \cup {a},
   disk |-> IF Whole(written) THEN ps.disk \cup {a} ELSE ps.disk,
   torn |-> CASE written = "whole" -> ps.torn \ {a}
              [] written = "torn"  -> ps.torn \cup {a}
              [] OTHER             -> ps.torn]

\* The directory left by a process that dies inside the WriteFile of add.
torn(ps, a) == [ps EXCEPT !.torn = @ \cup {a}]
=============================================================================
