---------------------------- MODULE MCFileSystem ----------------------------
(***************************************************************************)
(* A small instance of FileSystem: paths with and without a leading slash, *)
(* in the root and across the mount, and texts that shrink, grow and take  *)
(* several calls of sys_write.                                             *)
(***************************************************************************)
EXTENDS FileSystem

Abs(parts) == [abs |-> TRUE, parts |-> parts]
Rel(parts) == [abs |-> FALSE, parts |-> parts]

Paths == {Rel(<<TMP>>), Rel(<<"f">>), Abs(<<"f">>), Abs(<<TMP, "f">>)}

SomeTexts == {
    << <<"a">> >>,
    << <<"b", "b">> >>,
    << <<"a">>, <<"b">> >>
}
=============================================================================
