----------------------------- MODULE MCNumbers -----------------------------
(***************************************************************************)
(* Numbers with 8-bit words: what a user may type fits into an int or does *)
(* not, is hexadecimal in either case, or is no number from some point on. *)
(***************************************************************************)
EXTENDS Numbers

MCTexts ==
    { <<48>>,                                       \* 0
      <<48, 48>>, <<49>>, <<50>>, <<52>>,           \* 00 1 2 4
      <<57, 57>>,                                   \* 99
      <<49, 50, 55>>, <<49, 50, 56>>,               \* 127 128: int's limits
      <<50, 53, 53>>, <<50, 53, 54>>,               \* 255 256: a word's limits
      <<57, 57, 57>>,                               \* 999
      <<45, 49>>,                                   \* -1: no digits at all
      <<51, 97, 57>>,                               \* 3a9
      <<49, 70>>, <<97, 98>>,                       \* 1F ab
      <<48, 120, 102, 70>>, <<48, 88, 48>>, <<48, 120>> } \* 0xfF 0X0 0x

MCAddresses == {10, 171, 255}

MCOperations == {"+", "-", "*", "/", "%"}
=============================================================================
