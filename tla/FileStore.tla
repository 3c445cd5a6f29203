----------------------------- MODULE FileStore -----------------------------
(***************************************************************************)
(* What the file system promises the user of the shell: files are          *)
(* numbered as they are made and start empty; write puts its text over the *)
(* beginning of one file, as a whole, and leaves the rest of that file and *)
(* all others as they were; rd shows a file.                               *)
(***************************************************************************)
EXTENDS Naturals, Sequences

CONSTANT Text   \* what may be written

VARIABLES
    content,    \* content[n]: the bytes of file n
    display     \* what rd has shown last

Over(t, s) == t \o SubSeq(s, Len(t) + 1, Len(s))

Create == content' = Append(content, <<>>) /\ UNCHANGED display

Write(n) ==
    /\ \E t \in Text : content' = [content EXCEPT ![n] = Over(t, @)]
    /\ UNCHANGED display

Show(n) == display' = content[n] /\ UNCHANGED content

StoreInit ==
    /\ \A n \in DOMAIN content : content[n] = <<>>
    /\ display = <<>>

StoreNext == Create \/ \E n \in DOMAIN content : Write(n) \/ Show(n)

StoreSpec == StoreInit /\ [][StoreNext]_<<content, display>>
=============================================================================
