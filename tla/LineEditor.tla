----------------------------- MODULE LineEditor -----------------------------
(***************************************************************************)
(* What the console promises the user of the shell: the line is what was   *)
(* typed and not rubbed out, characters beyond Capacity are refused, and   *)
(* Enter hands it to the command, whose name and arguments are the line's  *)
(* first MaxWords words.  An End in the line, which no key types, cuts off *)
(* what follows it.                                                        *)
(***************************************************************************)
EXTENDS Integers, Sequences, SequencesExt

CONSTANTS Char, Blank, End, Capacity, MaxWords

VARIABLES
    text,       \* the line so far
    words       \* what the last command was given

\* The places of a text that belong to words, and where words start and end.
InWord(t) == {i \in 1 .. Len(t) : t[i] # Blank /\ \A k \in 1 .. i : t[k] # End}
Starts(t) == {i \in InWord(t) : i - 1 \notin InWord(t)}
Ends(t) == {i \in InWord(t) : i + 1 \notin InWord(t)}

\* The first n words of t lie between the places from and to.
FirstWords(t, n, from, to) ==
    /\ \A i \in 1 .. n : from[i] <= to[i] /\ from[i] .. to[i] \subseteq InWord(t)
    /\ \A i, j \in 1 .. n : i < j => to[i] < from[j]
    /\ \A k \in InWord(t) :
          \/ \E i \in 1 .. n : k \in from[i] .. to[i]
          \/ n = MaxWords /\ k > to[n]

EditorInit == text = <<>> /\ words = <<>>

Type(c) ==
    /\ Len(text) < Capacity
    /\ text' = Append(text, c)
    /\ UNCHANGED words

RubOut ==
    /\ text # <<>>
    /\ text' = Front(text)
    /\ UNCHANGED words

Enter ==
    /\ \E n \in 0 .. MaxWords :
          \E from \in [1 .. n -> Starts(text)], to \in [1 .. n -> Ends(text)] :
             /\ FirstWords(text, n, from, to)
             /\ words' = [i \in 1 .. n |-> SubSeq(text, from[i], to[i])]
    /\ text' = <<>>

EditorNext == Enter \/ RubOut \/ \E c \in Char \cup {End} : Type(c)

EditorSpec == EditorInit /\ [][EditorNext]_<<text, words>>
=============================================================================
