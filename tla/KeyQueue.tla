------------------------------ MODULE KeyQueue ------------------------------
(***************************************************************************)
(* What the keyboard buffer promises the shell: characters come out in the *)
(* order they went in, each once, as long as no more than Capacity of them *)
(* wait.  One more and the buffer is empty: all that were waiting are      *)
(* lost.  Who asks an empty queue is handed NoChar.                        *)
(***************************************************************************)
EXTENDS Naturals, Sequences

CONSTANTS Char, Capacity

VARIABLES
    queue,      \* the characters that wait
    got         \* what was handed to the shell last

NoChar == 0

QueueInit == queue = <<>> /\ got = NoChar

Put(c) ==
    /\ queue' = IF Len(queue) < Capacity THEN Append(queue, c) ELSE <<>>
    /\ UNCHANGED got

Get ==
    /\ queue # <<>>
    /\ got' = Head(queue)
    /\ queue' = Tail(queue)

GetNothing ==
    /\ queue = <<>>
    /\ got' = NoChar
    /\ UNCHANGED queue

QueueNext == Get \/ GetNothing \/ \E c \in Char : Put(c)

QueueSpec == QueueInit /\ [][QueueNext]_<<queue, got>>
=============================================================================
