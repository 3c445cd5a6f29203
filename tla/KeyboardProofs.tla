--------------------------- MODULE KeyboardProofs ---------------------------
(***************************************************************************)
(* The keyboard ring implements KeyQueue, for every buffer size and every  *)
(* character set.                                                          *)
(***************************************************************************)
EXTENDS Keyboard, TLAPS

N == KEYBOARD_BUFFER_SIZE

\* The slot that is i - 1 slots after FirstUnread.
SlotOf(f, i) == (f + i - 1) % N

(* A sum of two slots wraps around at most once. *)
LEMMA ModOnce == \A x \in 0 .. 2 * N - 1 : x % N = IF x < N THEN x ELSE x - N
<1> SUFFICES ASSUME NEW x \in 0 .. 2 * N - 1
             PROVE  x % N = IF x < N THEN x ELSE x - N
  OBVIOUS
<1>1. N \in Nat \ {0}
  BY KeyboardAssumption DEF N
<1>2. CASE x < N
  BY <1>1, <1>2
<1>3. CASE x >= N
  BY <1>1, <1>3
<1> QED BY <1>1, <1>2, <1>3

(* The slot i - 1 places after slot f. *)
LEMMA SlotOfIs ==
    ASSUME NEW f \in Slot, NEW i \in 1 .. N
    PROVE  SlotOf(f, i) = IF f + i - 1 < N THEN f + i - 1 ELSE f + i - 1 - N
<1>1. N \in Nat \ {0}
  BY KeyboardAssumption DEF N
<1>2. PICK x \in 0 .. 2 * N - 1 : x = f + i - 1
  BY <1>1 DEF Slot, N
<1>3. x % N = IF x < N THEN x ELSE x - N
  BY ModOnce
<1>4. SlotOf(f, i) = x % N
  BY <1>2, Zenon DEF SlotOf
<1> QED BY <1>1, <1>2, <1>3, <1>4 DEF Slot, N

(* Advance, the increment of both indices, stays within the buffer. *)
LEMMA AdvanceIs ==
    ASSUME NEW i \in Slot
    PROVE  /\ Advance(i) = IF i = N - 1 THEN 0 ELSE i + 1
           /\ Advance(i) \in Slot
<1>1. N \in Nat \ {0}
  BY KeyboardAssumption DEF N
<1>2. PICK x \in 0 .. 2 * N - 1 : x = i + 1
  BY <1>1 DEF Slot, N
<1>3. x % N = IF x < N THEN x ELSE x - N
  BY ModOnce
<1> QED BY <1>1, <1>2, <1>3 DEF Advance, Slot, N

(* The type invariant of the ring: both indices stay inside the buffer,    *)
(* whatever the handler and the shell do.                                  *)
THEOREM KeyboardTypeCorrect == KeyboardSpec => []KeyboardTypeOK
<1>1. KeyboardInit => KeyboardTypeOK
  <2>1. 0 \in Slot
    BY KeyboardAssumption DEF Slot
  <2> QED BY <2>1 DEF KeyboardInit, KeyboardTypeOK, NUL
<1>2. KeyboardTypeOK /\ [KeyboardNext]_kbd_vars => KeyboardTypeOK'
  <2> SUFFICES ASSUME KeyboardTypeOK, [KeyboardNext]_kbd_vars
               PROVE  KeyboardTypeOK'
    OBVIOUS
  <2>1. CASE ReadSlot
    BY <2>1 DEF ReadSlot, KeyboardTypeOK
  <2>2. CASE MoveTail
    BY <2>2, AdvanceIs DEF MoveTail, KeyboardTypeOK
  <2>3. ASSUME NEW ch \in Char, StoreChar(ch)
        PROVE  KeyboardTypeOK'
    BY <2>3, AdvanceIs DEF StoreChar, KeyboardTypeOK
  <2>4. CASE LookForInput \/ ReadNothing
    BY <2>4 DEF LookForInput, ReadNothing, KeyboardTypeOK
  <2>5. CASE UNCHANGED kbd_vars
    BY <2>5 DEF kbd_vars, KeyboardTypeOK
  <2> QED BY <2>1, <2>2, <2>3, <2>4, <2>5 DEF KeyboardNext
<1> QED BY <1>1, <1>2, PTL DEF KeyboardSpec

(* The window of unread slots: where it starts and how long it is.         *)
LEMMA Window ==
    ASSUME KeyboardTypeOK
    PROVE  /\ FirstUnread \in Slot
           /\ Unread \in 0 .. N - 1
           /\ \A i \in 1 .. N :
                 /\ SlotOf(FirstUnread, i) \in Slot
                 /\ i <= Unread => SlotOf(FirstUnread, i) # buffer_head
                 /\ i = Unread + 1 => SlotOf(FirstUnread, i) = buffer_head
<1>1. N \in Nat \ {0}
  BY KeyboardAssumption DEF N
<1>2. FirstUnread \in Slot
  BY AdvanceIs DEF FirstUnread, KeyboardTypeOK
<1>3. Unread \in 0 .. N - 1
  BY <1>1, <1>2 DEF Unread, KeyboardTypeOK, Slot, N
<1>4. ASSUME NEW i \in 1 .. N
      PROVE  /\ SlotOf(FirstUnread, i) \in Slot
             /\ i <= Unread => SlotOf(FirstUnread, i) # buffer_head
             /\ i = Unread + 1 => SlotOf(FirstUnread, i) = buffer_head
  <2>1. SlotOf(FirstUnread, i) =
           IF FirstUnread + i - 1 < N THEN FirstUnread + i - 1
           ELSE FirstUnread + i - 1 - N
    BY <1>2, SlotOfIs
  <2> QED BY <1>1, <1>2, <2>1 DEF Unread, KeyboardTypeOK, Slot, N
<1> QED BY <1>2, <1>3, <1>4

(* UnreadChars is a sequence. *)
LEMMA UnreadCharsIsSeq ==
    ASSUME KeyboardTypeOK
    PROVE  /\ UnreadChars \in Seq(Char \cup {NUL})
           /\ Len(UnreadChars) = Unread
           /\ \A i \in 1 .. Unread :
                 UnreadChars[i] = keyboard_buffer[SlotOf(FirstUnread, i)]
<1>1. Unread \in Nat /\ Unread <= N
  BY Window, KeyboardAssumption DEF N
<1>2. \A i \in 1 .. Unread :
         UnreadChars[i] = keyboard_buffer[SlotOf(FirstUnread, i)]
  BY DEF UnreadChars, SlotOf, N
<1>3. \A i \in 1 .. Unread : UnreadChars[i] \in Char \cup {NUL}
  BY <1>1, <1>2, Window, KeyboardAssumption DEF KeyboardTypeOK, N
<1> QED BY <1>1, <1>2, <1>3 DEF UnreadChars

(* The handler's step: the character goes to the end of the queue, or, in  *)
(* a full ring, the queue becomes empty.                                   *)
LEMMA StoreIsPut ==
    ASSUME KeyboardTypeOK, KeyboardTypeOK', NEW ch \in Char, StoreChar(ch)
    PROVE  Queue!Put(ch)
<1>1. N \in Nat \ {0}
  BY KeyboardAssumption DEF N
<1>2. FirstUnread' = FirstUnread
  BY DEF StoreChar, FirstUnread, Advance
<1>3. Unread' = IF Unread < N - 1 THEN Unread + 1 ELSE 0
  <2>1. buffer_head' = IF buffer_head = N - 1 THEN 0 ELSE buffer_head + 1
    BY AdvanceIs DEF StoreChar, KeyboardTypeOK
  <2>2. FirstUnread \in 0 .. N - 1 /\ buffer_head \in 0 .. N - 1
    BY Window DEF KeyboardTypeOK, Slot, N
  <2>3. Unread = IF buffer_head >= FirstUnread THEN buffer_head - FirstUnread
                 ELSE buffer_head - FirstUnread + N
    BY DEF Unread, N
  <2>4. Unread' = IF buffer_head' >= FirstUnread THEN buffer_head' - FirstUnread
                  ELSE buffer_head' - FirstUnread + N
    BY <1>2 DEF Unread, N
  <2>5. CASE buffer_head = N - 1
    BY <1>1, <2>1, <2>2, <2>3, <2>4, <2>5
  <2>6. CASE buffer_head # N - 1
    BY <1>1, <2>1, <2>2, <2>3, <2>4, <2>6
  <2> QED BY <2>5, <2>6
<1>4. Len(UnreadChars) = Unread
  BY UnreadCharsIsSeq
<1>5. CASE Unread < N - 1
  <2>1. Unread' = Unread + 1
    BY <1>3, <1>5
  <2>2. \A i \in 1 .. Unread : UnreadChars'[i] = UnreadChars[i]
    <3> SUFFICES ASSUME NEW i \in 1 .. Unread
                 PROVE  UnreadChars'[i] = UnreadChars[i]
      OBVIOUS
    <3>1. i \in 1 .. N /\ i \in 1 .. Unread'
      BY <1>1, <1>5, <2>1, Window
    <3>2. SlotOf(FirstUnread, i) # buffer_head /\ SlotOf(FirstUnread, i) \in Slot
      BY <3>1, Window
    <3>3. UnreadChars'[i] = keyboard_buffer'[SlotOf(FirstUnread, i)]
      BY <1>2, <3>1 DEF UnreadChars, SlotOf, N
    <3>4. keyboard_buffer'[SlotOf(FirstUnread, i)] = keyboard_buffer[SlotOf(FirstUnread, i)]
      BY <3>2 DEF StoreChar, KeyboardTypeOK
    <3> QED BY <3>3, <3>4, UnreadCharsIsSeq
  <2>3. UnreadChars'[Unread + 1] = ch
    <3>1. Unread + 1 \in 1 .. N /\ Unread + 1 \in 1 .. Unread'
      BY <1>1, <1>5, <2>1, Window
    <3>2. SlotOf(FirstUnread, Unread + 1) = buffer_head
      BY <3>1, Window
    <3>3. UnreadChars'[Unread + 1] = keyboard_buffer'[SlotOf(FirstUnread, Unread + 1)]
      BY <1>2, <3>1 DEF UnreadChars, SlotOf, N
    <3> QED BY <3>2, <3>3 DEF StoreChar, KeyboardTypeOK
  <2>4. UnreadChars' \in Seq(Char \cup {NUL}) /\ Len(UnreadChars') = Unread + 1
    <3>1. UnreadChars' = [i \in 1 .. Unread' |->
              keyboard_buffer'[(FirstUnread' + i - 1) % KEYBOARD_BUFFER_SIZE]]
      BY DEF UnreadChars
    <3>2. \A i \in 1 .. Unread + 1 : UnreadChars'[i] \in Char \cup {NUL}
      <4>1. \A i \in 1 .. Unread : UnreadChars[i] \in Char \cup {NUL}
        BY UnreadCharsIsSeq
      <4> QED BY <2>2, <2>3, <4>1, Window
    <3>3. Unread + 1 \in Nat
      BY Window
    <3> QED BY <2>1, <3>1, <3>2, <3>3
  <2>5. UnreadChars' = Append(UnreadChars, ch)
    <3>1. UnreadChars \in Seq(Char \cup {NUL}) /\ Len(UnreadChars) = Unread
      BY UnreadCharsIsSeq
    <3>2. Append(UnreadChars, ch) \in Seq(Char \cup {NUL})
      BY <3>1
    <3>3. Len(Append(UnreadChars, ch)) = Unread + 1
      BY <3>1
    <3>4. \A i \in 1 .. Unread + 1 : Append(UnreadChars, ch)[i] = UnreadChars'[i]
      BY <2>2, <2>3, <3>1, Window
    <3> QED BY <2>4, <3>2, <3>3, <3>4
  <2> QED BY <1>4, <1>5, <2>5 DEF Queue!Put, StoreChar, N
<1>6. CASE ~ (Unread < N - 1)
  <2>1. UnreadChars' = <<>>
    BY <1>3, <1>6 DEF UnreadChars
  <2> QED BY <1>4, <1>6, <2>1 DEF Queue!Put, StoreChar, N
<1> QED BY <1>5, <1>6

(* The first half of keyboard_getchar takes the head of the queue.         *)
LEMMA ReadIsGet ==
    ASSUME KeyboardTypeOK, KeyboardTypeOK', ReadSlot
    PROVE  Queue!Get
<1>1. N \in Nat \ {0}
  BY KeyboardAssumption DEF N
<1>2. FirstUnread = buffer_tail /\ FirstUnread' = Advance(buffer_tail)
  BY DEF ReadSlot, FirstUnread, Advance
<1>3. Advance(buffer_tail) = IF buffer_tail = N - 1 THEN 0 ELSE buffer_tail + 1
  BY AdvanceIs DEF KeyboardTypeOK
<1>4. Unread' = Unread - 1 /\ Unread >= 1
  BY <1>1, <1>2, <1>3 DEF Unread, ReadSlot, keyboard_has_input, KeyboardTypeOK, Slot, N
<1>5. UnreadChars \in Seq(Char \cup {NUL}) /\ Len(UnreadChars) = Unread
  BY UnreadCharsIsSeq
<1>6. UnreadChars # <<>>
  BY <1>4, <1>5
<1>7. c' = Head(UnreadChars)
  <2>1. 1 \in 1 .. Unread
    BY <1>4, Window
  <2>2. UnreadChars[1] = keyboard_buffer[SlotOf(FirstUnread, 1)]
    BY <2>1, UnreadCharsIsSeq
  <2>3. SlotOf(FirstUnread, 1) = buffer_tail
    <3>1. buffer_tail \in Slot /\ 1 \in 1 .. N
      BY <1>1 DEF KeyboardTypeOK
    <3>2. SlotOf(buffer_tail, 1) = IF buffer_tail + 1 - 1 < N
                                   THEN buffer_tail + 1 - 1
                                   ELSE buffer_tail + 1 - 1 - N
      BY <3>1, SlotOfIs
    <3> QED BY <1>1, <1>2, <3>1, <3>2 DEF Slot, N
  <2> QED BY <1>5, <1>6, <2>2, <2>3 DEF ReadSlot
<1>8. UnreadChars' = Tail(UnreadChars)
  <2>1. \A i \in 1 .. Unread - 1 : UnreadChars'[i] = UnreadChars[i + 1]
    <3> SUFFICES ASSUME NEW i \in 1 .. Unread - 1
                 PROVE  UnreadChars'[i] = UnreadChars[i + 1]
      OBVIOUS
    <3>1. i + 1 \in 1 .. Unread /\ i \in 1 .. Unread'
      BY <1>4, Window
    <3>2. UnreadChars[i + 1] = keyboard_buffer[SlotOf(FirstUnread, i + 1)]
      BY <3>1, UnreadCharsIsSeq
    <3>3. UnreadChars'[i] = keyboard_buffer[SlotOf(FirstUnread', i)]
      BY <3>1 DEF UnreadChars, SlotOf, N, ReadSlot
    <3>4. SlotOf(FirstUnread', i) = SlotOf(FirstUnread, i + 1)
      <4>1. i \in 1 .. N - 1
        BY <1>1, Window
      <4>2. FirstUnread \in Slot /\ FirstUnread' \in Slot
        BY Window, <1>2, AdvanceIs DEF KeyboardTypeOK
      <4>3. i \in 1 .. N /\ i + 1 \in 1 .. N
        BY <1>1, <4>1
      <4>4. SlotOf(FirstUnread', i) =
               IF FirstUnread' + i - 1 < N THEN FirstUnread' + i - 1
               ELSE FirstUnread' + i - 1 - N
        BY <4>2, <4>3, SlotOfIs
      <4>5. PICK j \in 1 .. N : j = i + 1
        BY <4>3
      <4>6. SlotOf(FirstUnread, j) =
               IF FirstUnread + j - 1 < N THEN FirstUnread + j - 1
               ELSE FirstUnread + j - 1 - N
        BY <4>2, SlotOfIs
      <4> QED BY <1>1, <1>2, <1>3, <4>1, <4>2, <4>4, <4>5, <4>6 DEF Slot, N
    <3> QED BY <3>2, <3>3, <3>4
  <2>2. UnreadChars' \in Seq(Char \cup {NUL}) /\ Len(UnreadChars') = Unread - 1
    <3>1. UnreadChars' = [i \in 1 .. Unread' |->
              keyboard_buffer'[(FirstUnread' + i - 1) % KEYBOARD_BUFFER_SIZE]]
      BY DEF UnreadChars
    <3>2. \A i \in 1 .. Unread - 1 : UnreadChars'[i] \in Char \cup {NUL}
      BY <1>4, <1>5, <2>1, Window
    <3>3. Unread - 1 \in Nat
      BY <1>4, Window
    <3> QED BY <1>4, <3>1, <3>2, <3>3
  <2>3. /\ Tail(UnreadChars) \in Seq(Char \cup {NUL})
        /\ Len(Tail(UnreadChars)) = Unread - 1
        /\ \A i \in 1 .. Unread - 1 : Tail(UnreadChars)[i] = UnreadChars[i + 1]
    BY <1>4, <1>5, <1>6
  <2> QED BY <2>1, <2>2, <2>3
<1> QED BY <1>6, <1>7, <1>8 DEF Queue!Get

(* The second half of keyboard_getchar changes nothing that the shell can  *)
(* see: the slot it gives up was read before.                              *)
LEMMA MoveIsStutter ==
    ASSUME KeyboardTypeOK, MoveTail
    PROVE  UnreadChars' = UnreadChars /\ c' = c
<1>1. FirstUnread' = FirstUnread
  BY DEF MoveTail, FirstUnread, KeyboardTypeOK
<1>2. Unread' = Unread
  BY <1>1 DEF MoveTail, Unread
<1> QED BY <1>1, <1>2 DEF UnreadChars, MoveTail

(* A look at the buffer changes nothing in it. *)
LEMMA LookIsStutter ==
    ASSUME LookForInput
    PROVE  UnreadChars' = UnreadChars /\ c' = c
BY DEF LookForInput, UnreadChars, Unread, FirstUnread, Advance

(* keyboard_getchar returns 0 when the queue is empty, and leaves it so.   *)
LEMMA NothingIsGetNothing ==
    ASSUME KeyboardTypeOK, ReadNothing
    PROVE  Queue!GetNothing
<1>1. Unread = 0
  BY DEF ReadNothing, keyboard_has_input, Unread, FirstUnread, KeyboardTypeOK, Slot
<1>2. UnreadChars = <<>>
  BY <1>1 DEF UnreadChars
<1>3. UnreadChars' = UnreadChars
  BY DEF ReadNothing, UnreadChars, Unread, FirstUnread, Advance
<1> QED BY <1>2, <1>3 DEF ReadNothing, Queue!GetNothing, Queue!NoChar, NUL

(* The ring implements KeyQueue: characters come out in order, each once,  *)
(* and a 0 only when none waits, until the ring overflows and loses all    *)
(* that were waiting.                                                      *)
THEOREM RingImplementsQueue == KeyboardSpec => KeyQueueRefinement
<1>1. KeyboardInit => Queue!QueueInit
  <2> SUFFICES ASSUME KeyboardInit
               PROVE  UnreadChars = <<>> /\ c = 0
    BY DEF Queue!QueueInit, Queue!NoChar
  <2>1. Unread = 0
    BY DEF KeyboardInit, Unread, FirstUnread
  <2> QED BY <2>1 DEF KeyboardInit, UnreadChars, NUL
<1>2. KeyboardTypeOK /\ KeyboardTypeOK' /\ [KeyboardNext]_kbd_vars
         => [Queue!QueueNext]_<<UnreadChars, c>>
  <2> SUFFICES ASSUME KeyboardTypeOK, KeyboardTypeOK', [KeyboardNext]_kbd_vars
               PROVE  [Queue!QueueNext]_<<UnreadChars, c>>
    OBVIOUS
  <2>1. CASE ReadSlot
    BY <2>1, ReadIsGet DEF Queue!QueueNext
  <2>2. CASE MoveTail
    BY <2>2, MoveIsStutter
  <2>3. ASSUME NEW ch \in Char, StoreChar(ch)
        PROVE  Queue!QueueNext
    BY <2>3, StoreIsPut DEF Queue!QueueNext
  <2>4. CASE LookForInput
    BY <2>4, LookIsStutter
  <2>5. CASE ReadNothing
    BY <2>5, NothingIsGetNothing DEF Queue!QueueNext
  <2>6. CASE UNCHANGED kbd_vars
    BY <2>6 DEF kbd_vars, UnreadChars, Unread, FirstUnread, Advance
  <2> QED BY <2>1, <2>2, <2>3, <2>4, <2>5, <2>6 DEF KeyboardNext
<1>3. KeyboardSpec => []KeyboardTypeOK
  BY KeyboardTypeCorrect
<1> QED BY <1>1, <1>2, <1>3, PTL DEF KeyboardSpec, KeyQueueRefinement, Queue!QueueSpec
=============================================================================
