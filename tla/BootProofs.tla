----------------------------- MODULE BootProofs -----------------------------
(***************************************************************************)
(* The interrupt entry is right for every set of exceptions, as long as    *)
(* the stubs and the processor agree on the error codes: isr_handler sees  *)
(* the interrupt that was raised, what was interrupted is restored, and    *)
(* the order of the boot never lets an interrupt reset the machine.        *)
(*                                                                         *)
(* The inductive invariant is the shape of the stack above the context of  *)
(* each interrupt that is being served: above the innermost one it is the  *)
(* processor's stack, above another one what the next one interrupted.     *)
(***************************************************************************)
EXTENDS Boot, SequenceTheorems, TLAPS

Act == [vector : Int, code : Seq(Int), at : {"stub", "handler", "leave", "halted"},
        stack : Seq(Int), regs : [Registers -> Int], eip : Int, iflag : BOOLEAN]

EntryTypeOK ==
    /\ stack \in Seq(Int) /\ regs \in [Registers -> Int]
    /\ eip \in Int /\ iflag \in BOOLEAN
    /\ acts \in Seq(Act)

\* The processor pushes a code exactly where the stub does not.
CodeFits(v, code) == IF v \in ISR_ERR THEN Len(code) = 1 ELSE code = <<>>

CodeOf(a) == IF a.code = <<>> THEN 0 ELSE a.code[1]

\* What interrupt a has put on stack s, and the registers r meanwhile.
FrameOK(a, s) ==
    LET n == Len(a.stack) IN
    /\ \A j \in 1 .. n : s[j] = a.stack[j]
    /\ s[n + 1] = EFLAGS(a.iflag)
    /\ s[n + 3] = a.eip

SavedOK(a, s) ==
    LET n == Len(a.stack) IN
    /\ Len(s) = n + 15
    /\ \A k \in 1 .. 8 : Pushed[k] # "esp" => s[n + 5 + k] = a.regs[Pushed[k]]

Shape(a, s, r) ==
    LET n == Len(a.stack) IN
    /\ CodeFits(a.vector, a.code)
    /\ FrameOK(a, s)
    /\ a.at = "stub" => /\ Len(s) = n + 3 + Len(a.code)
                        /\ a.code # <<>> => s[n + 4] = a.code[1]
                        /\ r = a.regs
    /\ a.at \in {"handler", "leave"} => SavedOK(a, s)
    /\ a.at = "handler" => s[n + 14] = CodeOf(a) /\ s[n + 15] = a.vector

\* The stack and the registers above the context of the i-th interrupt.
StackOf(i) == IF i = Len(acts) THEN stack ELSE acts[i + 1].stack

RegsOf(i) == IF i = Len(acts) THEN regs ELSE acts[i + 1].regs

StackShape == \A i \in 1 .. Len(acts) : Shape(acts[i], StackOf(i), RegsOf(i))

\* A line may interrupt only when the controllers send the remapped vectors.
LinesRemapped ==
    /\ stage \in 1 .. Len(Stages) /\ remapped \in BOOLEAN
    /\ stage > 5 => remapped
    /\ iflag => remapped
    /\ \A i \in 1 .. Len(acts) : acts[i].iflag => remapped

BootInv == EntryTypeOK /\ StackShape /\ LinesRemapped
-----------------------------------------------------------------------------
(* The registers that pusha saves, by the place of each. *)

(* Each register has one place in the order of pusha. *)
LEMMA PushedPlaces ==
    /\ \A i \in 1 .. 8 : \A j \in 1 .. 8 : Pushed[i] = Pushed[j] => i = j
    /\ \A i \in 1 .. 8 : Pushed[i] # "esp" => Pushed[i] \in Registers
    /\ \A r \in Registers : \E i \in 1 .. 8 : Pushed[i] = r /\ r # "esp"
<1>1. DOMAIN Pushed = 1 .. 8
  BY DEF Pushed
<1>2. \A i \in 1 .. 8 : \A j \in 1 .. 8 : Pushed[i] = Pushed[j] => i = j
  BY DEF Pushed
<1> QED BY <1>1, <1>2 DEF Registers

(* The place that popa looks up. *)
LEMMA PlaceOf ==
    ASSUME NEW r \in Registers
    PROVE  LET i == CHOOSE k \in 1 .. 8 : Pushed[k] = r IN
           i \in 1 .. 8 /\ Pushed[i] = r /\ Pushed[i] # "esp"
BY PushedPlaces
-----------------------------------------------------------------------------
(* Steps of the entry. *)

(* The innermost interrupt has the processor's stack above it. *)
LEMMA TopIs ==
    ASSUME EntryTypeOK, StackShape, acts # <<>>
    PROVE  Top \in Act /\ Shape(Top, stack, regs)
<1>1. Len(acts) \in 1 .. Len(acts) /\ acts[Len(acts)] \in Act
  BY DEF EntryTypeOK
<1> QED BY <1>1 DEF StackShape, StackOf, RegsOf, Top

(* A step of the innermost interrupt leaves the others as they are. *)
LEMMA TopStep ==
    ASSUME EntryTypeOK, StackShape, acts # <<>>,
           NEW x \in {"stub", "handler", "leave", "halted"}, SetTop(x),
           Shape([Top EXCEPT !.at = x], stack', regs')
    PROVE  /\ acts' \in Seq(Act) /\ StackShape'
           /\ Len(acts') = Len(acts)
           /\ \A i \in 1 .. Len(acts) : acts'[i].iflag = acts[i].iflag
<1> DEFINE n == Len(acts)
<1>1. n \in Nat /\ n > 0 /\ acts \in Seq(Act) /\ acts[n] \in Act
  BY DEF EntryTypeOK
<1>2. acts' = [acts EXCEPT ![n] = [acts[n] EXCEPT !.at = x]]
  BY DEF SetTop
<1>3. [acts[n] EXCEPT !.at = x] \in Act
  BY <1>1 DEF Act
<1>4. acts' \in Seq(Act) /\ Len(acts') = n
  BY <1>1, <1>2, <1>3
<1>5. \A i \in 1 .. n : acts'[i] = IF i = n THEN [acts[n] EXCEPT !.at = x] ELSE acts[i]
  BY <1>1, <1>2
<1>6. \A i \in 1 .. n : /\ acts'[i].iflag = acts[i].iflag
                         /\ acts'[i].stack = acts[i].stack
                         /\ acts'[i].regs = acts[i].regs
  BY <1>1, <1>5 DEF Act
<1>7. ASSUME NEW i \in 1 .. n
      PROVE  Shape(acts'[i], StackOf(i)', RegsOf(i)')
  <2>1. CASE i = n
    BY <2>1, <1>1, <1>4, <1>5 DEF Top, StackOf, RegsOf
  <2>2. CASE i # n
    <3>1. acts'[i] = acts[i] /\ i + 1 \in 1 .. n
      BY <2>2, <1>1, <1>5
    <3>2. StackOf(i)' = StackOf(i) /\ RegsOf(i)' = RegsOf(i)
      BY <2>2, <3>1, <1>4, <1>6 DEF StackOf, RegsOf
    <3> QED BY <3>1, <3>2 DEF StackShape
  <2> QED BY <2>1, <2>2
<1> QED BY <1>4, <1>6, <1>7 DEF StackShape
(* What a concatenation holds, and where. *)
LEMMA Joined ==
    ASSUME NEW s \in Seq(Int), NEW t \in Seq(Int)
    PROVE  /\ s \o t \in Seq(Int)
           /\ Len(s \o t) = Len(s) + Len(t)
           /\ \A j \in 1 .. Len(s) : (s \o t)[j] = s[j]
           /\ \A j \in 1 .. Len(t) : (s \o t)[Len(s) + j] = t[j]
OBVIOUS

(* What is left of a stack after k words were popped. *)
LEMMA Dropped ==
    ASSUME NEW s \in Seq(Int), NEW k \in 0 .. Len(s)
    PROVE  /\ Drop(s, k) \in Seq(Int)
           /\ Len(Drop(s, k)) = Len(s) - k
           /\ \A j \in 1 .. Len(s) - k : Drop(s, k)[j] = s[j]
BY DEF Drop

(* The interrupts that are left when the innermost one is over. *)
LEMMA Shortened ==
    ASSUME NEW a \in Seq(Act), Len(a) > 0
    PROVE  LET b == SubSeq(a, 1, Len(a) - 1) IN
           /\ b \in Seq(Act) /\ Len(b) = Len(a) - 1
           /\ \A i \in 1 .. Len(a) - 1 : b[i] = a[i]
<1>1. ASSUME NEW k \in 0 .. Len(a)
      PROVE  /\ SubSeq(a, 1, k) \in Seq(Act) /\ Len(SubSeq(a, 1, k)) = k
             /\ \A i \in 1 .. k : SubSeq(a, 1, k)[i] = a[i]
  OBVIOUS
<1>2. Len(a) - 1 \in 0 .. Len(a)
  OBVIOUS
<1> QED BY <1>1, <1>2

(* The processor's frame is put on top of what was interrupted. *)
LEMMA DeliverStep ==
    ASSUME EntryTypeOK, StackShape,
           NEW v \in Int, NEW code \in Seq(Int), CodeFits(v, code), Deliver(v, code)
    PROVE  /\ EntryTypeOK' /\ StackShape'
           /\ Len(acts') = Len(acts) + 1
           /\ \A i \in 1 .. Len(acts) : acts'[i] = acts[i]
           /\ acts'[Len(acts) + 1].iflag = iflag
<1> DEFINE n == Len(acts)
           m == Len(stack)
           a == [vector |-> v, code |-> code, at |-> "stub",
                 stack |-> stack, regs |-> regs, eip |-> eip, iflag |-> iflag]
           frame == <<EFLAGS(iflag), CS, eip>>
<1>1. n \in Nat /\ acts \in Seq(Act) /\ a \in Act /\ m \in Nat
  BY DEF EntryTypeOK, Act
<1>2. acts' = Append(acts, a) /\ stack' = (stack \o frame) \o code /\ regs' = regs
  BY DEF Deliver
<1>3. acts' \in Seq(Act) /\ Len(acts') = n + 1 /\ acts'[n + 1] = a
      /\ \A i \in 1 .. n : acts'[i] = acts[i]
  BY <1>1, <1>2
<1>4. /\ frame \in Seq(Int) /\ Len(frame) = 3
      /\ frame[1] = EFLAGS(iflag) /\ frame[3] = eip
  BY DEF EntryTypeOK, EFLAGS, CS
<1>5. /\ stack \o frame \in Seq(Int) /\ Len(stack \o frame) = m + 3
      /\ \A j \in 1 .. m : (stack \o frame)[j] = stack[j]
      /\ (stack \o frame)[m + 1] = EFLAGS(iflag)
      /\ (stack \o frame)[m + 3] = eip
  BY <1>4, Joined DEF EntryTypeOK
<1>6. /\ stack' \in Seq(Int) /\ Len(stack') = m + 3 + Len(code)
      /\ \A j \in 1 .. m : stack'[j] = stack[j]
      /\ stack'[m + 1] = EFLAGS(iflag) /\ stack'[m + 3] = eip
      /\ \A j \in 1 .. Len(code) : stack'[m + 3 + j] = code[j]
  BY <1>1, <1>2, <1>5, Joined
<1>7. EntryTypeOK'
  <2>1. eip' \in Int
    BY DEF Deliver, STUB
  <2>2. iflag' \in BOOLEAN
    BY DEF Deliver
  <2>3. regs' \in [Registers -> Int]
    BY <1>2 DEF EntryTypeOK
  <2> QED BY <2>1, <2>2, <2>3, <1>3, <1>6 DEF EntryTypeOK
<1>8. Shape(a, stack', regs')
  <2>1. FrameOK(a, stack')
    BY <1>6 DEF FrameOK
  <2>2. code # <<>> => stack'[m + 4] = code[1]
    <3>1. code # <<>> => 1 \in 1 .. Len(code)
      OBVIOUS
    <3> QED BY <3>1, <1>1, <1>6
  <2> QED BY <2>1, <2>2, <1>2, <1>6 DEF Shape
<1>9. ASSUME NEW i \in 1 .. n + 1
      PROVE  Shape(acts'[i], StackOf(i)', RegsOf(i)')
  <2>1. CASE i = n + 1
    BY <2>1, <1>3, <1>8 DEF StackOf, RegsOf
  <2>2. CASE i = n
    <3>1. i \in 1 .. n /\ i # Len(acts')
      BY <2>2, <1>1, <1>3
    <3>2. StackOf(i)' = stack /\ RegsOf(i)' = regs
      BY <2>2, <3>1, <1>3 DEF StackOf, RegsOf
    <3>3. StackOf(i) = stack /\ RegsOf(i) = regs
      BY <2>2 DEF StackOf, RegsOf
    <3> QED BY <3>1, <3>2, <3>3, <1>3 DEF StackShape
  <2>3. CASE i < n
    <3>1. i \in 1 .. n /\ i + 1 \in 1 .. n /\ i # Len(acts') /\ i # n
      BY <2>3, <1>1, <1>3
    <3>2. StackOf(i)' = StackOf(i) /\ RegsOf(i)' = RegsOf(i)
      BY <3>1, <1>3 DEF StackOf, RegsOf
    <3> QED BY <3>1, <3>2, <1>3 DEF StackShape
  <2> QED BY <2>1, <2>2, <2>3, <1>1
<1>10. StackShape'
  BY <1>3, <1>9 DEF StackShape
<1> QED BY <1>3, <1>7, <1>10
(* pusha on any stack: the registers in their order. *)
LEMMA PushaIs ==
    ASSUME NEW s \in Seq(Int), regs \in [Registers -> Int]
    PROVE  /\ pusha(s) \in Seq(Int)
           /\ Len(pusha(s)) = Len(s) + 8
           /\ \A j \in 1 .. Len(s) : pusha(s)[j] = s[j]
           /\ \A k \in 1 .. 8 : Pushed[k] # "esp" => pusha(s)[Len(s) + k] = regs[Pushed[k]]
<1> DEFINE t == [i \in 1 .. 8 |-> IF Pushed[i] = "esp" THEN Len(s) ELSE regs[Pushed[i]]]
<1>1. ASSUME NEW i \in 1 .. 8 PROVE t[i] \in Int
  <2>1. Len(s) \in Int
    OBVIOUS
  <2>2. Pushed[i] # "esp" => regs[Pushed[i]] \in Int
    BY PushedPlaces
  <2>3. t[i] = IF Pushed[i] = "esp" THEN Len(s) ELSE regs[Pushed[i]]
    OBVIOUS
  <2> HIDE DEF t
  <2> QED BY <2>1, <2>2, <2>3
<1>2. t \in Seq(Int) /\ Len(t) = 8
  <2>1. t \in [1 .. 8 -> Int]
    BY <1>1
  <2>2. 8 \in Nat
    OBVIOUS
  <2> HIDE DEF t
  <2>3. t \in Seq(Int)
    BY <2>1, <2>2, SeqDef, Zenon
  <2> QED BY <2>1, <2>3
<1>3. \A k \in 1 .. 8 : Pushed[k] # "esp" => t[k] = regs[Pushed[k]]
  OBVIOUS
<1>4. pusha(s) = s \o t
  BY DEF pusha
<1> HIDE DEF t
<1>5. /\ s \o t \in Seq(Int) /\ Len(s \o t) = Len(s) + Len(t)
      /\ \A j \in 1 .. Len(s) : (s \o t)[j] = s[j]
      /\ \A j \in 1 .. Len(t) : (s \o t)[Len(s) + j] = t[j]
  BY <1>2, Joined
<1> QED BY <1>2, <1>3, <1>4, <1>5

(* The words of a stub: an error code where the processor pushed none. *)
LEMMA StubWordsAre ==
    ASSUME NEW v \in Int
    PROVE  /\ StubWords(v) \in Seq(Int)
           /\ v \in ISR_ERR => Len(StubWords(v)) = 1 /\ StubWords(v)[1] = v
           /\ v \notin ISR_ERR => /\ Len(StubWords(v)) = 2
                                  /\ StubWords(v)[1] = 0 /\ StubWords(v)[2] = v
BY DEF StubWords

(* The fields of an interrupt being served. *)
LEMMA ActFields ==
    ASSUME NEW a \in Act
    PROVE  /\ a.vector \in Int /\ a.code \in Seq(Int) /\ a.stack \in Seq(Int)
           /\ a.regs \in [Registers -> Int] /\ a.eip \in Int /\ a.iflag \in BOOLEAN
           /\ Len(a.stack) \in Nat /\ CodeOf(a) \in Int
<1>1. /\ a.vector \in Int /\ a.code \in Seq(Int) /\ a.stack \in Seq(Int)
      /\ a.regs \in [Registers -> Int] /\ a.eip \in Int /\ a.iflag \in BOOLEAN
  BY DEF Act
<1>2. Len(a.stack) \in Nat
  BY <1>1
<1>3. CodeOf(a) \in Int
  <2>1. CASE a.code = <<>>
    BY <2>1 DEF CodeOf
  <2>2. CASE a.code # <<>>
    BY <2>2, <1>1 DEF CodeOf
  <2> QED BY <2>1, <2>2
<1> QED BY <1>1, <1>2, <1>3

(* A change of how far an interrupt has come is no other change. *)
LEMMA AtChanged ==
    ASSUME NEW a \in Act, NEW x, NEW b, b = [a EXCEPT !.at = x]
    PROVE  /\ b.at = x /\ b.vector = a.vector /\ b.code = a.code /\ b.regs = a.regs
           /\ b.stack = a.stack /\ b.eip = a.eip /\ b.iflag = a.iflag
           /\ CodeOf(b) = CodeOf(a)
BY DEF Act, CodeOf

(* The stub completes the frame: the error code and the number lie above   *)
(* the three words of the processor, whoever pushed the code.              *)
LEMMA StubShape ==
    ASSUME NEW a \in Act, a.at = "stub", NEW s \in Seq(Int), NEW r, Shape(a, s, r),
           NEW p, p = s \o StubWords(a.vector)
    PROVE  /\ p \in Seq(Int) /\ Len(p) = Len(a.stack) + 5
           /\ \A j \in 1 .. Len(a.stack) + 3 : p[j] = s[j]
           /\ p[Len(a.stack) + 4] = CodeOf(a) /\ p[Len(a.stack) + 5] = a.vector
<1> DEFINE n == Len(a.stack)
<1>1. n \in Nat /\ a.vector \in Int /\ a.code \in Seq(Int)
  BY ActFields
<1>2. StubWords(a.vector) \in Seq(Int)
  BY <1>1, StubWordsAre
<1>3. /\ p \in Seq(Int) /\ Len(p) = Len(s) + Len(StubWords(a.vector))
      /\ \A j \in 1 .. Len(s) : p[j] = s[j]
      /\ \A j \in 1 .. Len(StubWords(a.vector)) : p[Len(s) + j] = StubWords(a.vector)[j]
  BY <1>2, Joined
<1>4. Len(s) = n + 3 + Len(a.code) /\ (a.code # <<>> => s[n + 4] = a.code[1])
  BY DEF Shape
<1> HIDE DEF n
<1>5. CASE a.vector \in ISR_ERR
  <2>1. Len(a.code) = 1
    BY <1>5 DEF Shape, CodeFits
  <2>2. a.code # <<>>
    <3> SUFFICES ASSUME a.code = <<>> PROVE Len(a.code) = 0
      BY <2>1
    <3> QED OBVIOUS
  <2>3. CodeOf(a) = a.code[1]
    BY <2>2 DEF CodeOf
  <2>4. Len(s) = n + 4 /\ s[n + 4] = CodeOf(a)
    BY <2>1, <2>2, <2>3, <1>1, <1>4
  <2>5. Len(StubWords(a.vector)) = 1 /\ StubWords(a.vector)[1] = a.vector
    BY <1>1, <1>5, StubWordsAre
  <2>6. Len(p) = n + 5 /\ \A j \in 1 .. n + 4 : p[j] = s[j]
    BY <2>4, <2>5, <1>1, <1>3
  <2>7. p[n + 5] = a.vector
    BY <2>4, <2>5, <1>1, <1>3
  <2> QED BY <2>4, <2>6, <2>7, <1>1, <1>3 DEF n
<1>6. CASE a.vector \notin ISR_ERR
  <2>1. a.code = <<>> /\ Len(a.code) = 0
    BY <1>6 DEF Shape, CodeFits
  <2>2. CodeOf(a) = 0
    BY <2>1 DEF CodeOf
  <2>3. Len(s) = n + 3
    BY <2>1, <1>1, <1>4
  <2>4. /\ Len(StubWords(a.vector)) = 2
        /\ StubWords(a.vector)[1] = 0 /\ StubWords(a.vector)[2] = a.vector
    BY <1>1, <1>6, StubWordsAre
  <2>5. Len(p) = n + 5 /\ \A j \in 1 .. n + 3 : p[j] = s[j]
    BY <2>3, <2>4, <1>1, <1>3
  <2>6. p[n + 4] = 0 /\ p[n + 5] = a.vector
    <3>1. p[Len(s) + 1] = 0 /\ p[Len(s) + 2] = a.vector
      BY <2>4, <1>3
    <3>2. Len(s) + 1 = n + 4 /\ Len(s) + 2 = n + 5
      BY <2>3, <1>1
    <3> QED BY <3>1, <3>2
  <2> QED BY <2>2, <2>5, <2>6, <1>3 DEF n
<1> QED BY <1>5, <1>6

(* isr_common_stub saves the registers above them and pushes both again. *)
LEMMA CallShape ==
    ASSUME NEW a \in Act, a.at = "stub", stack \in Seq(Int), regs \in [Registers -> Int],
           Shape(a, stack, regs), NEW r
    PROVE  LET s == pusha(stack \o StubWords(a.vector))
               t == s \o <<CodeOf(a), a.vector>> IN
           /\ Word(s, 8) = a.vector /\ Word(s, 9) = CodeOf(a)
           /\ t \in Seq(Int)
           /\ Shape([a EXCEPT !.at = "handler"], t, r)
<1> DEFINE n == Len(a.stack)
           b == [a EXCEPT !.at = "handler"]
           p == stack \o StubWords(a.vector)
           u == <<CodeOf(a), a.vector>>
           s == pusha(p)
           t == s \o u
<1>1. n \in Nat /\ a.vector \in Int /\ CodeOf(a) \in Int
  BY ActFields
<1>2. /\ p \in Seq(Int) /\ Len(p) = n + 5
      /\ \A j \in 1 .. n + 3 : p[j] = stack[j]
      /\ p[n + 4] = CodeOf(a) /\ p[n + 5] = a.vector
  BY StubShape
<1>3. u \in Seq(Int) /\ Len(u) = 2 /\ u[1] = CodeOf(a) /\ u[2] = a.vector
  BY <1>1
<1>5. /\ b.at = "handler" /\ b.vector = a.vector /\ b.code = a.code /\ b.regs = a.regs
      /\ b.stack = a.stack /\ b.eip = a.eip /\ b.iflag = a.iflag
      /\ CodeOf(b) = CodeOf(a)
  BY AtChanged
<1> HIDE DEF p, u, b, n
<1>6. /\ s \in Seq(Int) /\ Len(s) = n + 13
      /\ \A j \in 1 .. n + 5 : s[j] = p[j]
      /\ \A k \in 1 .. 8 : Pushed[k] # "esp" => s[n + 5 + k] = regs[Pushed[k]]
  <2>1. /\ s \in Seq(Int) /\ Len(s) = Len(p) + 8
        /\ \A j \in 1 .. Len(p) : s[j] = p[j]
        /\ \A k \in 1 .. 8 : Pushed[k] # "esp" => s[Len(p) + k] = regs[Pushed[k]]
    BY <1>2, PushaIs
  <2> HIDE DEF s
  <2> QED BY <2>1, <1>1, <1>2
<1>7. s \in Seq(Int)
  BY <1>6
<1> HIDE DEF s
<1>8. Word(s, 8) = a.vector /\ Word(s, 9) = CodeOf(a)
  <2>1. Word(s, 8) = s[n + 5] /\ Word(s, 9) = s[n + 4]
    BY <1>1, <1>6 DEF Word
  <2>2. n + 5 \in 1 .. n + 5 /\ n + 4 \in 1 .. n + 5
    BY <1>1
  <2>3. s[n + 5] = p[n + 5] /\ s[n + 4] = p[n + 4]
    BY <2>2, <1>6
  <2> QED BY <2>1, <2>3, <1>2
<1>9. /\ t \in Seq(Int) /\ Len(t) = n + 15
      /\ \A j \in 1 .. n + 13 : t[j] = s[j]
      /\ t[n + 14] = CodeOf(a) /\ t[n + 15] = a.vector
  <2>1. /\ t \in Seq(Int) /\ Len(t) = Len(s) + Len(u)
        /\ \A j \in 1 .. Len(s) : t[j] = s[j]
        /\ \A j \in 1 .. Len(u) : t[Len(s) + j] = u[j]
    BY <1>7, <1>3, Joined
  <2> HIDE DEF t
  <2>2. t[Len(s) + 1] = CodeOf(a) /\ t[Len(s) + 2] = a.vector
    BY <2>1, <1>3
  <2> QED BY <2>1, <2>2, <1>1, <1>3, <1>6
<1> HIDE DEF t
<1>10. FrameOK(b, t)
  <2>1. \A j \in 1 .. n + 3 : t[j] = stack[j]
    BY <1>1, <1>2, <1>6, <1>9
  <2>2. FrameOK(a, stack)
    BY DEF Shape
  <2>3. /\ \A j \in 1 .. n : stack[j] = a.stack[j]
        /\ stack[n + 1] = EFLAGS(a.iflag) /\ stack[n + 3] = a.eip
    BY <2>2 DEF FrameOK, n
  <2>4. /\ n + 1 \in 1 .. n + 3 /\ n + 3 \in 1 .. n + 3
        /\ \A j \in 1 .. n : j \in 1 .. n + 3
    BY <1>1
  <2>5. /\ \A j \in 1 .. n : t[j] = a.stack[j]
        /\ t[n + 1] = EFLAGS(a.iflag) /\ t[n + 3] = a.eip
    BY <2>1, <2>3, <2>4
  <2> QED BY <2>5, <1>5 DEF FrameOK, n
<1>11. SavedOK(b, t)
  <2>1. regs = a.regs
    BY DEF Shape
  <2>2. \A k \in 1 .. 8 : Pushed[k] # "esp" => t[n + 5 + k] = a.regs[Pushed[k]]
    <3> SUFFICES ASSUME NEW k \in 1 .. 8, Pushed[k] # "esp"
                 PROVE  t[n + 5 + k] = a.regs[Pushed[k]]
      OBVIOUS
    <3>1. n + 5 + k \in 1 .. n + 13
      BY <1>1
    <3> QED BY <3>1, <2>1, <1>6, <1>9
  <2> QED BY <2>2, <1>9, <1>5 DEF SavedOK, n
<1>12. CodeFits(b.vector, b.code)
  BY <1>5 DEF Shape
<1>13. Shape(b, t, r)
  BY <1>9, <1>5, <1>10, <1>11, <1>12 DEF Shape, n
<1> QED BY <1>8, <1>9, <1>13 DEF t, s, u, b, p

(* The step into isr_handler. *)
LEMMA CallStep ==
    ASSUME EntryTypeOK, StackShape, CallHandler
    PROVE  /\ EntryTypeOK' /\ StackShape'
           /\ Len(acts') = Len(acts)
           /\ \A i \in 1 .. Len(acts) : acts'[i].iflag = acts[i].iflag
<1>1. acts # <<>> /\ Top.at = "stub" /\ SetTop("handler")
  BY DEF CallHandler
<1>2. Top \in Act /\ Shape(Top, stack, regs)
  BY <1>1, TopIs
<1>3. stack \in Seq(Int) /\ regs \in [Registers -> Int]
  BY DEF EntryTypeOK
<1> DEFINE s == pusha(stack \o StubWords(Top.vector))
<1>4. /\ Word(s, 8) = Top.vector /\ Word(s, 9) = CodeOf(Top)
      /\ s \o <<CodeOf(Top), Top.vector>> \in Seq(Int)
      /\ Shape([Top EXCEPT !.at = "handler"], s \o <<CodeOf(Top), Top.vector>>, regs')
  BY <1>1, <1>2, <1>3, CallShape
<1>5. stack' = s \o <<CodeOf(Top), Top.vector>>
  BY <1>4 DEF CallHandler
<1>6. regs' \in [Registers -> Int]
  <2>1. CodeOf(Top) \in Int /\ Top.vector \in Int
    BY <1>2, ActFields
  <2>2. regs' = [regs EXCEPT !.eax = Top.vector, !.ebx = CodeOf(Top)]
    BY <1>4 DEF CallHandler
  <2> QED BY <2>1, <2>2, <1>3
<1>7. eip' \in Int /\ iflag' \in BOOLEAN
  BY DEF CallHandler, EntryTypeOK
<1>8. Shape([Top EXCEPT !.at = "handler"], stack', regs')
  BY <1>4, <1>5
<1> HIDE DEF s
<1>9. stack' \in Seq(Int)
  BY <1>4, <1>5
<1>10. "handler" \in {"stub", "handler", "leave", "halted"}
  OBVIOUS
<1>11. /\ acts' \in Seq(Act) /\ StackShape' /\ Len(acts') = Len(acts)
       /\ \A i \in 1 .. Len(acts) : acts'[i].iflag = acts[i].iflag
  BY <1>1, <1>8, <1>10, TopStep
<1> QED BY <1>6, <1>7, <1>9, <1>11 DEF EntryTypeOK
(* isr_handler returns with its arguments overwritten; what lies below     *)
(* them is untouched.                                                      *)
LEMMA ReturnShape ==
    ASSUME NEW a \in Act, a.at = "handler", NEW s \in Seq(Int), NEW r, NEW q, Shape(a, s, r)
    PROVE  LET t == Drop(s, 2) \o <<JUNK, JUNK>> IN
           t \in Seq(Int) /\ Shape([a EXCEPT !.at = "leave"], t, q)
<1> DEFINE n == Len(a.stack)
           b == [a EXCEPT !.at = "leave"]
           d == Drop(s, 2)
           u == <<JUNK, JUNK>>
           t == d \o u
<1>1. n \in Nat
  BY ActFields
<1>2. FrameOK(a, s) /\ SavedOK(a, s) /\ CodeFits(a.vector, a.code)
  BY DEF Shape
<1>3. Len(s) = n + 15
  BY <1>2 DEF SavedOK
<1>4. u \in Seq(Int) /\ Len(u) = 2
  BY DEF JUNK
<1>5. /\ b.at = "leave" /\ b.vector = a.vector /\ b.code = a.code /\ b.regs = a.regs
      /\ b.stack = a.stack /\ b.eip = a.eip /\ b.iflag = a.iflag
  BY AtChanged
<1> HIDE DEF u, b
<1>6. d \in Seq(Int) /\ Len(d) = n + 13 /\ \A j \in 1 .. n + 13 : d[j] = s[j]
  <2>1. 2 \in 0 .. Len(s) /\ Len(s) - 2 = n + 13
    BY <1>1, <1>3
  <2> QED BY <2>1, Dropped
<1> HIDE DEF d
<1>7. t \in Seq(Int) /\ Len(t) = n + 15 /\ \A j \in 1 .. n + 13 : t[j] = s[j]
  <2>1. /\ t \in Seq(Int) /\ Len(t) = Len(d) + Len(u)
        /\ \A j \in 1 .. Len(d) : t[j] = d[j]
    BY <1>4, <1>6, Joined
  <2> HIDE DEF t
  <2> QED BY <2>1, <1>1, <1>4, <1>6
<1> HIDE DEF t
<1>8. FrameOK(b, t)
  <2>1. /\ n + 1 \in 1 .. n + 13 /\ n + 3 \in 1 .. n + 13
        /\ \A j \in 1 .. n : j \in 1 .. n + 13
    BY <1>1
  <2>2. /\ \A j \in 1 .. n : s[j] = a.stack[j]
        /\ s[n + 1] = EFLAGS(a.iflag) /\ s[n + 3] = a.eip
    BY <1>2 DEF FrameOK
  <2>3. /\ \A j \in 1 .. n : t[j] = a.stack[j]
        /\ t[n + 1] = EFLAGS(a.iflag) /\ t[n + 3] = a.eip
    BY <2>1, <2>2, <1>7
  <2> QED BY <2>3, <1>5 DEF FrameOK
<1>9. SavedOK(b, t)
  <2>1. ASSUME NEW k \in 1 .. 8, Pushed[k] # "esp"
        PROVE  t[n + 5 + k] = a.regs[Pushed[k]]
    <3>1. n + 5 + k \in 1 .. n + 13
      BY <1>1
    <3>2. s[n + 5 + k] = a.regs[Pushed[k]]
      BY <2>1, <1>2 DEF SavedOK
    <3> QED BY <3>1, <3>2, <1>7
  <2> QED BY <2>1, <1>5, <1>7 DEF SavedOK
<1>10. Shape(b, t, q)
  BY <1>2, <1>5, <1>8, <1>9 DEF Shape
<1> QED BY <1>7, <1>10 DEF t, d, u, b

(* The step out of isr_handler. *)
LEMMA ReturnStep ==
    ASSUME EntryTypeOK, StackShape, InHandler, HandlerReturns
    PROVE  /\ EntryTypeOK' /\ StackShape'
           /\ Len(acts') = Len(acts)
           /\ \A i \in 1 .. Len(acts) : acts'[i].iflag = acts[i].iflag
<1>1. acts # <<>> /\ Top.at = "handler" /\ SetTop("leave")
  BY DEF InHandler, HandlerReturns
<1>2. Top \in Act /\ Shape(Top, stack, regs)
  BY <1>1, TopIs
<1>3. stack \in Seq(Int) /\ regs \in [Registers -> Int]
  BY DEF EntryTypeOK
<1>4. stack' = Drop(stack, 2) \o <<JUNK, JUNK>>
  BY DEF HandlerReturns
<1>5. stack' \in Seq(Int) /\ Shape([Top EXCEPT !.at = "leave"], stack', regs')
  BY <1>1, <1>2, <1>3, <1>4, ReturnShape
<1>6. regs' \in [Registers -> Int]
  <2>1. regs' = [[[regs EXCEPT !.eax = JUNK] EXCEPT !.ecx = JUNK] EXCEPT !.edx = JUNK]
    BY DEF HandlerReturns
  <2>2. JUNK \in Int
    BY DEF JUNK
  <2>3. [regs EXCEPT !.eax = JUNK] \in [Registers -> Int]
    BY <2>2, <1>3
  <2>4. [[regs EXCEPT !.eax = JUNK] EXCEPT !.ecx = JUNK] \in [Registers -> Int]
    BY <2>2, <2>3
  <2> QED BY <2>1, <2>2, <2>4
<1>7. eip' \in Int /\ iflag' \in BOOLEAN
  BY DEF HandlerReturns, EntryTypeOK
<1>8. "leave" \in {"stub", "handler", "leave", "halted"}
  OBVIOUS
<1>9. /\ acts' \in Seq(Act) /\ StackShape' /\ Len(acts') = Len(acts)
      /\ \A i \in 1 .. Len(acts) : acts'[i].iflag = acts[i].iflag
  BY <1>1, <1>5, <1>8, TopStep
<1> QED BY <1>5, <1>6, <1>7, <1>9 DEF EntryTypeOK

(* popa, the two words that are dropped, and iretd give back everything    *)
(* that the interrupt found.                                               *)
LEMMA LeaveRestores ==
    ASSUME NEW a \in Act, a.at = "leave", NEW s \in Seq(Int), NEW r, Shape(a, s, r)
    PROVE  LET saved == Drop(s, 2)
               frame == DropCode(Drop(saved, 8)) IN
           /\ popa(saved) = a.regs
           /\ Word(frame, 0) = a.eip
           /\ (Word(frame, 2) = EFLAGS(TRUE)) = a.iflag
           /\ Drop(frame, 3) = a.stack
<1> DEFINE n == Len(a.stack)
           saved == Drop(s, 2)
           below == Drop(saved, 8)
           frame == DropCode(below)
           rest == Drop(frame, 3)
<1>1. n \in Nat /\ a.stack \in Seq(Int) /\ a.regs \in [Registers -> Int] /\ a.iflag \in BOOLEAN
  BY ActFields
<1>2. FrameOK(a, s) /\ SavedOK(a, s)
  BY DEF Shape
<1>3. /\ \A j \in 1 .. n : s[j] = a.stack[j]
      /\ s[n + 1] = EFLAGS(a.iflag) /\ s[n + 3] = a.eip
  BY <1>2 DEF FrameOK
<1>4. /\ Len(s) = n + 15
      /\ \A k \in 1 .. 8 : Pushed[k] # "esp" => s[n + 5 + k] = a.regs[Pushed[k]]
  BY <1>2 DEF SavedOK
<1> HIDE DEF n
<1>5. saved \in Seq(Int) /\ Len(saved) = n + 13 /\ \A j \in 1 .. n + 13 : saved[j] = s[j]
  <2>1. 2 \in 0 .. Len(s) /\ Len(s) - 2 = n + 13
    BY <1>1, <1>4
  <2> QED BY <2>1, Dropped
<1> HIDE DEF saved
<1>6. below \in Seq(Int) /\ Len(below) = n + 5 /\ \A j \in 1 .. n + 5 : below[j] = s[j]
  <2>1. 8 \in 0 .. Len(saved) /\ Len(saved) - 8 = n + 5
    BY <1>1, <1>5
  <2>2. below \in Seq(Int) /\ Len(below) = n + 5 /\ \A j \in 1 .. n + 5 : below[j] = saved[j]
    BY <2>1, <1>5, Dropped
  <2> HIDE DEF below
  <2> QED BY <2>2, <1>1, <1>5
<1> HIDE DEF below
<1>7. frame \in Seq(Int) /\ Len(frame) = n + 3 /\ \A j \in 1 .. n + 3 : frame[j] = s[j]
  <2>1. 2 \in 0 .. Len(below) /\ Len(below) - 2 = n + 3
    BY <1>1, <1>6
  <2>2. frame \in Seq(Int) /\ Len(frame) = n + 3 /\ \A j \in 1 .. n + 3 : frame[j] = below[j]
    BY <2>1, <1>6, Dropped DEF DropCode
  <2> HIDE DEF frame
  <2> QED BY <2>2, <1>1, <1>6
<1> HIDE DEF frame
<1>8. rest \in Seq(Int) /\ Len(rest) = n /\ \A j \in 1 .. n : rest[j] = s[j]
  <2>1. 3 \in 0 .. Len(frame) /\ Len(frame) - 3 = n
    BY <1>1, <1>7
  <2>2. rest \in Seq(Int) /\ Len(rest) = n /\ \A j \in 1 .. n : rest[j] = frame[j]
    BY <2>1, <1>7, Dropped
  <2> HIDE DEF rest
  <2> QED BY <2>2, <1>1, <1>7
<1> HIDE DEF rest
<1>9. rest = a.stack
  <2>1. Len(a.stack) = Len(rest) /\ \A j \in 1 .. Len(rest) : rest[j] = a.stack[j]
    BY <1>3, <1>8 DEF n
  <2> QED BY <2>1, <1>1, <1>8, SeqEqual
<1>10. Word(frame, 0) = a.eip /\ Word(frame, 2) = EFLAGS(a.iflag)
  <2>1. Word(frame, 0) = frame[n + 3] /\ Word(frame, 2) = frame[n + 1]
    BY <1>1, <1>7 DEF Word
  <2>2. n + 3 \in 1 .. n + 3 /\ n + 1 \in 1 .. n + 3
    BY <1>1
  <2> QED BY <2>1, <2>2, <1>3, <1>7
<1>11. (Word(frame, 2) = EFLAGS(TRUE)) = a.iflag
  <2>1. EFLAGS(TRUE) # EFLAGS(FALSE)
    BY DEF EFLAGS
  <2>2. CASE a.iflag = TRUE
    BY <2>2, <1>10
  <2>3. CASE a.iflag = FALSE
    BY <2>1, <2>3, <1>10
  <2> QED BY <2>2, <2>3, <1>1
<1>12. popa(saved) = a.regs
  <2>1. ASSUME NEW x \in Registers
        PROVE  Word(saved, 8 - CHOOSE i \in 1 .. 8 : Pushed[i] = x) = a.regs[x]
    <3> DEFINE k == CHOOSE i \in 1 .. 8 : Pushed[i] = x
    <3>1. k \in 1 .. 8 /\ Pushed[k] = x /\ Pushed[k] # "esp"
      BY PlaceOf
    <3> HIDE DEF k
    <3>2. Word(saved, 8 - k) = saved[n + 5 + k] /\ n + 5 + k \in 1 .. n + 13
      BY <3>1, <1>1, <1>5 DEF Word
    <3>3. saved[n + 5 + k] = a.regs[x]
      BY <3>1, <3>2, <1>4, <1>5
    <3> QED BY <3>2, <3>3 DEF k
  <2> QED BY <2>1, <1>1 DEF popa
<1> QED BY <1>9, <1>10, <1>11, <1>12 DEF rest, frame, below, saved

(* The step back to what was interrupted. *)
LEMMA LeaveStep ==
    ASSUME EntryTypeOK, StackShape, Leave
    PROVE  /\ EntryTypeOK' /\ StackShape'
           /\ acts # <<>> /\ Len(acts') = Len(acts) - 1
           /\ \A i \in 1 .. Len(acts') : acts'[i] = acts[i]
           /\ regs' = Top.regs /\ stack' = Top.stack
           /\ eip' = Top.eip /\ iflag' = Top.iflag
<1> DEFINE n == Len(acts)
<1>1. acts # <<>> /\ Top.at = "leave"
  BY DEF Leave
<1>2. Top \in Act /\ Shape(Top, stack, regs) /\ stack \in Seq(Int)
  BY <1>1, TopIs DEF EntryTypeOK
<1>3. regs' = Top.regs /\ stack' = Top.stack /\ eip' = Top.eip /\ iflag' = Top.iflag
  BY <1>1, <1>2, LeaveRestores DEF Leave
<1>4. n \in Nat /\ n > 0 /\ acts \in Seq(Act)
  BY <1>1 DEF EntryTypeOK
<1>5. acts' \in Seq(Act) /\ Len(acts') = n - 1 /\ \A i \in 1 .. n - 1 : acts'[i] = acts[i]
  <2>1. acts' = SubSeq(acts, 1, n - 1)
    BY DEF Leave
  <2> QED BY <2>1, <1>4, Shortened
<1>6. EntryTypeOK'
  BY <1>2, <1>3, <1>5, ActFields DEF EntryTypeOK
<1>7. ASSUME NEW i \in 1 .. n - 1
      PROVE  Shape(acts'[i], StackOf(i)', RegsOf(i)')
  <2>1. i \in 1 .. n /\ i # n /\ acts'[i] = acts[i]
    BY <1>4, <1>5
  <2>2. StackOf(i) = acts[i + 1].stack /\ RegsOf(i) = acts[i + 1].regs
    BY <2>1 DEF StackOf, RegsOf
  <2>3. CASE i = n - 1
    <3>1. acts[i + 1] = Top
      BY <2>3, <1>4 DEF Top
    <3>2. StackOf(i)' = stack' /\ RegsOf(i)' = regs'
      BY <2>3, <1>5 DEF StackOf, RegsOf
    <3> QED BY <3>1, <3>2, <2>1, <2>2, <1>3 DEF StackShape
  <2>4. CASE i # n - 1
    <3>1. i + 1 \in 1 .. n - 1 /\ i # Len(acts')
      BY <2>4, <1>4, <1>5
    <3>2. StackOf(i)' = StackOf(i) /\ RegsOf(i)' = RegsOf(i)
      BY <3>1, <2>2, <1>5 DEF StackOf, RegsOf
    <3> QED BY <3>2, <2>1 DEF StackShape
  <2> QED BY <2>3, <2>4
<1>8. StackShape'
  BY <1>5, <1>7 DEF StackShape
<1> QED BY <1>1, <1>3, <1>5, <1>6, <1>8
(* A panic keeps the stack, and the interrupt that panics stays.  IF is    *)
(* cleared.                                                                *)
LEMMA PanicStep ==
    ASSUME EntryTypeOK, StackShape, Panic
    PROVE  /\ EntryTypeOK' /\ StackShape' /\ iflag' = FALSE
           /\ Len(acts') = Len(acts)
           /\ \A i \in 1 .. Len(acts) : acts'[i].iflag = acts[i].iflag
<1>1. /\ stack' = stack /\ regs' = regs /\ eip' = eip /\ iflag' = FALSE
      /\ stack' \in Seq(Int) /\ regs' \in [Registers -> Int] /\ eip' \in Int /\ iflag' \in BOOLEAN
  BY DEF Panic, EntryTypeOK
<1>2. CASE acts = <<>>
  <2>1. acts' = acts
    BY <1>2 DEF Panic, Halted
  <2>2. Len(acts) = 0
    BY <1>2
  <2>3. StackShape'
    BY <2>1, <2>2 DEF StackShape
  <2> QED BY <2>1, <2>3, <1>1 DEF EntryTypeOK
<1>3. CASE acts # <<>>
  <2>1. SetTop("halted")
    BY <1>3 DEF Panic, Halted
  <2>2. Top \in Act /\ Shape(Top, stack, regs)
    BY <1>3, TopIs
  <2> DEFINE b == [Top EXCEPT !.at = "halted"]
  <2>3. /\ b.at = "halted" /\ b.vector = Top.vector /\ b.code = Top.code
        /\ b.stack = Top.stack /\ b.eip = Top.eip /\ b.iflag = Top.iflag
    BY <2>2, AtChanged
  <2> HIDE DEF b
  <2>4. Shape(b, stack', regs')
    BY <2>2, <2>3, <1>1 DEF Shape, FrameOK
  <2>5. "halted" \in {"stub", "handler", "leave", "halted"}
    OBVIOUS
  <2>6. /\ acts' \in Seq(Act) /\ StackShape' /\ Len(acts') = Len(acts)
        /\ \A i \in 1 .. Len(acts) : acts'[i].iflag = acts[i].iflag
    BY <2>1, <2>4, <2>5, <1>3, TopStep DEF b
  <2> QED BY <2>6, <1>1 DEF EntryTypeOK
<1> QED BY <1>2, <1>3

(* Other steps of the main program do not touch the entry. *)
LEMMA EntryUnchanged ==
    ASSUME EntryTypeOK, StackShape, UNCHANGED <<stack, regs, eip, acts>>, iflag' \in BOOLEAN
    PROVE  EntryTypeOK' /\ StackShape'
<1>1. stack' = stack /\ regs' = regs /\ eip' = eip /\ acts' = acts
  OBVIOUS
<1>2. \A i : StackOf(i)' = StackOf(i) /\ RegsOf(i)' = RegsOf(i)
  BY <1>1 DEF StackOf, RegsOf
<1> QED BY <1>1, <1>2 DEF EntryTypeOK, StackShape
-----------------------------------------------------------------------------
(* The invariant of the boot. *)

(* The stages by their numbers. *)
LEMMA StageNumbers ==
    ASSUME stage \in 1 .. Len(Stages)
    PROVE  /\ Len(Stages) = 12
           /\ Stages[stage] = "pic" => stage = 5
           /\ Stages[stage] = "sti" => stage = 6
           /\ Stages[stage] # "shell" => stage + 1 \in 1 .. 12
           /\ Stages[stage] \notin {"pic", "sti"} /\ stage + 1 > 5 => stage > 5
BY DEF Stages

(* The processor takes an interrupt or resets. *)
LEMMA InterruptStep ==
    ASSUME BootInv, NEW v \in Int, NEW code \in Seq(Int), CodeFits(v, code),
           Interrupt(v, code), remapped' = remapped, stage' = stage
    PROVE  BootInv'
<1>1. EntryTypeOK /\ StackShape /\ LinesRemapped
  BY DEF BootInv
<1>2. CASE Deliver(v, code)
  <2>1. /\ EntryTypeOK' /\ StackShape' /\ Len(acts') = Len(acts) + 1
        /\ \A i \in 1 .. Len(acts) : acts'[i] = acts[i]
        /\ acts'[Len(acts) + 1].iflag = iflag
    BY <1>1, <1>2, DeliverStep
  <2>2. iflag' = FALSE
    BY <1>2 DEF Deliver
  <2>3. Len(acts) \in Nat
    BY <1>1 DEF EntryTypeOK
  <2>4. ASSUME NEW i \in 1 .. Len(acts'), acts'[i].iflag PROVE remapped
    <3>1. CASE i = Len(acts) + 1
      BY <3>1, <2>1, <2>4, <1>1 DEF LinesRemapped
    <3>2. CASE i # Len(acts) + 1
      <4>1. i \in 1 .. Len(acts)
        BY <3>2, <2>1, <2>3
      <4> QED BY <4>1, <2>1, <2>4, <1>1 DEF LinesRemapped
    <3> QED BY <3>1, <3>2
  <2> QED BY <2>1, <2>2, <2>4, <1>1 DEF BootInv, LinesRemapped
<1>3. CASE UNCHANGED entry_vars
  <2>1. UNCHANGED <<stack, regs, eip, iflag, acts>>
    BY <1>3 DEF entry_vars
  <2>2. EntryTypeOK' /\ StackShape'
    BY <2>1, <1>1, EntryUnchanged DEF EntryTypeOK
  <2> QED BY <2>1, <2>2, <1>1 DEF BootInv, LinesRemapped
<1> QED BY <1>2, <1>3 DEF Interrupt
(* A step of a handler that ends no interrupt. *)
LEMMA HandlerStep ==
    ASSUME BootInv, EntryTypeOK', StackShape', Len(acts') = Len(acts),
           \A i \in 1 .. Len(acts) : acts'[i].iflag = acts[i].iflag,
           iflag' = iflag \/ iflag' = FALSE, remapped' = remapped, stage' = stage
    PROVE  BootInv'
BY DEF BootInv, LinesRemapped

(* A panic, wherever it comes from. *)
LEMMA PanicKeeps ==
    ASSUME BootInv, Panic, remapped' = remapped, stage' = stage
    PROVE  BootInv'
BY PanicStep, HandlerStep DEF BootInv

(* isr_handler returns. *)
LEMMA ReturnKeeps ==
    ASSUME BootInv, InHandler, HandlerReturns, remapped' = remapped, stage' = stage
    PROVE  BootInv'
<1>1. iflag' = iflag
  BY DEF HandlerReturns
<1> QED BY <1>1, ReturnStep, HandlerStep DEF BootInv

(* A stage of the boot that does not concern the interrupts. *)
LEMMA StageKeeps ==
    ASSUME BootInv, UNCHANGED entry_vars, remapped' = remapped,
           \/ stage' = stage
           \/ stage' = stage + 1 /\ Stages[stage] \notin {"pic", "sti", "shell"}
    PROVE  BootInv'
<1>1. UNCHANGED <<stack, regs, eip, iflag, acts>>
  BY DEF entry_vars
<1>2. EntryTypeOK /\ StackShape /\ LinesRemapped
  BY DEF BootInv
<1>3. EntryTypeOK' /\ StackShape'
  BY <1>1, <1>2, EntryUnchanged DEF EntryTypeOK
<1>4. stage \in 1 .. Len(Stages)
  BY <1>2 DEF LinesRemapped
<1>5. stage' \in 1 .. Len(Stages) /\ (stage' > 5 => stage > 5)
  BY <1>4, StageNumbers
<1> QED BY <1>1, <1>2, <1>3, <1>5 DEF BootInv, LinesRemapped

\* The stubs know the exceptions that push an error code.
CodesAgree == \A v \in Faults \cup {PAGE_FAULT} : v \in WithCode <=> v \in ISR_ERR

(* An exception of the main program. *)
LEMMA RaisesKeeps ==
    ASSUME BootInv, CodesAgree, NEW v \in Faults \cup {PAGE_FAULT}, NEW addr, Raises(v, addr)
    PROVE  BootInv'
<1> DEFINE code == IF v \in WithCode THEN <<2>> ELSE <<>>
<1>1. v \in Int
  BY BootAssumption DEF PAGE_FAULT
<1>2. code \in Seq(Int) /\ CodeFits(v, code)
  <2>1. v \in WithCode <=> v \in ISR_ERR
    BY DEF CodesAgree
  <2>2. <<2>> \in Seq(Int) /\ Len(<<2>>) = 1 /\ <<>> \in Seq(Int)
    OBVIOUS
  <2> QED BY <2>1, <2>2 DEF CodeFits
<1>3. Interrupt(v, code) /\ remapped' = remapped /\ stage' = stage
  BY DEF Raises, table_vars
<1> HIDE DEF code
<1> QED BY <1>1, <1>2, <1>3, InterruptStep

(* BootInv is inductive: the main program. *)
LEMMA ProgramKeeps ==
    ASSUME BootInv, CodesAgree, Program
    PROVE  BootInv'
<1>1. CASE BootPmm \/ gdt_init \/ tss_init \/ idt_init \/ paging_init \/ RootFs
  BY <1>1, StageKeeps DEF BootPmm, gdt_init, tss_init, idt_init, paging_init, RootFs,
                          At, Done, table_vars
<1>2. CASE BootPmmFails \/ ShellPanics
  BY <1>2, PanicKeeps DEF BootPmmFails, ShellPanics, table_vars
<1>3. CASE Animate
  BY <1>3, StageKeeps DEF Animate, At, Done, table_vars
<1>4. CASE Sleep
  BY <1>4, StageKeeps DEF Sleep, At, Done, table_vars
<1>5. CASE Wait \/ Shell
  BY <1>5, StageKeeps DEF Wait, Shell, table_vars
<1>6. CASE RootFsFaults
  <2>1. PAGE_FAULT \in Faults \cup {PAGE_FAULT}
    OBVIOUS
  <2>2. CASE Raises(PAGE_FAULT, "heap")
    BY <2>1, <2>2, RaisesKeeps
  <2>3. CASE UNCHANGED <<entry_vars, table_vars, stage>>
    BY <2>3, StageKeeps DEF table_vars
  <2> QED BY <1>6, <2>2, <2>3 DEF RootFsFaults
<1>7. CASE ShellFaults
  <2>1. PICK v \in Faults \cup {PAGE_FAULT}, addr \in {"heap", "other", cr2} : Raises(v, addr)
    BY <1>7 DEF ShellFaults
  <2> QED BY <2>1, RaisesKeeps
<1>8. CASE pic_remap
  <2>1. UNCHANGED entry_vars /\ remapped' = TRUE /\ stage' = stage + 1 /\ Stages[stage] = "pic"
    BY <1>8 DEF pic_remap, At, Done
  <2>2. UNCHANGED <<stack, regs, eip, iflag, acts>>
    BY <2>1 DEF entry_vars
  <2>3. EntryTypeOK' /\ StackShape'
    BY <2>2, EntryUnchanged DEF BootInv, EntryTypeOK
  <2>4. stage \in 1 .. Len(Stages)
    BY DEF BootInv, LinesRemapped
  <2>5. stage' \in 1 .. Len(Stages)
    BY <2>1, <2>4, StageNumbers
  <2> QED BY <2>1, <2>3, <2>5 DEF BootInv, LinesRemapped
<1>9. CASE sti
  <2>1. /\ UNCHANGED <<stack, regs, eip, acts>> /\ iflag' = TRUE /\ remapped' = remapped
        /\ stage' = stage + 1 /\ Stages[stage] = "sti"
    BY <1>9 DEF sti, At, Done, table_vars
  <2>2. EntryTypeOK' /\ StackShape'
    BY <2>1, EntryUnchanged DEF BootInv
  <2>3. stage \in 1 .. Len(Stages)
    BY DEF BootInv, LinesRemapped
  <2>4. stage' \in 1 .. Len(Stages) /\ stage > 5
    BY <2>1, <2>3, StageNumbers
  <2> QED BY <2>1, <2>2, <2>4 DEF BootInv, LinesRemapped
<1> QED BY <1>1, <1>2, <1>3, <1>4, <1>5, <1>6, <1>7, <1>8, <1>9 DEF Program

(* BootInv is inductive: the handlers. *)
LEMMA ServiceKeeps ==
    ASSUME BootInv, Service
    PROVE  BootInv'
<1>1. CASE HandlePageFault \/ HandleTimer \/ HandleOther
  BY <1>1, ReturnKeeps DEF HandlePageFault, HandleTimer, HandleOther, Handler, table_vars
<1>2. CASE OutOfMemory \/ HandleException
  BY <1>2, PanicKeeps DEF OutOfMemory, HandleException, Handler, table_vars
<1>3. CASE HandlerFaults
  <2>1. PICK c \in {0, 2} :
            Interrupt(PAGE_FAULT, <<c>>) /\ remapped' = remapped /\ stage' = stage
    BY <1>3 DEF HandlerFaults, table_vars
  <2>2. PAGE_FAULT \in Int /\ <<c>> \in Seq(Int) /\ CodeFits(PAGE_FAULT, <<c>>)
    BY DEF PAGE_FAULT, CodeFits, ISR_ERR
  <2> QED BY <2>1, <2>2, InterruptStep
<1>4. CASE Stub /\ CallHandler
  <2>1. remapped' = remapped /\ stage' = stage /\ iflag' = iflag
    BY <1>4 DEF Stub, table_vars, CallHandler
  <2> QED BY <1>4, <2>1, CallStep, HandlerStep DEF BootInv
<1>5. CASE Stub /\ Leave
  <2>1. remapped' = remapped /\ stage' = stage
    BY <1>5 DEF Stub, table_vars
  <2>2. EntryTypeOK /\ StackShape /\ LinesRemapped
    BY DEF BootInv
  <2>3. /\ EntryTypeOK' /\ StackShape' /\ acts # <<>> /\ Len(acts') = Len(acts) - 1
        /\ \A i \in 1 .. Len(acts') : acts'[i] = acts[i]
        /\ iflag' = Top.iflag
    BY <1>5, <2>2, LeaveStep
  <2>4. Len(acts) \in 1 .. Len(acts) /\ \A i \in 1 .. Len(acts') : i \in 1 .. Len(acts)
    BY <2>2, <2>3 DEF EntryTypeOK
  <2>5. iflag' => remapped
    BY <2>2, <2>3, <2>4 DEF LinesRemapped, Top
  <2>6. \A i \in 1 .. Len(acts') : acts'[i].iflag => remapped
    BY <2>2, <2>3, <2>4 DEF LinesRemapped
  <2> QED BY <2>1, <2>2, <2>3, <2>5, <2>6 DEF BootInv, LinesRemapped
<1> QED BY <1>1, <1>2, <1>3, <1>4, <1>5 DEF Service, Stub

(* BootInv is inductive: interrupts from outside. *)
LEMMA OutsideKeeps ==
    ASSUME BootInv, NonMaskable \/ \E l \in Lines : TakeInterrupt(l)
    PROVE  BootInv'
<1>1. <<>> \in Seq(Int)
  OBVIOUS
<1>2. CASE NonMaskable
  <2>1. NMI \in Int /\ CodeFits(NMI, <<>>)
    BY DEF NMI, CodeFits, ISR_ERR
  <2>2. Interrupt(NMI, <<>>) /\ remapped' = remapped /\ stage' = stage
    BY <1>2 DEF NonMaskable, table_vars
  <2> QED BY <2>1, <2>2, <1>1, InterruptStep
<1>3. ASSUME NEW l \in Lines, TakeInterrupt(l) PROVE BootInv'
  <2>1. remapped
    BY <1>3 DEF TakeInterrupt, BootInv, LinesRemapped
  <2>2. Vector(l) \in Int /\ CodeFits(Vector(l), <<>>)
    BY <2>1 DEF Vector, CodeFits, ISR_ERR, Lines, TIMER
  <2>3. Interrupt(Vector(l), <<>>) /\ remapped' = remapped /\ stage' = stage
    BY <1>3 DEF TakeInterrupt, table_vars
  <2> QED BY <2>2, <2>3, <1>1, InterruptStep
<1> QED BY <1>2, <1>3

(* Every step keeps BootInv. *)
LEMMA BootStep ==
    ASSUME BootInv, CodesAgree, [BootNext]_vars
    PROVE  BootInv'
<1>1. CASE UNCHANGED vars
  BY <1>1, StageKeeps DEF vars, table_vars
<1>2. CASE Program
  BY <1>2, ProgramKeeps
<1>3. CASE Service
  BY <1>3, ServiceKeeps
<1>4. CASE NonMaskable \/ \E l \in Lines : TakeInterrupt(l)
  BY <1>4, OutsideKeeps
<1> QED BY <1>1, <1>2, <1>3, <1>4 DEF BootNext

(* No interrupt is being served when _start begins. *)
LEMMA BootStart == BootInit => BootInv
<1> SUFFICES ASSUME BootInit PROVE BootInv
  OBVIOUS
<1>1. acts = <<>> /\ Len(acts) = 0 /\ iflag = FALSE /\ remapped = FALSE /\ stage = 1
  BY DEF BootInit, EntryInit
<1>2. stack \in Seq(Int) /\ eip \in Int
  BY DEF BootInit, EntryInit, MBI, MAGIC, MAIN
<1>3. regs \in [Registers -> Int]
  <2>1. \A r \in Registers : (CHOOSE i \in 1 .. 8 : Pushed[i] = r) \in Int
    BY PlaceOf
  <2> QED BY <2>1 DEF BootInit, EntryInit
<1>4. acts \in Seq(Act)
  BY <1>1
<1>5. stage \in 1 .. Len(Stages)
  BY <1>1 DEF Stages
<1>6. EntryTypeOK
  BY <1>1, <1>2, <1>3, <1>4 DEF EntryTypeOK
<1>7. StackShape
  BY <1>1 DEF StackShape
<1>8. LinesRemapped
  <2>1. ~ (stage > 5) /\ \A i \in 1 .. Len(acts) : FALSE
    BY <1>1
  <2>2. remapped \in BOOLEAN /\ ~ iflag
    BY <1>1, Zenon
  <2> QED BY <2>1, <2>2, <1>5, Zenon DEF LinesRemapped
<1> QED BY <1>6, <1>7, <1>8 DEF BootInv

(* The stack has the shape that the stubs give it at every moment, however *)
(* interrupts and exceptions nest (isr_stubs.s, isr_common_stub.s), and    *)
(* lines interrupt only with the vectors of pic_remap.                     *)
THEOREM BootInvariant == CodesAgree => (BootSpec => []BootInv)
<1> SUFFICES ASSUME CodesAgree PROVE BootSpec => []BootInv
  OBVIOUS
<1>1. BootInv /\ [BootNext]_vars => BootInv'
  BY BootStep
<1> QED BY <1>1, BootStart, PTL DEF BootSpec

(* The arguments that isr_handler finds are those of the innermost         *)
(* interrupt.                                                              *)
LEMMA HandlerArguments ==
    ASSUME BootInv, REGS_POINTER = FALSE
    PROVE  HandlerSeesInterrupt
<1> SUFFICES ASSUME InHandler
             PROVE  interrupt_number = Top.vector /\ error_code = CodeOf(Top)
  BY DEF HandlerSeesInterrupt, CodeOf
<1>1. acts # <<>> /\ Top.at = "handler"
  BY DEF InHandler
<1>2. Top \in Act /\ Shape(Top, stack, regs)
  BY <1>1, TopIs DEF BootInv
<1> DEFINE n == Len(Top.stack)
<1>3. n \in Nat
  BY <1>2, ActFields
<1>4. Len(stack) = n + 15 /\ stack[n + 14] = CodeOf(Top) /\ stack[n + 15] = Top.vector
  BY <1>1, <1>2 DEF Shape, SavedOK
<1> HIDE DEF n
<1>5. Len(stack) - 0 = n + 15 /\ Len(stack) - 1 = n + 14
  BY <1>3, <1>4
<1> QED BY <1>4, <1>5 DEF interrupt_number, error_code, Word

(* With the isr_handler that takes its arguments by value (idt.c, lines    *)
(* 190-265), it sees the interrupt that was raised.                        *)
THEOREM HandlerSees ==
    REGS_POINTER = FALSE /\ CodesAgree => (BootSpec => []HandlerSeesInterrupt)
<1> SUFFICES ASSUME REGS_POINTER = FALSE, CodesAgree
             PROVE  BootSpec => []HandlerSeesInterrupt
  OBVIOUS
<1>1. BootInv => HandlerSeesInterrupt
  BY HandlerArguments
<1> QED BY <1>1, BootInvariant, PTL

\* What iretd returns to.
Restored ==
    Len(acts') < Len(acts) =>
       /\ regs' = Top.regs /\ stack' = Top.stack
       /\ eip' = Top.eip /\ iflag' = Top.iflag

(* Only Leave ends an interrupt. *)
LEMMA OnlyLeave ==
    ASSUME BootInv, CodesAgree, [BootNext]_vars
    PROVE  Leave \/ ~ (Len(acts') < Len(acts))
<1>1. EntryTypeOK /\ StackShape /\ Len(acts) \in Nat
  BY DEF BootInv, EntryTypeOK
<1>2. CASE acts' = acts
  BY <1>1, <1>2
<1>3. CASE \E x : SetTop(x)
  <2>1. PICK x : acts' = [acts EXCEPT ![Len(acts)].at = x]
    BY <1>3 DEF SetTop
  <2>2. Len(acts') = Len(acts)
    BY <2>1, <1>1 DEF EntryTypeOK
  <2> QED BY <2>2, <1>1
<1>4. CASE \E v, code : Deliver(v, code)
  <2>1. PICK a : acts' = Append(acts, a)
    BY <1>4 DEF Deliver
  <2>2. Len(acts') = Len(acts) + 1
    BY <2>1, <1>1 DEF EntryTypeOK
  <2> QED BY <2>2, <1>1
<1>5. CASE \E v, code : Interrupt(v, code)
  BY <1>2, <1>4, <1>5 DEF Interrupt, entry_vars
<1>6. CASE Panic
  BY <1>2, <1>3, <1>6 DEF Panic, Halted
<1>7. CASE UNCHANGED entry_vars
  BY <1>2, <1>7 DEF entry_vars
<1>8. CASE UNCHANGED vars
  BY <1>7, <1>8 DEF vars
<1>9. CASE Program
  BY <1>2, <1>5, <1>6, <1>7, <1>9
  DEF Program, BootPmm, BootPmmFails, gdt_init, tss_init, idt_init, pic_remap, sti,
      paging_init, RootFs, RootFsFaults, Animate, Sleep, Wait, Shell, ShellPanics,
      ShellFaults, Raises
<1>10. CASE Service
  BY <1>3, <1>5, <1>6, <1>10
  DEF Service, HandlePageFault, OutOfMemory, HandleException, HandleTimer, HandleOther,
      HandlerFaults, Stub, HandlerReturns, CallHandler
<1>11. CASE NonMaskable \/ \E l \in Lines : TakeInterrupt(l)
  BY <1>5, <1>11 DEF NonMaskable, TakeInterrupt
<1> QED BY <1>8, <1>9, <1>10, <1>11 DEF BootNext

(* What was interrupted, by a line, an exception or a fault inside a       *)
(* handler, goes on with its registers, its stack and its IF.              *)
THEOREM ContextIsRestored == CodesAgree => (BootSpec => ContextRestored)
<1> SUFFICES ASSUME CodesAgree PROVE BootSpec => ContextRestored
  OBVIOUS
<1>1. BootInv /\ [BootNext]_vars => [Restored]_entry_vars
  <2> SUFFICES ASSUME BootInv, [BootNext]_vars PROVE Restored
    OBVIOUS
  <2>1. CASE Leave
    BY <2>1, LeaveStep DEF Restored, BootInv
  <2> QED BY <2>1, OnlyLeave DEF Restored
<1> QED BY <1>1, BootInvariant, PTL DEF BootSpec, ContextRestored, Restored
-----------------------------------------------------------------------------
(* The order of the boot. *)

\* What the stages that are done have left for an interrupt to use.
TablesOK ==
    /\ machine \in {"run", "panic"}
    /\ stage > 2 => Selects(8, "code")
    /\ stage > 4 => idtr /\ idt = Gates
    /\ idtr => stage > 4
    /\ stage > 7 => paging
    /\ iflag \/ (\E i \in 1 .. Len(acts) : acts[i].iflag) => stage > 6
    /\ acts # <<>> => stage > 4

(* idt_init sets the gates of the exceptions and of the remapped lines. *)
LEMMA GatesAre == Gates = 0 .. 47
<1>1. ASSUME NEW v \in 32 .. 47 PROVE v \in Gates
  <2>1. v - 32 \in 0 .. 15 /\ v = 32 + (v - 32)
    OBVIOUS
  <2> QED BY <2>1 DEF Gates
<1>2. \A v \in 0 .. 31 : v \in Gates
  BY DEF Gates
<1>3. \A v \in Gates : v \in 0 .. 47
  BY DEF Gates
<1>4. \A v \in 0 .. 47 : v \in 0 .. 31 \/ v \in 32 .. 47
  OBVIOUS
<1> QED BY <1>1, <1>2, <1>3, <1>4

(* From idt_init on, a vector with a gate is delivered. *)
LEMMA Delivered ==
    ASSUME BootInv, TablesOK, NEW v \in 0 .. 47, NEW code, stage > 4, Interrupt(v, code)
    PROVE  Deliver(v, code) /\ machine' = machine
<1>1. stage > 2
  BY DEF BootInv, LinesRemapped
<1>2. v \in idt
  BY GatesAre DEF TablesOK
<1> QED BY <1>1, <1>2 DEF Interrupt, TablesOK

(* A delivered interrupt keeps TablesOK. *)
LEMMA DeliverTables ==
    ASSUME BootInv, TablesOK, NEW v \in 0 .. 47, NEW code, stage > 4, Interrupt(v, code),
           UNCHANGED <<table_vars, paging, stage>>
    PROVE  TablesOK'
<1>1. Deliver(v, code) /\ machine' = machine
  BY Delivered
<1>2. UNCHANGED <<gdt, gdtr, idt, idtr, paging, stage>>
  BY DEF table_vars
<1>3. PICK a : acts' = Append(acts, a) /\ a.iflag = iflag
  BY <1>1 DEF Deliver
<1>4. acts \in Seq(Act) /\ Len(acts) \in Nat
  BY DEF BootInv, EntryTypeOK
<1>5. ASSUME NEW i \in 1 .. Len(acts'), acts'[i].iflag PROVE stage > 6
  <2>1. CASE i = Len(acts) + 1
    BY <2>1, <1>3, <1>4, <1>5 DEF TablesOK
  <2>2. CASE i \in 1 .. Len(acts)
    <3>1. acts'[i] = acts[i]
      BY <2>2, <1>3, <1>4
    <3> QED BY <3>1, <2>2, <1>5 DEF TablesOK
  <2> QED BY <2>1, <2>2, <1>3, <1>4
<1>6. iflag' = FALSE
  BY <1>1 DEF Deliver
<1>7. Selects(8, "code")' = Selects(8, "code")
  BY <1>2 DEF Selects
<1> QED BY <1>1, <1>2, <1>5, <1>6, <1>7 DEF TablesOK

(* So does a step that leaves the tables and raises no IF. *)
LEMMA SameTables ==
    ASSUME TablesOK, UNCHANGED <<table_vars, paging, stage>>,
           machine' \in {"run", "panic"},
           acts' # <<>> => acts # <<>>,
           iflag' => iflag \/ \E i \in 1 .. Len(acts) : acts[i].iflag,
           \A i \in 1 .. Len(acts') : i \in 1 .. Len(acts) /\ acts'[i].iflag = acts[i].iflag
    PROVE  TablesOK'
<1>1. UNCHANGED <<gdt, gdtr, idt, idtr, paging, stage>>
  BY DEF table_vars
<1>2. Selects(8, "code")' = Selects(8, "code")
  BY <1>1 DEF Selects
<1>3. iflag' \/ (\E i \in 1 .. Len(acts') : acts'[i].iflag) => stage > 6
  BY DEF TablesOK
<1> QED BY <1>1, <1>2, <1>3 DEF TablesOK

(* A panic keeps TablesOK. *)
LEMMA PanicTables ==
    ASSUME BootInv, TablesOK, Panic, UNCHANGED <<table_vars, paging, stage>>
    PROVE  TablesOK'
<1>1. /\ iflag' = FALSE /\ Len(acts') = Len(acts)
      /\ \A i \in 1 .. Len(acts) : acts'[i].iflag = acts[i].iflag
  BY PanicStep DEF BootInv
<1>2. machine' \in {"run", "panic"}
  BY DEF Panic
<1>3. acts' # <<>> => acts # <<>>
  BY DEF Panic, Halted
<1> QED BY <1>1, <1>2, <1>3, SameTables

(* isr_handler returns, or is called: no flag changes. *)
LEMMA HandlerTables ==
    ASSUME BootInv, TablesOK, (InHandler /\ HandlerReturns) \/ CallHandler,
           UNCHANGED <<table_vars, paging, stage, machine>>
    PROVE  TablesOK'
<1>1. /\ Len(acts') = Len(acts)
      /\ \A i \in 1 .. Len(acts) : acts'[i].iflag = acts[i].iflag
  BY ReturnStep, CallStep DEF BootInv
<1>2. iflag' = iflag /\ acts # <<>>
  BY DEF HandlerReturns, CallHandler, InHandler
<1>3. machine' \in {"run", "panic"}
  BY DEF TablesOK
<1> QED BY <1>1, <1>2, <1>3, SameTables

(* What was interrupted had its IF after sti only. *)
LEMMA LeaveTables ==
    ASSUME BootInv, TablesOK, Leave, UNCHANGED <<table_vars, paging, stage, machine>>
    PROVE  TablesOK'
<1>1. /\ acts # <<>> /\ Len(acts') = Len(acts) - 1 /\ iflag' = Top.iflag
      /\ \A i \in 1 .. Len(acts') : acts'[i] = acts[i]
  BY LeaveStep DEF BootInv
<1>2. Len(acts) \in 1 .. Len(acts) /\ \A i \in 1 .. Len(acts') : i \in 1 .. Len(acts)
  BY <1>1 DEF BootInv, EntryTypeOK
<1>3. iflag' => \E i \in 1 .. Len(acts) : acts[i].iflag
  BY <1>1, <1>2 DEF Top
<1>4. machine' \in {"run", "panic"}
  BY DEF TablesOK
<1>5. \A i \in 1 .. Len(acts') : i \in 1 .. Len(acts) /\ acts'[i].iflag = acts[i].iflag
  BY <1>1, <1>2
<1> QED BY <1>1, <1>3, <1>4, <1>5, SameTables

(* A stage of the main program that finishes, with no interrupt being      *)
(* served, leaves what the next ones need.                                 *)
LEMMA StageTables ==
    ASSUME BootInv, TablesOK, acts = <<>>, acts' = acts, machine' = machine,
           NEW k, k = stage, stage' = k + 1,
           k = 2 => Selects(8, "code")',
           k > 2 => Selects(8, "code")' = Selects(8, "code"),
           k = 4 => idtr' /\ idt' = Gates,
           k # 4 => idtr' = idtr /\ idt' = idt,
           k = 7 => paging', k # 7 => paging' = paging,
           iflag' => iflag \/ k = 6
    PROVE  TablesOK'
<1>1. k \in Int
  BY DEF BootInv, LinesRemapped
<1>2. Len(acts) = 0 /\ Len(acts') = 0
  OBVIOUS
<1>3. stage' > 2 => Selects(8, "code")'
  BY <1>1 DEF TablesOK
<1>4. (stage' > 4 => idtr' /\ idt' = Gates) /\ (idtr' => stage' > 4)
  BY <1>1 DEF TablesOK
<1>5. stage' > 7 => paging'
  BY <1>1 DEF TablesOK
<1>6. iflag' => stage' > 6
  BY <1>1 DEF TablesOK
<1>7. \A i \in 1 .. Len(acts') : FALSE
  BY <1>2
<1> QED BY <1>3, <1>4, <1>5, <1>6, <1>7 DEF TablesOK

(* The stages by their numbers. *)
LEMMA MoreStageNumbers ==
    ASSUME stage \in 1 .. Len(Stages)
    PROVE  /\ Stages[stage] = "pmm" => stage = 1
           /\ Stages[stage] = "gdt" => stage = 2
           /\ Stages[stage] = "tss" => stage = 3
           /\ Stages[stage] = "idt" => stage = 4
           /\ Stages[stage] = "pic" => stage = 5
           /\ Stages[stage] = "sti" => stage = 6
           /\ Stages[stage] = "paging" => stage = 7
           /\ Stages[stage] \in {"rootfs", "animation", "sleep1", "sleep2", "shell"} => stage > 7
BY DEF Stages

\* The GDT keeps its six entries.
GdtType == DOMAIN gdt = 0 .. GDT_ENTRIES - 1

(* gdt_init leaves the code segment, tss_init keeps it. *)
LEMMA CodeSegment ==
    ASSUME GdtType
    PROVE  /\ gdt_init => Selects(8, "code")' /\ GdtType'
           /\ tss_init => Selects(8, "code")' = Selects(8, "code") /\ GdtType'
<1>1. 8 \div 8 = 1 /\ GDT_ENTRIES - 1 = 5
  BY DEF GDT_ENTRIES
<1>2. ASSUME gdt_init PROVE Selects(8, "code")' /\ GdtType'
  <2>1. gdt' = [gdt EXCEPT ![0] = "null", ![1] = "code", ![2] = "data",
                           ![3] = "user code", ![4] = "user data"] /\ gdtr' = TRUE
    BY <1>2 DEF gdt_init
  <2> DEFINE a == [gdt EXCEPT ![0] = "null"]
             b == [a EXCEPT ![1] = "code"]
             c == [b EXCEPT ![2] = "data"]
             d == [c EXCEPT ![3] = "user code"]
             e == [d EXCEPT ![4] = "user data"]
  <2>2. gdt' = e
    BY <2>1
  <2>3. DOMAIN a = 0 .. 5
    BY <1>1 DEF GdtType
  <2> HIDE DEF a
  <2>4. DOMAIN b = 0 .. 5 /\ b[1] = "code"
    BY <2>3
  <2> HIDE DEF b
  <2>5. DOMAIN c = 0 .. 5 /\ c[1] = "code"
    BY <2>4
  <2> HIDE DEF c
  <2>6. DOMAIN d = 0 .. 5 /\ d[1] = "code"
    BY <2>5
  <2> HIDE DEF d
  <2>7. DOMAIN e = 0 .. 5 /\ e[1] = "code"
    BY <2>6
  <2> HIDE DEF e
  <2> QED BY <2>1, <2>2, <2>7, <1>1 DEF Selects, GdtType
<1>3. ASSUME tss_init PROVE Selects(8, "code")' = Selects(8, "code") /\ GdtType'
  <2>1. gdt' = [gdt EXCEPT ![5] = "tss"] /\ gdtr' = gdtr
    BY <1>3 DEF tss_init
  <2>2. gdt'[1] = gdt[1] /\ DOMAIN gdt' = DOMAIN gdt
    BY <2>1, <1>1 DEF GdtType
  <2> QED BY <2>1, <2>2, <1>1 DEF Selects, GdtType
<1> QED BY <1>2, <1>3

(* The main program with no interrupt being served: a step that changes    *)
(* nothing of this.                                                        *)
LEMMA IdleTables ==
    ASSUME TablesOK, UNCHANGED <<entry_vars, table_vars, paging, stage, machine>>
    PROVE  TablesOK'
<1>1. acts' = acts /\ iflag' = iflag
  BY DEF entry_vars
<1>2. machine' \in {"run", "panic"}
  BY DEF TablesOK
<1> QED BY <1>1, <1>2, SameTables

(* An exception of the main program keeps TablesOK, once there is an IDT.  *)
LEMMA RaisesTables ==
    ASSUME BootInv, TablesOK, NEW v \in 0 .. 47, NEW addr, stage > 4, Raises(v, addr)
    PROVE  TablesOK'
<1> DEFINE code == IF v \in WithCode THEN <<2>> ELSE <<>>
<1>1. Interrupt(v, code) /\ UNCHANGED <<table_vars, paging, stage>>
  BY DEF Raises
<1> HIDE DEF code
<1> QED BY <1>1, DeliverTables

(* A stage that is done. *)
LEMMA DoneTables ==
    ASSUME BootInv, TablesOK, GdtType,
           BootPmm \/ gdt_init \/ tss_init \/ idt_init \/ pic_remap \/ sti \/ paging_init \/ RootFs
    PROVE  TablesOK' /\ GdtType'
<1>1. /\ acts = <<>> /\ acts' = acts /\ machine' = machine
      /\ stage' = stage + 1
  BY DEF BootPmm, gdt_init, tss_init, idt_init, pic_remap, sti, paging_init, RootFs,
         At, Main, Done, entry_vars
<1>2. stage \in 1 .. Len(Stages)
  BY DEF BootInv, LinesRemapped
<1>3. CASE BootPmm
  <2>1. stage = 1
    BY <1>2, <1>3, MoreStageNumbers DEF BootPmm, At
  <2>2. UNCHANGED <<gdt, gdtr, idt, idtr, paging, iflag>>
    BY <1>3 DEF BootPmm, entry_vars, table_vars, memory_vars
  <2> QED BY <1>1, <2>1, <2>2, StageTables DEF GdtType
<1>4. CASE gdt_init
  <2>1. stage = 2
    BY <1>2, <1>4, MoreStageNumbers DEF gdt_init, At
  <2>2. UNCHANGED <<idt, idtr, paging, iflag>>
    BY <1>4 DEF gdt_init, entry_vars, memory_vars
  <2>3. Selects(8, "code")' /\ GdtType'
    BY <1>4, CodeSegment
  <2> QED BY <1>1, <2>1, <2>2, <2>3, StageTables
<1>5. CASE tss_init
  <2>1. stage = 3
    BY <1>2, <1>5, MoreStageNumbers DEF tss_init, At
  <2>2. UNCHANGED <<idt, idtr, paging, iflag>>
    BY <1>5 DEF tss_init, entry_vars, memory_vars
  <2>3. Selects(8, "code")' = Selects(8, "code") /\ GdtType'
    BY <1>5, CodeSegment
  <2> QED BY <1>1, <2>1, <2>2, <2>3, StageTables
<1>6. CASE idt_init
  <2>1. stage = 4
    BY <1>2, <1>6, MoreStageNumbers DEF idt_init, At
  <2>2. UNCHANGED <<gdt, gdtr, paging, iflag>> /\ idtr' /\ idt' = Gates
    BY <1>6 DEF idt_init, entry_vars, memory_vars
  <2>3. Selects(8, "code")' = Selects(8, "code") /\ GdtType'
    BY <2>2 DEF Selects, GdtType
  <2>4. /\ stage = 4 => idtr' /\ idt' = Gates
        /\ stage # 4 => idtr' = idtr /\ idt' = idt
        /\ stage = 2 => Selects(8, "code")'
    BY <2>1, <2>2
  <2>5. (stage = 7 => paging') /\ (stage # 7 => paging' = paging)
    BY <2>1, <2>2
  <2>6. iflag' => iflag \/ stage = 6
    BY <2>2
  <2> QED BY <1>1, <2>3, <2>4, <2>5, <2>6, StageTables
<1>7. CASE pic_remap
  <2>1. stage = 5
    BY <1>2, <1>7, MoreStageNumbers DEF pic_remap, At
  <2>2. UNCHANGED <<gdt, gdtr, idt, idtr, paging, iflag>>
    BY <1>7 DEF pic_remap, entry_vars, memory_vars
  <2>3. Selects(8, "code")' = Selects(8, "code") /\ GdtType'
    BY <2>2 DEF Selects, GdtType
  <2> QED BY <1>1, <2>1, <2>2, <2>3, StageTables
<1>8. CASE sti
  <2>1. stage = 6
    BY <1>2, <1>8, MoreStageNumbers DEF sti, At
  <2>2. UNCHANGED <<gdt, gdtr, idt, idtr, paging>>
    BY <1>8 DEF sti, table_vars, memory_vars
  <2>3. Selects(8, "code")' = Selects(8, "code") /\ GdtType'
    BY <2>2 DEF Selects, GdtType
  <2> QED BY <1>1, <2>1, <2>2, <2>3, StageTables
<1>9. CASE paging_init
  <2>1. stage = 7
    BY <1>2, <1>9, MoreStageNumbers DEF paging_init, At
  <2>2. UNCHANGED <<gdt, gdtr, idt, idtr, iflag>> /\ paging'
    BY <1>9 DEF paging_init, entry_vars, table_vars
  <2>3. Selects(8, "code")' = Selects(8, "code") /\ GdtType'
    BY <2>2 DEF Selects, GdtType
  <2>4. (stage = 7 => paging') /\ (stage # 7 => paging' = paging)
    BY <2>1, <2>2
  <2>5. /\ stage = 4 => idtr' /\ idt' = Gates
        /\ stage # 4 => idtr' = idtr /\ idt' = idt
        /\ stage = 2 => Selects(8, "code")'
    BY <2>1, <2>2
  <2>6. iflag' => iflag \/ stage = 6
    BY <2>2
  <2> QED BY <1>1, <2>3, <2>4, <2>5, <2>6, StageTables
<1>10. CASE RootFs
  <2>1. stage > 7
    BY <1>2, <1>10, MoreStageNumbers DEF RootFs, At
  <2>2. UNCHANGED <<gdt, gdtr, idt, idtr, paging, iflag>>
    BY <1>10 DEF RootFs, entry_vars, table_vars, memory_vars
  <2>3. Selects(8, "code")' = Selects(8, "code") /\ GdtType'
    BY <2>2 DEF Selects, GdtType
  <2>4. stage \in Int /\ stage # 2 /\ stage # 4 /\ stage # 7
    BY <1>2, <2>1
  <2> QED BY <1>1, <2>2, <2>3, <2>4, StageTables
<1> QED BY <1>3, <1>4, <1>5, <1>6, <1>7, <1>8, <1>9, <1>10

(* TablesOK is inductive: the main program. *)
LEMMA ProgramTables ==
    ASSUME BootInv, TablesOK, GdtType, Program
    PROVE  TablesOK' /\ GdtType'
<1>1. stage \in 1 .. Len(Stages) /\ stage \in Int
  BY DEF BootInv, LinesRemapped
<1>2. PAGE_FAULT \in 0 .. 47 /\ \A v \in Faults : v \in 0 .. 47
  BY BootAssumption DEF PAGE_FAULT
<1>3. CASE BootPmm \/ gdt_init \/ tss_init \/ idt_init \/ pic_remap \/ sti \/ paging_init \/ RootFs
  BY <1>3, DoneTables
<1>4. CASE BootPmmFails \/ ShellPanics
  <2>1. Panic /\ UNCHANGED <<table_vars, paging, stage>> /\ gdt' = gdt
    BY <1>4 DEF BootPmmFails, ShellPanics, memory_vars, table_vars
  <2> QED BY <2>1, PanicTables DEF GdtType
<1>5. CASE Wait \/ Shell \/ (Animate /\ stage' = stage)
  <2>1. UNCHANGED <<entry_vars, table_vars, paging, stage, machine>> /\ gdt' = gdt
    BY <1>5 DEF Wait, Shell, Animate, memory_vars, table_vars
  <2> QED BY <2>1, IdleTables DEF GdtType
<1>6. CASE Sleep \/ (Animate /\ stage' = stage + 1)
  <2>1. Stages[stage] \in {"animation", "sleep1", "sleep2"}
    BY <1>6 DEF Sleep, Animate, At
  <2>2. stage # 2 /\ stage # 4 /\ stage # 7
    BY <1>1, <2>1, MoreStageNumbers
  <2>3. acts = <<>> /\ acts' = acts /\ machine' = machine /\ stage' = stage + 1
    BY <1>6 DEF Sleep, Animate, At, Main, Done, entry_vars
  <2>4. UNCHANGED <<gdt, gdtr, idt, idtr, paging, iflag>>
    BY <1>6 DEF Sleep, Animate, entry_vars, table_vars, memory_vars
  <2>5. Selects(8, "code")' = Selects(8, "code") /\ GdtType'
    BY <2>4 DEF Selects, GdtType
  <2> QED BY <2>2, <2>3, <2>4, <2>5, StageTables
<1>7. CASE RootFsFaults
  <2>1. stage > 7 /\ stage > 4
    BY <1>1, <1>7, MoreStageNumbers DEF RootFsFaults, At
  <2>2. Raises(PAGE_FAULT, "heap")
    BY <1>7, <2>1 DEF RootFsFaults, TablesOK
  <2>3. gdt' = gdt
    BY <2>2 DEF Raises, table_vars
  <2> QED BY <1>2, <2>1, <2>2, <2>3, RaisesTables DEF GdtType
<1>8. CASE ShellFaults
  <2>1. stage > 4
    BY <1>1, <1>8, MoreStageNumbers DEF ShellFaults, At
  <2>2. PICK v \in 0 .. 47, addr \in {"heap", "other", cr2} : Raises(v, addr)
    BY <1>2, <1>8 DEF ShellFaults
  <2>3. gdt' = gdt
    BY <2>2 DEF Raises, table_vars
  <2> QED BY <2>1, <2>2, <2>3, RaisesTables DEF GdtType
<1>9. Animate => stage' = stage \/ stage' = stage + 1
  BY DEF Animate, Done
<1> QED BY <1>3, <1>4, <1>5, <1>6, <1>7, <1>8, <1>9 DEF Program

(* TablesOK is inductive: the handlers. *)
LEMMA ServiceTables ==
    ASSUME BootInv, TablesOK, GdtType, Service
    PROVE  TablesOK' /\ GdtType'
<1>1. UNCHANGED <<table_vars, paging, stage>> /\ gdt' = gdt
  BY DEF Service, HandlePageFault, OutOfMemory, HandleException, HandleTimer, HandleOther,
         HandlerFaults, Stub, Handler, memory_vars, table_vars
<1>2. GdtType'
  BY <1>1 DEF GdtType
<1>3. CASE HandlePageFault \/ HandleTimer \/ HandleOther
  <2>1. InHandler /\ HandlerReturns /\ machine' = machine
    BY <1>3 DEF HandlePageFault, HandleTimer, HandleOther, Handler
  <2> QED BY <1>1, <1>2, <2>1, HandlerTables
<1>4. CASE OutOfMemory \/ HandleException
  BY <1>1, <1>2, <1>4, PanicTables DEF OutOfMemory, HandleException
<1>5. CASE HandlerFaults
  <2>1. PICK c \in {0, 2} : acts # <<>> /\ Interrupt(PAGE_FAULT, <<c>>)
    BY <1>5 DEF HandlerFaults, InHandler
  <2>2. stage > 4 /\ PAGE_FAULT \in 0 .. 47
    BY <2>1 DEF TablesOK, PAGE_FAULT
  <2> QED BY <1>1, <1>2, <2>1, <2>2, DeliverTables
<1>6. CASE Stub /\ CallHandler
  BY <1>1, <1>2, <1>6, HandlerTables DEF Stub
<1>7. CASE Stub /\ Leave
  BY <1>1, <1>2, <1>7, LeaveTables DEF Stub
<1> QED BY <1>3, <1>4, <1>5, <1>6, <1>7 DEF Service, Stub

(* TablesOK is inductive: interrupts from outside. *)
LEMMA OutsideTables ==
    ASSUME BootInv, TablesOK, GdtType, NonMaskable \/ \E l \in Lines : TakeInterrupt(l)
    PROVE  TablesOK' /\ GdtType'
<1>1. UNCHANGED <<table_vars, paging, stage>> /\ gdt' = gdt
  BY DEF NonMaskable, TakeInterrupt, memory_vars, table_vars
<1>2. stage \in Int
  BY DEF BootInv, LinesRemapped
<1>3. CASE NonMaskable
  <2>1. stage > 4 /\ NMI \in 0 .. 47
    BY <1>3 DEF NonMaskable, TablesOK, NMI
  <2> QED BY <1>1, <1>3, <2>1, DeliverTables DEF NonMaskable, GdtType
<1>4. ASSUME NEW l \in Lines, TakeInterrupt(l) PROVE TablesOK' /\ GdtType'
  <2>1. stage > 4
    BY <1>2, <1>4 DEF TakeInterrupt, TablesOK
  <2>2. Vector(l) \in 0 .. 47
    BY DEF Vector, Lines, TIMER
  <2> QED BY <1>1, <1>4, <2>1, <2>2, DeliverTables DEF TakeInterrupt, GdtType
<1> QED BY <1>3, <1>4

(* The order of kernel_boot sets up what interrupts need. *)
LEMMA TablesInvariant == CodesAgree => (BootSpec => [](TablesOK /\ GdtType))
<1> SUFFICES ASSUME CodesAgree PROVE BootSpec => [](TablesOK /\ GdtType)
  OBVIOUS
<1>1. BootInit => TablesOK /\ GdtType
  <2> SUFFICES ASSUME BootInit PROVE TablesOK /\ GdtType
    OBVIOUS
  <2>1. stage = 1 /\ machine = "run" /\ acts = <<>> /\ iflag = FALSE /\ idtr = FALSE
    BY DEF BootInit, EntryInit
  <2>2. Len(acts) = 0
    BY <2>1
  <2>3. GdtType
    BY DEF BootInit, GdtType
  <2> QED BY <2>1, <2>2, <2>3 DEF TablesOK
<1>2. BootInv /\ TablesOK /\ GdtType /\ [BootNext]_vars => TablesOK' /\ GdtType'
  <2> SUFFICES ASSUME BootInv, TablesOK, GdtType, [BootNext]_vars PROVE TablesOK' /\ GdtType'
    OBVIOUS
  <2>1. CASE UNCHANGED vars
    <3>1. UNCHANGED <<entry_vars, table_vars, paging, stage, machine>> /\ gdt' = gdt
      BY <2>1 DEF vars, memory_vars, table_vars
    <3> QED BY <3>1, IdleTables DEF GdtType
  <2> QED BY <2>1, ProgramTables, ServiceTables, OutsideTables DEF BootNext
<1> QED BY <1>1, <1>2, BootInvariant, PTL DEF BootSpec

(* With the isr_handler that takes its arguments by value the machine      *)
(* never resets, whatever exceptions there are: the order of kernel_boot   *)
(* has set up the descriptors, the gates, the controllers and paging       *)
(* before anything can need them.                                          *)
THEOREM BootNeverResets ==
    REGS_POINTER = FALSE /\ CodesAgree => (BootSpec => []NeverResets)
<1> SUFFICES ASSUME REGS_POINTER = FALSE, CodesAgree PROVE BootSpec => []NeverResets
  OBVIOUS
<1>1. BootInv /\ TablesOK => NeverResets
  <2> SUFFICES ASSUME BootInv, TablesOK PROVE NeverResets
    OBVIOUS
  <2>1. ASSUME iflag, NEW l \in Lines PROVE Vector(l) \in idt \ (0 .. 31)
    <3>1. remapped /\ stage \in Int
      BY <2>1 DEF BootInv, LinesRemapped
    <3>2. Vector(l) \in 32 .. 47
      BY <3>1 DEF Vector, Lines, TIMER
    <3>3. stage > 4
      BY <2>1, <3>1 DEF TablesOK
    <3>4. idt = 0 .. 47
      BY <3>3, GatesAre DEF TablesOK
    <3>5. Vector(l) \in 0 .. 47 /\ Vector(l) \notin 0 .. 31
      BY <3>2
    <3> QED BY <3>4, <3>5
  <2> QED BY <2>1 DEF NeverResets, TablesOK
<1> QED BY <1>1, BootInvariant, TablesInvariant, PTL
-----------------------------------------------------------------------------
(* The end in a panic. *)

\* After a panic interrupts are off, and what runs is halted, or an NMI that
\* is on its way to the panic of its own.
PanicHolds ==
    machine = "panic" =>
        /\ iflag = FALSE
        /\ acts # <<>> => \/ Top.at = "halted"
                          \/ Top.vector = NMI /\ Top.at \in {"stub", "handler"}

\* What PanicIsFinal says of a step.
Final ==
    machine = "panic" =>
        /\ machine' = "panic" /\ ~ iflag' /\ stage' = stage
        /\ Len(acts') >= Len(acts)
        /\ Len(acts') > Len(acts) => acts'[Len(acts')].vector = NMI

(* SetTop changes how far the innermost interrupt is, and nothing else.    *)
LEMMA TopAfter ==
    ASSUME EntryTypeOK, acts # <<>>,
           NEW x \in {"stub", "handler", "leave", "halted"}, SetTop(x)
    PROVE  /\ Len(acts') = Len(acts) /\ Len(acts) \in Nat /\ acts' # <<>>
           /\ Top'.at = x /\ Top'.vector = Top.vector
<1> DEFINE n == Len(acts)
<1>1. n \in Nat /\ n > 0 /\ acts \in Seq(Act) /\ acts[n] \in Act
  BY DEF EntryTypeOK
<1>2. acts' = [acts EXCEPT ![n] = [acts[n] EXCEPT !.at = x]]
  BY DEF SetTop
<1>3. [acts[n] EXCEPT !.at = x].at = x /\ [acts[n] EXCEPT !.at = x].vector = acts[n].vector
  BY <1>1 DEF Act
<1>4. Len(acts') = n /\ acts'[n] = [acts[n] EXCEPT !.at = x]
  BY <1>1, <1>2
<1> QED BY <1>1, <1>3, <1>4 DEF Top

(* A panic establishes PanicHolds. *)
LEMMA PanicEnds ==
    ASSUME EntryTypeOK, Panic
    PROVE  PanicHolds' /\ Len(acts') = Len(acts) /\ machine' = "panic" /\ ~ iflag'
<1>1. machine' = "panic" /\ iflag' = FALSE /\ Halted
  BY DEF Panic
<1>2. CASE acts = <<>>
  BY <1>1, <1>2 DEF Halted, PanicHolds
<1>3. CASE acts # <<>>
  <2>1. SetTop("halted")
    BY <1>1, <1>3 DEF Halted
  <2>2. Len(acts') = Len(acts) /\ Top'.at = "halted"
    BY <1>3, <2>1, TopAfter
  <2>3. PanicHolds'
    BY <1>1, <2>2 DEF PanicHolds
  <2> QED BY <1>1, <2>2, <2>3
<1> QED BY <1>2, <1>3

(* Only a panic ends in a panic. *)
LEMMA PanicOnly ==
    ASSUME BootNext, machine = "run", machine' = "panic"
    PROVE  Panic
<1>1. \A v, code : ~ Interrupt(v, code)
  BY DEF Interrupt
<1>2. CASE Program
  BY <1>1, <1>2
  DEF Program, BootPmm, BootPmmFails, gdt_init, tss_init, idt_init, pic_remap, sti,
      paging_init, RootFs, RootFsFaults, Animate, Sleep, Wait, Shell, ShellPanics,
      ShellFaults, Raises
<1>3. CASE Service
  BY <1>1, <1>3
  DEF Service, HandlePageFault, OutOfMemory, HandleException, HandleTimer, HandleOther,
      HandlerFaults, Stub
<1>4. CASE NonMaskable \/ \E l \in Lines : TakeInterrupt(l)
  BY <1>1, <1>4 DEF NonMaskable, TakeInterrupt
<1> QED BY <1>2, <1>3, <1>4 DEF BootNext

(* After a panic there is only an NMI: it is delivered, its stub calls     *)
(* isr_handler, and isr_handler panics again.                              *)
LEMMA AfterPanic ==
    ASSUME BootInv, TablesOK, PanicHolds, REGS_POINTER = FALSE, BootNext, machine = "panic"
    PROVE  PanicHolds' /\ Final
<1>1. EntryTypeOK /\ Len(acts) \in Nat /\ acts \in Seq(Act) /\ iflag = FALSE
  BY DEF BootInv, EntryTypeOK, PanicHolds
<1>2. ~ Program /\ ~ (\E l \in Lines : TakeInterrupt(l))
  BY <1>1
  DEF Program, BootPmm, BootPmmFails, gdt_init, tss_init, idt_init, pic_remap, sti,
      paging_init, RootFs, RootFsFaults, Animate, Sleep, Wait, Shell, ShellPanics,
      ShellFaults, At, Main, TakeInterrupt
<1>3. CASE NonMaskable
  <2>1. stage > 4 /\ NMI \in 0 .. 47 /\ Interrupt(NMI, <<>>) /\ stage' = stage
    BY <1>3 DEF NonMaskable, TablesOK, NMI
  <2>2. Deliver(NMI, <<>>) /\ machine' = machine
    BY <2>1, Delivered
  <2>3. PICK a : acts' = Append(acts, a) /\ a.vector = NMI /\ a.at = "stub"
    <3>1. PICK a : /\ a = [vector |-> NMI, code |-> <<>>, at |-> "stub",
                           stack |-> stack, regs |-> regs, eip |-> eip, iflag |-> iflag]
                   /\ acts' = Append(acts, a)
      BY <2>2, Zenon DEF Deliver
    <3>2. a.vector = NMI /\ a.at = "stub"
      BY <3>1
    <3> QED BY <3>1, <3>2, Zenon
  <2>4. Len(acts') = Len(acts) + 1 /\ acts'[Len(acts')] = a
    BY <1>1, <2>3
  <2>5. iflag' = FALSE
    BY <2>2 DEF Deliver
  <2> QED BY <1>1, <2>1, <2>2, <2>3, <2>4, <2>5 DEF PanicHolds, Final, Top
<1>4. ASSUME InHandler
      PROVE  interrupt_number = NMI /\ ~ InWindow /\ interrupt_number < 32
  <2>1. interrupt_number = Top.vector
    BY <1>4, HandlerArguments DEF HandlerSeesInterrupt
  <2> QED BY <1>4, <2>1 DEF PanicHolds, InHandler, InWindow, NMI, PAGE_FAULT
<1>5. CASE Service
  <2>1. ~ (HandlePageFault \/ OutOfMemory \/ HandleTimer \/ HandleOther \/ HandlerFaults)
    BY <1>4 DEF HandlePageFault, OutOfMemory, HandleTimer, HandleOther, HandlerFaults,
                Handler, ReadsPageZero, NMI, TIMER
  <2>2. CASE HandleException
    <3>1. Panic /\ stage' = stage
      BY <2>2 DEF HandleException, Handler
    <3> QED BY <1>1, <3>1, PanicEnds DEF Final
  <2>3. CASE Stub
    <3>1. ~ Leave
      BY DEF Leave, PanicHolds
    <3>2. CallHandler /\ stage' = stage /\ machine' = machine
      BY <2>3, <3>1 DEF Stub
    <3>3. acts # <<>> /\ Top.at = "stub" /\ SetTop("handler") /\ iflag' = iflag
      BY <3>2 DEF CallHandler
    <3>4. Len(acts') = Len(acts) /\ Top'.at = "handler" /\ Top'.vector = Top.vector
      BY <1>1, <3>3, TopAfter
    <3> QED BY <1>1, <3>2, <3>3, <3>4 DEF PanicHolds, Final
  <2> QED BY <1>5, <2>1, <2>2, <2>3 DEF Service
<1> QED BY <1>2, <1>3, <1>5 DEF BootNext

(* A panic is final, whatever was interrupted: with the isr_handler that   *)
(* takes its arguments by value, nothing returns any more, and only an NMI *)
(* is still served.                                                        *)
THEOREM PanicStays ==
    REGS_POINTER = FALSE /\ CodesAgree => (BootSpec => PanicIsFinal)
<1> SUFFICES ASSUME REGS_POINTER = FALSE, CodesAgree
             PROVE  BootSpec => PanicIsFinal
  OBVIOUS
<1>1. BootInit => PanicHolds
  BY DEF BootInit, PanicHolds
<1>2. BootInv /\ TablesOK /\ PanicHolds /\ [BootNext]_vars => PanicHolds' /\ [Final]_vars
  <2> SUFFICES ASSUME BootInv, TablesOK, PanicHolds, [BootNext]_vars
               PROVE  PanicHolds' /\ [Final]_vars
    OBVIOUS
  <2>1. CASE UNCHANGED vars
    BY <2>1 DEF vars, entry_vars, PanicHolds, Top
  <2>2. CASE BootNext /\ machine = "panic"
    BY <2>2, AfterPanic
  <2>3. CASE BootNext /\ machine # "panic"
    <3>1. machine = "run" /\ Final
      BY <2>3 DEF TablesOK, Final
    <3>2. CASE machine' = "panic"
      BY <2>3, <3>1, <3>2, PanicOnly, PanicEnds DEF BootInv
    <3> QED BY <3>1, <3>2 DEF PanicHolds
  <2> QED BY <2>1, <2>2, <2>3
<1> QED BY <1>1, <1>2, BootInvariant, TablesInvariant, PTL DEF BootSpec, PanicIsFinal, Final
=============================================================================
