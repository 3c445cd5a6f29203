-------------------------- MODULE InterruptProofs ---------------------------
(***************************************************************************)
(* The running kernel, for every set of interrupt lines, every keyboard    *)
(* and every width of the counters: handlers and controllers agree on what *)
(* is in service, every scancode has its interrupt, a sleep never returns  *)
(* early although the counters wrap around, the seconds are right, and the *)
(* keyboard ring under real interrupts implements KeyQueue.                *)
(***************************************************************************)
EXTENDS Interrupts, KeyboardProofs

Frame == [line : Sources, at : {"body", "eoi", "iret"}]

\* At most one handler runs, and exactly then, or after a panic, are
\* interrupts off.
OneHandler ==
    /\ handlers = <<>> \/ \E h \in Frame : handlers = <<h>>
    /\ iflag = (handlers = <<>> /\ pc # "panic")
    /\ pc = "panic" => handlers = <<>>

\* InServiceMatches, with what is in service before the last EOI pinned down.
Served ==
    /\ handlers = <<>> => isr = {}
    /\ \A h \in Frame : handlers = <<h>> =>
          isr \in IF h.at = "iret" THEN {{}} ELSE {{}, InService(h.line)}

\* A keyboard interrupt whose handler has not read the scancode.
Unanswered == \E h \in Frame : handlers = <<h>> /\ h.line = KEYBOARD /\ h.at = "body"

\* The scancode in the port is requested or being served, never both.
ScancodeOnce ==
    /\ irr \subseteq Lines
    /\ port \in Scancodes \cup {Empty}
    /\ port # Empty <=> KEYBOARD \in irr \/ Unanswered
    /\ ~ (KEYBOARD \in irr /\ Unanswered)

IntrInv == OneHandler /\ Served /\ ScancodeOnce
-----------------------------------------------------------------------------
(* The innermost handler, when there is one. *)
LEMMA TopIs ==
    ASSUME NEW h \in Frame, handlers = <<h>>
    PROVE  /\ Top = h /\ handlers # <<>> /\ Len(handlers) = 1
           /\ \A at \in {"eoi", "iret"} : SetTop(at) => handlers' = <<[h EXCEPT !.at = at]>>
           /\ SubSeq(handlers, 1, Len(handlers) - 1) = <<>>
<1>1. Top = h /\ handlers # <<>> /\ Len(handlers) = 1
  BY DEF Top
<1>2. ASSUME NEW at \in {"eoi", "iret"}, SetTop(at)
      PROVE  handlers' = <<[h EXCEPT !.at = at]>>
  BY <1>1, <1>2 DEF SetTop
<1> QED BY <1>1, <1>2

(* A record of a handler after SetTop. *)
LEMMA FrameAt ==
    ASSUME NEW h \in Frame, NEW at \in {"eoi", "iret"}
    PROVE  /\ [h EXCEPT !.at = at] \in Frame
           /\ [h EXCEPT !.at = at].line = h.line
           /\ [h EXCEPT !.at = at].at = at
BY DEF Frame

(* The sources of interrupts are lines of one of the two controllers. *)
LEMMA SourcesAre ==
    /\ \A l \in Sources : l \in Int /\ (l \in Slave => l >= 8) /\ (l \notin Slave => l \in Master)
    /\ Lines \subseteq Sources /\ KEYBOARD \in Lines /\ TIMER \in Lines
    /\ Empty \notin Scancodes
BY PicAssumption, InterruptsAssumption
   DEF Sources, Master, Slave, SPURIOUS, KEYBOARD, TIMER, Empty

(* The EOI, or EOIs, for a line complete its interrupt and nothing else.   *)
LEMMA EoiCompletes ==
    ASSUME NEW l \in Sources, isr \in {{}, InService(l)}
    PROVE  after_eoi(isr, l) = {}
<1>1. CASE isr = {}
  BY <1>1 DEF after_eoi, Highest
<1>2. CASE isr = InService(l) /\ l \in Slave
  <2>1. l \in Int /\ l >= 8 /\ l \notin Master /\ CASCADE \in Master /\ CASCADE \notin Slave
    BY <1>2, SourcesAre DEF Master, Slave, CASCADE
  <2>2. isr = {l, CASCADE}
    BY <1>2 DEF InService, MasterLine
  <2>3. isr \cap Slave = {l} /\ isr \cap Master = {CASCADE}
    BY <1>2, <2>1, <2>2
  <2>4. Highest({l}) = {l} /\ Highest({CASCADE}) = {CASCADE}
    BY <2>1 DEF Highest, CASCADE
  <2> QED BY <2>1, <2>2, <2>3, <2>4 DEF after_eoi
<1>3. CASE isr = InService(l) /\ l \notin Slave
  <2>1. l \in Int /\ l \in Master
    BY <1>3, SourcesAre
  <2>2. isr = {l} /\ isr \cap Master = {l}
    BY <1>3, <2>1 DEF InService, MasterLine
  <2>3. Highest({l}) = {l}
    BY <2>1 DEF Highest
  <2> QED BY <2>2, <2>3 DEF after_eoi
<1> QED BY <1>1, <1>2, <1>3

(* The invariant starts out true. *)
LEMMA IntrInit == Init => IntrInv
<1> SUFFICES ASSUME Init
             PROVE  IntrInv
  OBVIOUS
<1>1. handlers = <<>> /\ irr = {} /\ isr = {} /\ port = Empty /\ iflag = TRUE /\ pc # "panic"
  BY DEF Init, PicInit
<1>2. \A h \in Frame : handlers # <<h>>
  BY <1>1
<1>3. OneHandler /\ Served
  BY <1>1, <1>2 DEF OneHandler, Served
<1>4. ScancodeOnce
  BY <1>1, <1>2 DEF ScancodeOnce, Unanswered
<1> QED BY <1>3, <1>4 DEF IntrInv

(* An interrupt is entered. *)
LEMMA EnterKeeps ==
    ASSUME IntrInv, NEW l \in Sources, Enter(l), isr' \in {{}, InService(l)}
    PROVE  /\ OneHandler' /\ Served' /\ ~ Unanswered
           /\ Unanswered' <=> l = KEYBOARD
<1> DEFINE h == [line |-> l, at |-> "body"]
<1>1. handlers = <<>> /\ pc # "panic" /\ isr = {}
  BY DEF IntrInv, OneHandler, Served, Enter
<1>2. h \in Frame /\ h.line = l /\ h.at = "body"
  BY DEF Frame
<1>3. handlers' = <<h>>
  BY <1>1 DEF Enter
<1>4. iflag' = FALSE /\ pc' # "panic"
  BY <1>1 DEF Enter, GateIF, Wake
<1>5. handlers' # <<>> /\ \A g \in Frame : handlers' = <<g>> => g = h
  BY <1>3
<1> HIDE DEF h
<1>6. OneHandler'
  BY <1>2, <1>3, <1>4, <1>5 DEF OneHandler, Frame, Sources
<1>7. Served'
  BY <1>2, <1>5 DEF Served, Frame, Sources, InService, MasterLine
<1>8. ~ Unanswered
  BY <1>1 DEF Unanswered
<1>9. Unanswered' <=> l = KEYBOARD
  BY <1>2, <1>3, <1>5 DEF Unanswered, Frame, Sources
<1> QED BY <1>6, <1>7, <1>8, <1>9

(* An interrupt is taken. *)
LEMMA TakeKeeps ==
    ASSUME IntrInv, Take
    PROVE  IntrInv'
<1>1. ASSUME NEW l \in Lines, TakeInterrupt(l)
      PROVE  IntrInv'
  <2>1. isr = {} /\ Enter(l) /\ l \in Sources
    BY <1>1, SourcesAre DEF IntrInv, OneHandler, Served, TakeInterrupt, Enter
  <2>2. isr' = InService(l) /\ irr' = irr \ {l} /\ port' = port /\ l \in irr
    BY <1>1, <2>1 DEF TakeInterrupt, Acknowledge, Selected, Eligible, device_vars
  <2>3. /\ OneHandler' /\ Served' /\ ~ Unanswered
        /\ Unanswered' <=> l = KEYBOARD
    BY <2>1, <2>2, EnterKeeps
  <2>4. ScancodeOnce'
    BY <2>2, <2>3 DEF IntrInv, ScancodeOnce
  <2> QED BY <2>3, <2>4 DEF IntrInv
<1>2. CASE TakeSpurious
  <2>1. isr = {} /\ Enter(SPURIOUS) /\ SPURIOUS \in Sources /\ SPURIOUS # KEYBOARD
    <3>1. SPURIOUS \in Sources /\ SPURIOUS # KEYBOARD
      BY DEF Sources, SPURIOUS, KEYBOARD
    <3>2. Enter(SPURIOUS) /\ iflag
      BY <1>2 DEF TakeSpurious, Enter
    <3> QED BY <3>1, <3>2 DEF IntrInv, OneHandler, Served
  <2>2. isr' = {} /\ irr' = irr /\ port' = port
    BY <1>2, <2>1 DEF TakeSpurious, pic_vars
  <2>3. /\ OneHandler' /\ Served' /\ ~ Unanswered
        /\ Unanswered' <=> SPURIOUS = KEYBOARD
    BY <2>1, <2>2, EnterKeeps
  <2>4. ScancodeOnce'
    BY <2>1, <2>2, <2>3 DEF IntrInv, ScancodeOnce
  <2> QED BY <2>3, <2>4 DEF IntrInv
<1> QED BY <1>1, <1>2 DEF Take

(* A handler goes on to its next step. *)
LEMMA SetTopKeeps ==
    ASSUME IntrInv, handlers # <<>>, NEW at \in {"eoi", "iret"}, SetTop(at),
           UNCHANGED <<iflag, pc>>,
           isr' \in IF at = "iret" THEN {{}} ELSE {{}, InService(Top.line)}
    PROVE  OneHandler' /\ Served' /\ ~ Unanswered'
<1>1. PICK h \in Frame : handlers = <<h>>
  BY DEF IntrInv, OneHandler
<1> DEFINE g == [h EXCEPT !.at = at]
<1>2. Top = h /\ handlers' = <<g>>
  BY <1>1, TopIs
<1>3. g \in Frame /\ g.line = h.line /\ g.at = at
  BY FrameAt
<1> HIDE DEF g
<1>4. handlers' # <<>> /\ \A k \in Frame : handlers' = <<k>> => k = g
  BY <1>2
<1>5. iflag' = FALSE /\ pc' # "panic"
  BY DEF IntrInv, OneHandler
<1>6. OneHandler'
  BY <1>2, <1>3, <1>4, <1>5 DEF OneHandler, Frame, Sources
<1>7. Served'
  BY <1>2, <1>3, <1>4 DEF Served, Frame, Sources, InService, MasterLine
<1>8. ~ Unanswered'
  BY <1>3, <1>4 DEF Unanswered, Frame, Sources
<1> QED BY <1>6, <1>7, <1>8

(* The bodies of isr_handler, its EOI, and the return. *)
LEMMA HandlerKeeps ==
    ASSUME IntrInv, Handler
    PROVE  IntrInv'
<1>1. PICK h \in Frame : handlers = <<h>>
  BY DEF Handler, Dispatch, EndOfInterrupt, Return, IntrInv, OneHandler
<1>2. /\ Top = h /\ handlers # <<>> /\ h.line \in Sources
      /\ SubSeq(handlers, 1, Len(handlers) - 1) = <<>>
  BY <1>1, TopIs DEF Frame
<1>3. isr \in IF h.at = "iret" THEN {{}} ELSE {{}, InService(h.line)}
  BY <1>1 DEF IntrInv, Served
<1>4. Unanswered <=> h.line = KEYBOARD /\ h.at = "body"
  BY <1>1 DEF Unanswered
<1>5. CASE Dispatch
  <2>1. h.at = "body" /\ SetTop("eoi") /\ UNCHANGED <<iflag, pc>> /\ isr \in {{}, InService(h.line)}
    BY <1>2, <1>3, <1>5 DEF Dispatch
  <2>2. irr' = irr /\ isr' \in {{}, InService(h.line)}
        /\ port' = IF h.line = KEYBOARD THEN Empty ELSE port
    <3>1. CASE DispatchKeyboard
      <4>1. h.line = KEYBOARD /\ isr' = after_eoi(isr, KEYBOARD) /\ irr' = irr /\ port' = Empty
        BY <1>2, <3>1 DEF DispatchKeyboard, keyboard_irq_handler, pic_send_eoi
      <4> QED BY <1>2, <2>1, <4>1, EoiCompletes
    <3>2. CASE DispatchTimer
      BY <1>2, <2>1, <3>2 DEF DispatchTimer, pic_vars, TIMER, KEYBOARD
    <3>3. CASE DispatchOther
      BY <1>2, <2>1, <3>3 DEF DispatchOther, pic_vars
    <3> QED BY <1>5, <3>1, <3>2, <3>3 DEF Dispatch
  <2>3. OneHandler' /\ Served' /\ ~ Unanswered'
    BY <1>2, <2>1, <2>2, SetTopKeeps
  <2>4. ScancodeOnce'
    BY <1>4, <2>1, <2>2, <2>3 DEF IntrInv, ScancodeOnce
  <2> QED BY <2>3, <2>4 DEF IntrInv
<1>6. CASE EndOfInterrupt
  <2>1. /\ h.at = "eoi" /\ SetTop("iret") /\ UNCHANGED <<iflag, pc>>
        /\ isr' = after_eoi(isr, h.line) /\ irr' = irr /\ port' = port
    BY <1>2, <1>6 DEF EndOfInterrupt, pic_send_eoi, device_vars
  <2>2. isr' = {}
    BY <1>2, <1>3, <2>1, EoiCompletes
  <2>3. OneHandler' /\ Served' /\ ~ Unanswered'
    BY <1>2, <2>1, <2>2, SetTopKeeps
  <2>4. ScancodeOnce'
    BY <1>4, <2>1, <2>3 DEF IntrInv, ScancodeOnce
  <2> QED BY <2>3, <2>4 DEF IntrInv
<1>7. CASE Return
  <2>1. /\ h.at = "iret" /\ handlers' = <<>> /\ iflag' = TRUE
        /\ UNCHANGED <<pc, irr, isr, port>>
    BY <1>2, <1>7 DEF Return, pic_vars, device_vars
  <2>2. isr = {} /\ pc # "panic" /\ ~ Unanswered
    BY <1>2, <1>3, <1>4, <2>1 DEF IntrInv, OneHandler
  <2>3. ~ Unanswered'
    BY <2>1 DEF Unanswered, Frame
  <2>4. OneHandler' /\ Served'
    BY <2>1, <2>2 DEF OneHandler, Served, Frame
  <2> QED BY <2>1, <2>2, <2>3, <2>4 DEF IntrInv, ScancodeOnce
<1> QED BY <1>5, <1>6, <1>7 DEF Handler

(* The main program only runs outside handlers, and a device only adds to  *)
(* the requests.                                                           *)
LEMMA QuietKeeps ==
    ASSUME IntrInv, UNCHANGED <<handlers, isr>>,
           iflag' = (handlers = <<>> /\ pc' # "panic"), pc' = "panic" => handlers = <<>>
    PROVE  OneHandler' /\ Served' /\ Unanswered' = Unanswered
<1>1. OneHandler'
  BY DEF IntrInv, OneHandler, Frame, Sources
<1>2. Served'
  BY DEF IntrInv, Served, Frame, Sources, InService, MasterLine
<1>3. Unanswered' = Unanswered
  BY DEF Unanswered, Frame, Sources
<1> QED BY <1>1, <1>2, <1>3

(* A device raises its line. *)
LEMMA DeviceKeeps ==
    ASSUME IntrInv,
           (\E l \in Lines : DeviceFires(l)) \/ (\E s \in Scancodes : KeyPress(s))
    PROVE  IntrInv'
<1>1. UNCHANGED <<handlers, isr, iflag, pc>>
  BY DEF DeviceFires, KeyPress, Device, Raise, cpu_vars
<1>2. OneHandler' /\ Served' /\ Unanswered' = Unanswered
  BY <1>1, QuietKeeps DEF IntrInv, OneHandler
<1>3. ASSUME NEW l \in Lines, DeviceFires(l)
      PROVE  ScancodeOnce'
  <2>1. irr' = irr \cup {l} /\ l # KEYBOARD /\ port' = port
    BY <1>3 DEF DeviceFires, Device, Raise
  <2> QED BY <1>2, <2>1 DEF IntrInv, ScancodeOnce
<1>4. ASSUME NEW s \in Scancodes, KeyPress(s)
      PROVE  ScancodeOnce'
  <2>1. irr' = irr \cup {KEYBOARD} /\ port = Empty /\ port' = s
    BY <1>4 DEF KeyPress, Device, Raise
  <2> QED BY <1>2, <2>1, SourcesAre DEF IntrInv, ScancodeOnce
<1> QED BY <1>2, <1>3, <1>4 DEF IntrInv

(* The main program. *)
LEMMA MainKeeps ==
    ASSUME IntrInv, Main
    PROVE  IntrInv'
<1>1. /\ UNCHANGED <<handlers, irr, isr, port>> /\ handlers = <<>>
      /\ pc # "panic"
      /\ \/ UNCHANGED iflag /\ pc' # "panic"
         \/ iflag' = FALSE /\ pc' = "panic"
  BY DEF Main, BootSleep, BootDone, SleepAgain, SleepReturns, SleepHalts, PollInput,
         PollEmpty, LoopHalts, GetcharNothing, GetcharRead, GetcharMove, ProcessChar,
         CommandSleeps, CommandPanics, Halt, MainStep, AfterSleep, pic_vars
<1>2. OneHandler' /\ Served' /\ Unanswered' = Unanswered
  BY <1>1, QuietKeeps DEF IntrInv, OneHandler
<1> QED BY <1>1, <1>2 DEF IntrInv, ScancodeOnce

(* The inductive invariant of interrupt handling: one handler at a time,   *)
(* with only its own line in service, and a scancode in the port exactly   *)
(* while its interrupt is on the way.                                      *)
THEOREM InterruptInvariant == Spec => []IntrInv
<1>1. IntrInv /\ [Next]_vars => IntrInv'
  <2> SUFFICES ASSUME IntrInv, [Next]_vars
               PROVE  IntrInv'
    OBVIOUS
  <2>1. CASE UNCHANGED vars
    <3>1. UNCHANGED <<handlers, irr, isr, iflag, pc, port>>
      BY <2>1 DEF vars, pic_vars, cpu_vars, device_vars
    <3>2. OneHandler' /\ Served' /\ Unanswered' = Unanswered
      BY <3>1, QuietKeeps DEF IntrInv, OneHandler
    <3> QED BY <3>1, <3>2 DEF IntrInv, ScancodeOnce
  <2> QED BY <2>1, DeviceKeeps, TakeKeeps, HandlerKeeps, MainKeeps DEF Next
<1> QED BY <1>1, IntrInit, PTL DEF Spec

(* Handlers do not nest, and no EOI completes another device's interrupt   *)
(* or leaves one blocked, whatever lines the machine has.                  *)
THEOREM InterruptsInService == Spec => []InServiceMatches
<1>1. IntrInv => InServiceMatches
  <2> SUFFICES ASSUME IntrInv
               PROVE  InServiceMatches
    OBVIOUS
  <2>1. CASE handlers = <<>>
    BY <2>1 DEF IntrInv, Served, InServiceMatches
  <2>2. ASSUME NEW h \in Frame, handlers = <<h>>
        PROVE  InServiceMatches
    <3>1. Top = h /\ handlers # <<>> /\ Len(handlers) = 1
      BY <2>2, TopIs
    <3>2. isr \in IF h.at = "iret" THEN {{}} ELSE {{}, InService(h.line)}
      BY <2>2 DEF IntrInv, Served
    <3> QED BY <3>1, <3>2 DEF InServiceMatches
  <2> QED BY <2>1, <2>2 DEF IntrInv, OneHandler
<1> QED BY <1>1, InterruptInvariant, PTL

(* No handler reads an empty port, and no scancode waits for an interrupt  *)
(* that will not come.                                                     *)
THEOREM ScancodesAnswered == Spec => []ScancodeHasInterrupt
<1>1. IntrInv => ScancodeHasInterrupt
  <2> SUFFICES ASSUME IntrInv
               PROVE  ScancodeHasInterrupt
    OBVIOUS
  <2>1. Unanswered <=> \E i \in DOMAIN handlers :
           handlers[i].line = KEYBOARD /\ handlers[i].at = "body"
    <3>1. CASE handlers = <<>>
      BY <3>1 DEF Unanswered
    <3>2. ASSUME NEW h \in Frame, handlers = <<h>>
          PROVE  Unanswered <=> \E i \in DOMAIN handlers :
                    handlers[i].line = KEYBOARD /\ handlers[i].at = "body"
      <4>1. DOMAIN handlers = {1} /\ handlers[1] = h
        BY <3>2
      <4> QED BY <3>2, <4>1 DEF Unanswered
    <3> QED BY <3>1, <3>2 DEF IntrInv, OneHandler
  <2> QED BY <2>1 DEF IntrInv, ScancodeOnce, ScancodeHasInterrupt
<1> QED BY <1>1, InterruptInvariant, PTL
-----------------------------------------------------------------------------
(* Time. *)

(* An index that moves by less than one round wraps at most once, in       *)
(* either direction.                                                       *)
LEMMA ModWindow ==
    ASSUME NEW m \in Nat \ {0}, NEW x \in -m .. 2 * m - 1
    PROVE  x % m = IF x < 0 THEN x + m ELSE IF x < m THEN x ELSE x - m
<1>1. CASE x < 0
  BY <1>1
<1>2. CASE 0 <= x /\ x < m
  BY <1>2
<1>3. CASE m <= x
  BY <1>3
<1> QED BY <1>1, <1>2, <1>3

ClockTypeOK ==
    /\ ticks \in 0 .. TICK_MOD - 1
    /\ seconds \in 0 .. SECOND_MOD - 1
    /\ start \in 0 .. TICK_MOD - 1
    /\ wait_ticks \in 0 .. TICK_MOD - 1
    /\ slept \in 0 .. wait_ticks
    /\ uptime \in Nat
    /\ wrapped \in BOOLEAN
    /\ todo \in Seq(0 .. TICK_MOD - 1)

\* What sleep computes from the counter is the time that has passed, until
\* that is long enough.
SleepMeasured ==
    slept < wait_ticks => (ticks - start) % TICK_MOD = slept

\* Until ticks wraps, seconds and the rest of ticks tell the time to the
\* tick.
TimeExact ==
    ~ wrapped => \E q \in Nat, r \in 0 .. TPS - 1 :
        ticks = TPS * q + r /\ uptime = TPS * seconds + r

ClockInv == ClockTypeOK /\ SleepMeasured /\ TimeExact

(* The next value of the tick counter, and how far it is from start. *)
LEMMA TickIs ==
    ASSUME ClockTypeOK
    PROVE  /\ NextTick = IF ticks = TICK_MOD - 1 THEN 0 ELSE ticks + 1
           /\ NextTick \in 0 .. TICK_MOD - 1
<1>1. TICK_MOD \in Nat \ {0} /\ ticks \in 0 .. TICK_MOD - 1
  BY ClockAssumption DEF ClockTypeOK
<1>2. PICK x \in -TICK_MOD .. 2 * TICK_MOD - 1 : x = ticks + 1
  BY <1>1
<1>3. x % TICK_MOD = IF x < 0 THEN x + TICK_MOD ELSE IF x < TICK_MOD THEN x ELSE x - TICK_MOD
  BY <1>1, ModWindow
<1> QED BY <1>1, <1>2, <1>3 DEF NextTick

(* The distance of two counter values. *)
LEMMA DistanceIs ==
    ASSUME NEW t \in 0 .. TICK_MOD - 1, NEW s \in 0 .. TICK_MOD - 1
    PROVE  (t - s) % TICK_MOD = IF t < s THEN t - s + TICK_MOD ELSE t - s
<1>1. TICK_MOD \in Nat \ {0}
  BY ClockAssumption
<1>2. PICK x \in -TICK_MOD .. 2 * TICK_MOD - 1 : x = t - s
  BY <1>1
<1>3. x % TICK_MOD = IF x < 0 THEN x + TICK_MOD ELSE IF x < TICK_MOD THEN x ELSE x - TICK_MOD
  BY <1>1, ModWindow
<1> QED BY <1>1, <1>2, <1>3

(* Seconds and ticks in a number of ticks. *)
LEMMA SplitTime ==
    ASSUME NEW m \in Nat \ {0}, NEW q \in Nat, NEW r \in 0 .. m - 1
    PROVE  (m * q + r) \div m = q /\ (m * q + r) % m = r
<1>1. (m * q + r) \div m = q
  OBVIOUS
<1>2. (m * q + r) % m = r
  OBVIOUS
<1> QED BY <1>1, <1>2

(* One more tick: the rest grows, or becomes 0 with the next second. *)
LEMMA NextRest ==
    ASSUME NEW m \in Nat \ {0}, NEW q \in Nat, NEW r \in 0 .. m - 1
    PROVE  /\ r < m - 1 => m * q + r + 1 = m * q + (r + 1) /\ (m * q + r + 1) % m = r + 1
           /\ r = m - 1 => m * q + r + 1 = m * (q + 1) + 0 /\ (m * q + r + 1) % m = 0
<1>1. CASE r < m - 1
  <2>1. PICK k \in 0 .. m - 1 : k = r + 1
    BY <1>1
  <2>2. (m * q + k) % m = k
    BY SplitTime
  <2>3. m * q \in Int
    OBVIOUS
  <2>4. m * q + r + 1 = m * q + k
    BY <2>1, <2>3
  <2> QED BY <1>1, <2>1, <2>2, <2>4
<1>2. CASE r = m - 1
  <2>1. PICK k \in Nat : k = q + 1
    OBVIOUS
  <2>2. (m * k + 0) % m = 0
    BY SplitTime
  <2>3. m * q + r + 1 = m * k + 0
    BY <1>2, <2>1
  <2> QED BY <1>2, <2>1, <2>2, <2>3
<1> QED BY <1>1, <1>2

(* The invariant of the clock starts out true. *)
LEMMA ClockStart == Init => ClockInv
<1> SUFFICES ASSUME Init
             PROVE  ClockInv
  OBVIOUS
<1>1. /\ ticks = 0 /\ seconds = 0 /\ start = 0 /\ wait_ticks = 0 /\ slept = 0
      /\ uptime = 0 /\ wrapped = FALSE /\ todo = BootSleeps
  BY DEF Init, ClockInit
<1>2. ClockTypeOK
  <2>1. 0 \in 0 .. TICK_MOD - 1 /\ 0 \in 0 .. SECOND_MOD - 1 /\ 0 \in 0 .. 0 /\ 0 \in Nat
    BY ClockAssumption
  <2>2. todo \in Seq(0 .. TICK_MOD - 1)
    BY <1>1, InterruptsAssumption
  <2> QED BY <1>1, <2>1, <2>2, Zenon DEF ClockTypeOK
<1>3. SleepMeasured
  BY <1>1 DEF SleepMeasured
<1>4. 0 = TPS * 0 + 0 /\ 0 \in Nat /\ 0 \in 0 .. TPS - 1
  BY ClockAssumption
<1>5. TimeExact
  BY <1>1, <1>4 DEF TimeExact
<1> QED BY <1>2, <1>3, <1>5 DEF ClockInv

(* The timer interrupt. *)
LEMMA TickKeeps ==
    ASSUME ClockInv, timer_tick, UNCHANGED todo
    PROVE  ClockInv'
<1>1. /\ TICK_MOD \in Nat \ {0} /\ SECOND_MOD \in Nat \ {0} /\ TPS \in Nat \ {0}
      /\ ticks \in 0 .. TICK_MOD - 1 /\ seconds \in 0 .. SECOND_MOD - 1
      /\ start \in 0 .. TICK_MOD - 1 /\ wait_ticks \in 0 .. TICK_MOD - 1
      /\ slept \in 0 .. wait_ticks /\ uptime \in Nat
  BY ClockAssumption DEF ClockInv, ClockTypeOK
<1>2. /\ ticks' = IF ticks = TICK_MOD - 1 THEN 0 ELSE ticks + 1
      /\ ticks' \in 0 .. TICK_MOD - 1
      /\ NextTick = ticks'
  BY TickIs DEF ClockInv, timer_tick
<1>3. PICK next \in 0 .. SECOND_MOD - 1 :
         /\ next = (seconds + 1) % SECOND_MOD
         /\ next = IF seconds = SECOND_MOD - 1 THEN 0 ELSE seconds + 1
  <2>1. PICK x \in -SECOND_MOD .. 2 * SECOND_MOD - 1 : x = seconds + 1
    BY <1>1
  <2>2. x % SECOND_MOD = IF x < 0 THEN x + SECOND_MOD
                         ELSE IF x < SECOND_MOD THEN x ELSE x - SECOND_MOD
    BY <1>1, ModWindow
  <2> QED BY <1>1, <2>1, <2>2
<1>4. seconds' = IF ticks' % TPS = 0 THEN next ELSE seconds
  BY <1>2, <1>3 DEF timer_tick, NextSecond
<1>5. PICK round \in Nat \ {0} : round = TPS * SECOND_MOD
  BY <1>1
<1>6. uptime' = (uptime + 1) % round /\ uptime' \in Nat
  BY <1>1, <1>5 DEF timer_tick
<1>7. ClockTypeOK'
  BY <1>1, <1>2, <1>3, <1>4, <1>6 DEF ClockInv, ClockTypeOK, timer_tick
<1>8. SleepMeasured'
  <2> SUFFICES ASSUME slept' < wait_ticks'
               PROVE  (ticks' - start') % TICK_MOD = slept'
    BY DEF SleepMeasured
  <2>1. slept < wait_ticks /\ slept' = slept + 1 /\ slept + 1 < wait_ticks /\ start' = start
    BY <1>1 DEF timer_tick
  <2>2. slept = IF ticks < start THEN ticks - start + TICK_MOD ELSE ticks - start
    BY <1>1, <2>1, DistanceIs DEF ClockInv, SleepMeasured
  <2>3. (ticks' - start) % TICK_MOD = IF ticks' < start THEN ticks' - start + TICK_MOD ELSE ticks' - start
    BY <1>1, <1>2, DistanceIs
  <2> QED BY <1>1, <1>2, <2>1, <2>2, <2>3
<1>9. TimeExact'
  <2> SUFFICES ASSUME ~ wrapped'
               PROVE  \E q \in Nat, r \in 0 .. TPS - 1 :
                         ticks' = TPS * q + r /\ uptime' = TPS * seconds' + r
    BY DEF TimeExact
  <2>1. ~ wrapped /\ ticks' = ticks + 1
    BY <1>1, <1>2 DEF timer_tick
  <2>2. PICK q \in Nat, r \in 0 .. TPS - 1 :
           ticks = TPS * q + r /\ uptime = TPS * seconds + r
    BY <2>1 DEF ClockInv, TimeExact
  <2>3. PICK past \in Nat : past = TPS * seconds
    BY <1>1
  <2>4. past + TPS <= round /\ (seconds = SECOND_MOD - 1 <=> past + TPS = round)
    BY <1>1, <1>5, <2>3
  <2>5. CASE r < TPS - 1
    <3>1. ticks' = TPS * q + (r + 1) /\ ticks' % TPS = r + 1 /\ r + 1 \in 0 .. TPS - 1
      BY <1>1, <2>1, <2>2, <2>5, NextRest
    <3>2. seconds' = seconds
      BY <1>1, <1>4, <3>1
    <3>3. uptime' = past + (r + 1)
      BY <1>1, <1>5, <1>6, <2>2, <2>3, <2>4, <2>5
    <3> QED BY <2>3, <3>1, <3>2, <3>3
  <2>6. CASE r = TPS - 1
    <3>1. ticks' = TPS * (q + 1) + 0 /\ ticks' % TPS = 0 /\ q + 1 \in Nat /\ 0 \in 0 .. TPS - 1
      BY <1>1, <2>1, <2>2, <2>6, NextRest
    <3>2. seconds' = next
      BY <1>4, <3>1
    <3>3. uptime + 1 = past + TPS
      BY <1>1, <2>2, <2>3, <2>6
    <3>4. uptime' = TPS * next + 0
      <4>1. CASE seconds = SECOND_MOD - 1
        BY <1>1, <1>3, <1>5, <1>6, <2>4, <3>3, <4>1
      <4>2. CASE seconds # SECOND_MOD - 1
        <5>1. past + TPS < round /\ next = seconds + 1 /\ TPS * next = past + TPS
          BY <1>1, <1>3, <2>3, <2>4, <4>2
        <5> QED BY <1>1, <1>5, <1>6, <2>3, <3>3, <5>1
      <4> QED BY <4>1, <4>2
    <3> QED BY <3>1, <3>2, <3>4
  <2> QED BY <1>1, <2>5, <2>6
<1> QED BY <1>7, <1>8, <1>9 DEF ClockInv

(* The call of sleep and its return. *)
LEMMA SleepKeeps ==
    ASSUME ClockInv, todo' \in Seq(0 .. TICK_MOD - 1),
           (\E w \in 0 .. TICK_MOD - 1 : BeginSleep(w)) \/ EndSleep
    PROVE  ClockInv'
<1>1. TICK_MOD \in Nat \ {0} /\ ticks \in 0 .. TICK_MOD - 1
  BY ClockAssumption DEF ClockInv, ClockTypeOK
<1>2. /\ UNCHANGED <<ticks, seconds, uptime, wrapped>> /\ slept' = 0
      /\ start' \in 0 .. TICK_MOD - 1 /\ wait_ticks' \in 0 .. TICK_MOD - 1
      /\ start' = ticks \/ wait_ticks' = 0
  BY <1>1 DEF BeginSleep, EndSleep
<1>3. ClockTypeOK'
  BY <1>1, <1>2 DEF ClockInv, ClockTypeOK
<1>4. (ticks - ticks) % TICK_MOD = 0
  BY <1>1, DistanceIs
<1>5. SleepMeasured'
  <2>1. CASE start' = ticks
    BY <1>2, <1>4, <2>1 DEF SleepMeasured
  <2>2. CASE wait_ticks' = 0
    BY <1>2, <2>2 DEF SleepMeasured
  <2> QED BY <1>2, <2>1, <2>2
<1>6. TimeExact'
  BY <1>2 DEF ClockInv, TimeExact
<1> QED BY <1>3, <1>5, <1>6 DEF ClockInv

(* Every other step leaves the clock alone. *)
LEMMA ClockUnchanged ==
    ASSUME ClockInv, UNCHANGED <<clock_vars, todo>>
    PROVE  ClockInv'
BY DEF ClockInv, ClockTypeOK, SleepMeasured, TimeExact, clock_vars

(* The inductive invariant of the clock: a running sleep measures the      *)
(* ticks since its call, and the two counters agree on the time.           *)
THEOREM ClockInvariant == Spec => []ClockInv
<1>1. ClockInv /\ [Next]_vars => ClockInv'
  <2> SUFFICES ASSUME ClockInv, [Next]_vars
               PROVE  ClockInv'
    OBVIOUS
  <2>1. todo \in Seq(0 .. TICK_MOD - 1)
    BY DEF ClockInv, ClockTypeOK
  <2>2. CASE BootSleep
    <3> DEFINE D == 0 .. TICK_MOD - 1
    <3>1. Head(todo) \in D /\ Tail(todo) \in Seq(D)
      <4>1. todo \in Seq(D) /\ todo # <<>>
        BY <2>1, <2>2 DEF BootSleep
      <4> HIDE DEF D
      <4> QED BY <4>1
    <3> QED BY <2>2, <3>1, SleepKeeps DEF BootSleep
  <2>3. CASE CommandSleeps
    BY <2>1, <2>3, SleepKeeps, InterruptsAssumption DEF CommandSleeps
  <2>4. CASE SleepReturns
    BY <2>1, <2>4, SleepKeeps DEF SleepReturns
  <2>5. CASE Dispatch
    <3>1. CASE DispatchTimer
      BY <2>5, <3>1, TickKeeps DEF Dispatch, DispatchTimer
    <3>2. CASE DispatchKeyboard \/ DispatchOther
      BY <2>5, <3>2, ClockUnchanged DEF Dispatch, DispatchKeyboard, DispatchOther
    <3> QED BY <2>5, <3>1, <3>2 DEF Dispatch
  <2>6. CASE \/ \E l \in Lines : DeviceFires(l) \/ TakeInterrupt(l)
             \/ \E s \in Scancodes : KeyPress(s)
             \/ TakeSpurious \/ EndOfInterrupt \/ Return
    <3>1. UNCHANGED <<clock_vars, todo>>
      BY <2>6 DEF DeviceFires, KeyPress, Device, TakeInterrupt, TakeSpurious, Enter,
                  EndOfInterrupt, Return, cpu_vars
    <3> QED BY <3>1, ClockUnchanged
  <2>7. CASE \/ BootDone \/ SleepAgain \/ SleepHalts \/ PollInput \/ PollEmpty
             \/ LoopHalts \/ GetcharNothing \/ GetcharRead \/ GetcharMove
             \/ ProcessChar \/ CommandPanics
    <3>1. UNCHANGED <<clock_vars, todo>>
      BY <2>7 DEF BootDone, SleepAgain, SleepHalts, PollInput, PollEmpty, LoopHalts,
                  GetcharNothing, GetcharRead, GetcharMove, ProcessChar, CommandPanics, Halt
    <3> QED BY <3>1, ClockUnchanged
  <2>8. CASE UNCHANGED vars
    BY <2>8, ClockUnchanged DEF vars, cpu_vars
  <2> QED BY <2>2, <2>3, <2>4, <2>5, <2>6, <2>7, <2>8 DEF Next, Take, Handler, Main
<1> QED BY <1>1, ClockStart, PTL DEF Spec

(* The seconds since boot are exact until the tick counter wraps, for      *)
(* every width of the counters.                                            *)
THEOREM UptimeIsExact == Spec => []UptimeExact
<1>1. ClockInv => UptimeExact
  <2> SUFFICES ASSUME ClockInv, ~ wrapped
               PROVE  seconds = uptime \div TPS
    BY DEF UptimeExact
  <2>1. PICK r \in 0 .. TPS - 1 : uptime = TPS * seconds + r
    BY DEF ClockInv, TimeExact
  <2>2. TPS \in Nat \ {0} /\ seconds \in Nat
    BY ClockAssumption DEF ClockInv, ClockTypeOK
  <2> QED BY <2>1, <2>2, SplitTime
<1> QED BY <1>1, ClockInvariant, PTL

(* sleep never returns before its time, for every length that fits the     *)
(* counter and although the counter wraps around.                          *)
THEOREM SleepIsNotEarly == Spec => SleepNotEarly
<1>1. ClockInv /\ [Next]_vars =>
         [pc = "sleep" /\ pc' \notin {"sleep", "sleep_hlt"} => slept >= wait_ticks]_vars
  <2> SUFFICES ASSUME ClockInv, Next, pc = "sleep", pc' \notin {"sleep", "sleep_hlt"}
               PROVE  slept >= wait_ticks
    OBVIOUS
  <2>1. SleepReturns
    <3>1. Main
      BY DEF Next, Take, Handler, DeviceFires, KeyPress, Device, TakeInterrupt, TakeSpurious,
             Enter, Wake, Dispatch, EndOfInterrupt, Return, cpu_vars
    <3> QED BY <3>1 DEF Main, BootSleep, BootDone, SleepAgain, SleepHalts, PollInput,
                  PollEmpty, LoopHalts, GetcharNothing, GetcharRead, GetcharMove, ProcessChar,
                  CommandSleeps, CommandPanics, Halt, MainStep
  <2>2. ~ ((ticks - start) % TICK_MOD < wait_ticks)
    BY <2>1 DEF SleepReturns, StillWaiting
  <2>3. slept \in Int /\ wait_ticks \in Int
    BY ClockAssumption DEF ClockInv, ClockTypeOK
  <2> QED BY <2>2, <2>3 DEF ClockInv, SleepMeasured
<1> QED BY <1>1, ClockInvariant, PTL DEF Spec, SleepNotEarly
-----------------------------------------------------------------------------
(* The keyboard buffer under interrupts. *)

(* The handler stores in the ring what keymap gives for a scancode that    *)
(* came, or leaves the ring alone.                                         *)
LEMMA DispatchUsesRing ==
    ASSUME IntrInv, Dispatch
    PROVE  UNCHANGED kbd_vars \/ \E ch \in Char : StoreChar(ch)
<1>1. CASE DispatchKeyboard
  <2>1. PICK h \in Frame : handlers = <<h>>
    BY DEF Dispatch, IntrInv, OneHandler
  <2>2. h.line = KEYBOARD /\ h.at = "body"
    BY <1>1, <2>1, TopIs DEF Dispatch, DispatchKeyboard
  <2>3. port \in Scancodes
    BY <2>1, <2>2 DEF IntrInv, ScancodeOnce, Unanswered
  <2>4. keymap[port] \in Char \cup {NUL}
    BY <2>3, InterruptsAssumption
  <2>5. \/ keymap[port] # NUL /\ StoreChar(keymap[port])
        \/ UNCHANGED kbd_vars
    BY <1>1 DEF DispatchKeyboard, keyboard_irq_handler
  <2> QED BY <2>4, <2>5
<1>2. CASE DispatchTimer \/ DispatchOther
  BY <1>2 DEF DispatchTimer, DispatchOther
<1> QED BY <1>1, <1>2 DEF Dispatch

(* Every step of the kernel is a step of the ring, or leaves it alone.     *)
LEMMA KernelUsesRing ==
    ASSUME IntrInv, [Next]_vars
    PROVE  [KeyboardNext]_kbd_vars
<1>1. CASE Dispatch
  BY <1>1, DispatchUsesRing DEF KeyboardNext
<1>2. CASE PollInput \/ PollEmpty \/ GetcharNothing \/ GetcharRead \/ GetcharMove
  BY <1>2 DEF PollInput, PollEmpty, GetcharNothing, GetcharRead, GetcharMove, KeyboardNext
<1>3. CASE \/ \E l \in Lines : DeviceFires(l) \/ TakeInterrupt(l)
           \/ \E s \in Scancodes : KeyPress(s)
           \/ TakeSpurious \/ EndOfInterrupt \/ Return
  BY <1>3 DEF DeviceFires, KeyPress, Device, TakeInterrupt, TakeSpurious, Enter,
              EndOfInterrupt, Return
<1>4. CASE \/ BootSleep \/ BootDone \/ SleepAgain \/ SleepReturns \/ SleepHalts
           \/ LoopHalts \/ ProcessChar \/ CommandSleeps \/ CommandPanics
  BY <1>4 DEF BootSleep, BootDone, SleepAgain, SleepReturns, SleepHalts,
              LoopHalts, ProcessChar, CommandSleeps, CommandPanics, Halt
<1>5. CASE UNCHANGED vars
  BY <1>5 DEF vars
<1> QED BY <1>1, <1>2, <1>3, <1>4, <1>5 DEF Next, Take, Handler, Main

(* A store into the ring makes head meet tail only by losing characters.   *)
LEMMA StoreLoses ==
    ASSUME KeyboardTypeOK, NEW ch, StoreChar(ch), ~ reading, keyboard_has_input,
           ~ keyboard_has_input'
    PROVE  lost'
<1>1. KEYBOARD_BUFFER_SIZE \in Nat \ {0}
  BY KeyboardAssumption
<1>2. buffer_head' = IF buffer_head = N - 1 THEN 0 ELSE buffer_head + 1
  BY AdvanceIs DEF StoreChar, KeyboardTypeOK
<1>3. /\ buffer_head' = buffer_tail /\ buffer_head # buffer_tail
      /\ FirstUnread = buffer_tail
      /\ buffer_head \in 0 .. KEYBOARD_BUFFER_SIZE - 1
      /\ buffer_tail \in 0 .. KEYBOARD_BUFFER_SIZE - 1
  BY DEF StoreChar, keyboard_has_input, FirstUnread, KeyboardTypeOK, Slot
<1>4. Unread = KEYBOARD_BUFFER_SIZE - 1
  BY <1>1, <1>2, <1>3 DEF Unread, N
<1> QED BY <1>4 DEF StoreChar

\* What NothingMeansLost says while interrupts come between the two tests.
EmptyAtGetchar == pc = "getchar" /\ ~ reading /\ ~ keyboard_has_input

(* The console is handed a 0 only when the ring has lost characters since  *)
(* shell_update found input in it, for every buffer size.                  *)
THEOREM KernelNothingMeansLost == Spec => []NothingMeansLost
<1>1. Init => NothingMeansLost
  BY DEF Init, NothingMeansLost
<1>2. IntrInv /\ KeyboardTypeOK /\ NothingMeansLost /\ [Next]_vars => NothingMeansLost'
  <2> SUFFICES ASSUME IntrInv, KeyboardTypeOK, NothingMeansLost, [Next]_vars,
                      EmptyAtGetchar'
               PROVE  lost'
    BY DEF NothingMeansLost, EmptyAtGetchar
  <2>1. CASE UNCHANGED <<pc, kbd_vars>>
    BY <2>1 DEF kbd_vars, NothingMeansLost, EmptyAtGetchar, keyboard_has_input
  <2>2. CASE UNCHANGED pc /\ \E ch \in Char : StoreChar(ch)
    <3>1. PICK ch \in Char : StoreChar(ch)
      BY <2>2
    <3>2. pc = "getchar" /\ ~ reading /\ ~ keyboard_has_input'
      BY <2>2, <3>1 DEF EmptyAtGetchar, StoreChar
    <3>3. CASE keyboard_has_input
      BY <3>1, <3>2, <3>3, StoreLoses
    <3>4. CASE ~ keyboard_has_input
      BY <3>1, <3>2, <3>4 DEF NothingMeansLost, StoreChar
    <3> QED BY <3>3, <3>4
  <2>3. CASE Main
    <3>1. CASE PollInput
      BY <3>1 DEF PollInput, LookForInput, EmptyAtGetchar, keyboard_has_input
    <3>2. CASE GetcharRead
      BY <3>2 DEF GetcharRead, ReadSlot, EmptyAtGetchar
    <3>3. CASE ~ PollInput /\ ~ GetcharRead
      <4>1. pc' # "getchar"
        BY <2>3, <3>3 DEF Main, BootSleep, BootDone, SleepAgain, SleepReturns, SleepHalts,
             PollEmpty, LoopHalts, GetcharNothing, GetcharMove, ProcessChar,
             CommandSleeps, CommandPanics, Halt, MainStep, AfterSleep
      <4> QED BY <4>1 DEF EmptyAtGetchar
    <3> QED BY <3>1, <3>2, <3>3
  <2>4. CASE Dispatch
    <3>1. UNCHANGED pc
      BY <2>4 DEF Dispatch
    <3>2. UNCHANGED kbd_vars \/ \E ch \in Char : StoreChar(ch)
      BY <2>4, DispatchUsesRing
    <3> QED BY <2>1, <2>2, <3>1, <3>2
  <2>5. CASE Take
    <3>1. UNCHANGED kbd_vars /\ pc' = Wake(pc)
      BY <2>5 DEF Take, TakeSpurious, TakeInterrupt, Enter
    <3>2. pc' = pc
      BY <3>1 DEF Wake, EmptyAtGetchar
    <3> QED BY <2>1, <3>1, <3>2
  <2>6. CASE \/ \E l \in Lines : DeviceFires(l)
             \/ \E s \in Scancodes : KeyPress(s)
             \/ EndOfInterrupt \/ Return
    <3>1. UNCHANGED <<pc, kbd_vars>>
      BY <2>6 DEF DeviceFires, KeyPress, Device, EndOfInterrupt, Return, cpu_vars
    <3> QED BY <2>1, <3>1
  <2>7. CASE UNCHANGED vars
    BY <2>1, <2>7 DEF vars, cpu_vars
  <2> QED BY <2>3, <2>4, <2>5, <2>6, <2>7 DEF Next, Handler
<1>3. Spec => []KeyboardTypeOK
  <2>1. Init => KeyboardInit
    BY DEF Init
  <2>2. IntrInv /\ [Next]_vars => [KeyboardNext]_kbd_vars
    BY KernelUsesRing
  <2>3. Spec => KeyboardSpec
    BY <2>1, <2>2, InterruptInvariant, PTL DEF Spec, KeyboardSpec
  <2> QED BY <2>3, KeyboardTypeCorrect, PTL
<1> QED BY <1>1, <1>2, <1>3, InterruptInvariant, PTL DEF Spec

(* With the handler run by real interrupts between any two steps of the    *)
(* shell, the ring still implements KeyQueue.                              *)
THEOREM KernelImplementsQueue == Spec => KeyQueueRefinement
<1>1. Init => KeyboardInit
  BY DEF Init
<1>2. IntrInv /\ [Next]_vars => [KeyboardNext]_kbd_vars
  BY KernelUsesRing
<1>3. Spec => KeyboardSpec
  BY <1>1, <1>2, InterruptInvariant, PTL DEF Spec, KeyboardSpec
<1> QED BY <1>3, RingImplementsQueue, PTL
=============================================================================
