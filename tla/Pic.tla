-------------------------------- MODULE Pic ---------------------------------
(***************************************************************************)
(* The two 8259 interrupt controllers as src/kernel/drivers/pic.c sets     *)
(* them up (vectors 32 to 47, the slave on line 2 of the master, fully     *)
(* nested mode) and uses them: pic_send_eoi sends non-specific             *)
(* end-of-interrupts, which clear the highest-priority line in service.    *)
(* The controllers themselves are hardware, modelled from that use.        *)
(***************************************************************************)
EXTENDS Integers

CONSTANT Lines          \* the lines that devices drive

Master == 0 .. 7
Slave == 8 .. 15
CASCADE == 2

ASSUME PicAssumption == Lines \subseteq (Master \cup Slave) \ {CASCADE}

VARIABLES
    irr,        \* requests latched
    isr         \* lines in service

pic_vars == <<irr, isr>>

PicInit == irr = {} /\ isr = {}

\* The line of the master that a request arrives on.
MasterLine(l) == IF l \in Slave THEN CASCADE ELSE l

InService(l) == {l, MasterLine(l)}

\* Nothing in service blocks the line.
Eligible(l) ==
    /\ l \in irr
    /\ \A s \in isr \cap Master : MasterLine(l) < s
    /\ l \in Slave => \A s \in isr \cap Slave : l < s

\* The request that the controllers pass on.
Selected(l) ==
    /\ Eligible(l)
    /\ \A k \in irr : Eligible(k) =>
          \/ MasterLine(l) < MasterLine(k)
          \/ MasterLine(l) = MasterLine(k) /\ l <= k

INTR == \E l \in irr : Eligible(l)

\* A device raises its line.  Requests are edges: a second one is not
\* counted.
Raise(l) == irr' = irr \cup {l} /\ UNCHANGED isr

Acknowledge(l) ==
    /\ Selected(l)
    /\ irr' = irr \ {l}
    /\ isr' = isr \cup InService(l)

Highest(S) == {s \in S : \A t \in S : s <= t}

\* The lines in service after pic_send_eoi(irq), s being in service before.
after_eoi_MasterOnly(s, irq) == s \ Highest(s \cap Master)

after_eoi(s, irq) ==
    LET slave == IF irq >= 8 THEN Highest(s \cap Slave) ELSE {}
        master == Highest(s \cap Master) IN
    s \ (slave \cup master)

pic_send_eoi(irq) == isr' = after_eoi(isr, irq) /\ UNCHANGED irr
=============================================================================
