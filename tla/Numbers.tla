------------------------------ MODULE Numbers ------------------------------
(***************************************************************************)
(* Numbers between the user and the kernel: the conversions of             *)
(* lib/string.c and video/vga.c, and the shell's commands (shell/shell.c)  *)
(* that read a number from the line or print one.  A text is a sequence of *)
(* character codes without its NUL.  int and uint32_t have U32 values and  *)
(* wrap around, as they do in the unoptimised build of the Makefile.       *)
(***************************************************************************)
EXTENDS Integers, Sequences, SequencesExt, FiniteSetsExt

CONSTANTS
    HEX_DIGITS,     \* hexadecimal digits of a uint32_t (8)
    Texts,          \* what a user may type as an argument
    Operations,     \* the first characters of calc's second argument
    Addresses       \* what kmalloc may return, besides NULL

U32 == 16 ^ HEX_DIGITS

ASSUME NumbersAssumption ==
    /\ HEX_DIGITS \in Nat \ {0}
    /\ Addresses \subseteq 1 .. U32 - 1

VARIABLES
    ran,        \* the command that just ran and its arguments, or Nothing
    out,        \* the texts that it printed, without the fixed wording
    last_alloc, \* of the shell
    asked,      \* what kmalloc was asked for by the command, or -1
    freed,      \* what kfree was given by the command, or NULL
    shape,      \* the scan lines of the cursor
    noted       \* the last address that alloc printed, with its text (history)

numvars == <<ran, out, last_alloc, asked, freed, shape, noted>>

NULL == 0
Nothing == <<"none">>
Fault == <<<<-1>>>>                  \* no text: the divide error and its panic

int(n) == IF n >= U32 \div 2 THEN n - U32 ELSE n

unsigned(n) == n % U32
-----------------------------------------------------------------------------
(* string.c and vga.c. *)

Decimal == 48 .. 57                 \* '0' to '9'
Upper == 65 .. 70                   \* 'A' to 'F'
Lower == 97 .. 102                  \* 'a' to 'f'

\* The digits of s up to the first character that is none.
Leading(s, digits) ==
    LET n == CHOOSE k \in 0 .. Len(s) :
                /\ \A i \in 1 .. k : s[i] \in digits
                /\ k < Len(s) => s[k + 1] \notin digits IN
    SubSeq(s, 1, n)

value(c) == IF c \in Decimal THEN c - 48 ELSE IF c \in Lower THEN c - 87 ELSE c - 55

Parsed(s, base) == FoldLeft(LAMBDA r, c : (r * base + value(c)) % U32, 0, s)

atoi_AnyCharacter(s) == int(Parsed(s, 10))

atoi(s) == int(Parsed(Leading(s, Decimal), 10))

\* The optional 0x.
HasPrefix(s) == Len(s) >= 2 /\ s[1] = 48 /\ s[2] \in {120, 88}

atoi_hex_LowerOnly(s) ==
    LET t == IF HasPrefix(s) THEN SubSeq(s, 3, Len(s)) ELSE s IN
    int(Parsed(Leading(t, Decimal \cup Lower), 16))

atoi_hex(s) ==
    LET t == IF HasPrefix(s) THEN SubSeq(s, 3, Len(s)) ELSE s IN
    int(Parsed(Leading(t, Decimal \cup Lower \cup Upper), 16))

digit(d) == IF d < 10 THEN 48 + d ELSE 55 + d

\* The digits are produced last one first, and then turned around.
Backwards(n, base) ==
    LET low[k \in 0 .. n] ==
          IF k = 0 THEN <<>> ELSE <<digit(k % base)>> \o low[k \div base] IN
    low[n]

utoa(n, base) == IF n = 0 THEN <<48>> ELSE Reverse(Backwards(n, base))

vga_print_dec(n) == IF n = 0 THEN <<48>> ELSE Reverse(Backwards(n, 10))

vga_print_hex(n) ==
    <<48, 120>> \o
    [i \in 1 .. HEX_DIGITS |-> digit((n \div 16 ^ (HEX_DIGITS - i)) % 16)]
-----------------------------------------------------------------------------
(* The shell's commands. *)

NumbersInit ==
    /\ ran = Nothing /\ out = <<>>
    /\ last_alloc = NULL
    /\ asked = -1 /\ freed = NULL
    /\ shape = <<14, 15>>
    /\ noted = [ptr |-> NULL, text |-> <<>>]

Run(command) == ran = Nothing /\ ran' = command

Prints(texts) == out' = texts

\* The shell reads its next line, unless the last command stopped the machine.
Prompt ==
    /\ ran # Nothing /\ out # Fault
    /\ ran' = Nothing /\ out' = <<>>
    /\ asked' = -1 /\ freed' = NULL
    /\ UNCHANGED <<last_alloc, shape, noted>>

InvalidSize(t) ==
    /\ Run(<<"alloc", t>>)
    /\ atoi(t) <= 0
    /\ Prints(<<>>)
    /\ UNCHANGED <<last_alloc, asked, freed, shape, noted>>

AllocationFailed(t) ==
    /\ Run(<<"alloc", t>>)
    /\ atoi(t) > 0
    /\ asked' = atoi(t)
    /\ Prints(<<>>)
    /\ UNCHANGED <<last_alloc, freed, shape, noted>>

cmd_alloc(t) ==
    /\ Run(<<"alloc", t>>)
    /\ atoi(t) > 0
    /\ asked' = atoi(t)
    /\ \E ptr \in Addresses :
          /\ last_alloc' = ptr
          /\ Prints(<<vga_print_hex(ptr)>>)
          /\ noted' = [ptr |-> ptr, text |-> vga_print_hex(ptr)]
    /\ UNCHANGED <<freed, shape>>

\* NULL is refused, every other address goes to kfree.
cmd_free(t) ==
    LET ptr == unsigned(atoi_hex(t)) IN
    /\ Run(<<"free", t>>)
    /\ freed' = ptr
    /\ Prints(IF ptr = NULL THEN <<>> ELSE <<vga_print_hex(ptr)>>)
    /\ UNCHANGED <<last_alloc, asked, shape, noted>>

cmd_freelast ==
    /\ Run(<<"freelast">>)
    /\ freed' = last_alloc
    /\ Prints(IF last_alloc = NULL THEN <<>> ELSE <<vga_print_hex(last_alloc)>>)
    /\ last_alloc' = NULL
    /\ UNCHANGED <<asked, shape, noted>>

\* The return under the division's else belongs to no branch: a quotient is
\* computed and never printed.  The divide instruction traps when the quotient
\* of the smallest int and -1 does not fit.
Evaluated(a, op, b) ==
    LET Numeral(n) == <<utoa(unsigned(n), 10)>> IN
    CASE op = "+" -> Numeral(a + b)
      [] op = "-" -> Numeral(a - b)
      [] op = "*" -> Numeral(a * b)
      [] op = "/" -> IF b = -1 /\ a = -(U32 \div 2) THEN Fault ELSE <<>>
      [] OTHER -> Numeral(0)

cmd_calc(a, op, b) ==
    /\ Run(<<"calc", a, op, b>>)
    /\ Prints(Evaluated(atoi(a), op, atoi(b)))
    /\ UNCHANGED <<last_alloc, asked, freed, shape, noted>>

\* Characters up to the first code that is none.
cmd_inttoascii(codes) ==
    LET Valid(t) == atoi(t) \in 0 .. 255
        n == CHOOSE k \in 0 .. Len(codes) :
                /\ \A i \in 1 .. k : Valid(codes[i])
                /\ k < Len(codes) => ~Valid(codes[k + 1]) IN
    /\ Run(<<"inttoascii", codes>>)
    /\ Prints(<<[i \in 1 .. n |-> atoi(codes[i])]>>)
    /\ UNCHANGED <<last_alloc, asked, freed, shape, noted>>

cmd_asciitoint(t) ==
    /\ Run(<<"asciitoint", t>>)
    /\ Prints([i \in 1 .. Len(t) |-> vga_print_dec(unsigned(t[i]))])
    /\ UNCHANGED <<last_alloc, asked, freed, shape, noted>>

cmd_cur(t) ==
    LET preset == atoi(t) IN
    /\ Run(<<"cur", t>>)
    /\ shape' = CASE preset = 0 -> <<"hidden">>
                  [] preset = 1 -> <<14, 15>>
                  [] preset = 2 -> <<8, 15>>
                  [] preset = 3 -> <<0, 15>>
                  [] preset = 4 -> <<15, 15>>
                  [] OTHER -> shape
    /\ Prints(<<>>)
    /\ UNCHANGED <<last_alloc, asked, freed, noted>>

\* A user also types an address that the shell printed.
Typed == Texts \cup ({noted.text} \ {<<>>})

NumbersNext ==
    \/ Prompt
    \/ \E t \in Typed : \/ InvalidSize(t)
                        \/ AllocationFailed(t)
                        \/ cmd_alloc(t)
                        \/ cmd_free(t)
                        \/ cmd_asciitoint(t)
                        \/ cmd_cur(t)
    \/ cmd_freelast
    \/ \E a, b \in Texts : \/ \E op \in Operations : cmd_calc(a, op, b)
                           \/ cmd_inttoascii(<<a, b>>)

NumbersSpec == NumbersInit /\ [][NumbersNext]_numvars
-----------------------------------------------------------------------------
(* Properties. *)

\* The number that the decimal digits at the front of a text stand for,
\* position by position and of any size.
Meaning(t) ==
    LET last == Max({k \in 0 .. Len(t) : \A i \in 1 .. k : t[i] \in 48 .. 57}) IN
    MapThenSumSet(LAMBDA i : (t[i] - 48) * 10 ^ (last - i), 1 .. last)

\* The output is one decimal numeral without leading zeros, of n modulo 2^32.
ShowsNumber(n) ==
    /\ Len(out) = 1
    /\ \A i \in DOMAIN out[1] : out[1][i] \in 48 .. 57
    /\ Len(out[1]) > 1 => out[1][1] # 48
    /\ Meaning(out[1]) = n % U32

\* What C makes of a / b: the quotient is cut off towards zero.
Magnitude(n) == IF n < 0 THEN -n ELSE n

Quotient(a, b) ==
    LET q == Magnitude(a) \div Magnitude(b) IN
    IF (a < 0) = (b < 0) THEN q ELSE -q

Divides == ran # Nothing /\ ran[1] = "calc" /\ ran[3] = "/"

\* The int that a typed number stands for.
Operand(i) == int(Meaning(ran[i]) % U32)

Fits(n) == n \in -(U32 \div 2) .. (U32 \div 2) - 1

\* calc never prints a wrong number: a sum, a difference or a product is the
\* one of what the user typed, modulo 2^32 when it does not fit, and what a
\* division prints, if anything, is the quotient; a divisor of zero gives no
\* number.  Only a quotient that is no int may stop the machine.
CalcExact ==
    (ran # Nothing /\ ran[1] = "calc") =>
       LET x == Meaning(ran[2])  y == Meaning(ran[4]) IN
       /\ ran[3] = "+" => ShowsNumber(x + y)
       /\ ran[3] = "-" => ShowsNumber(x - y)
       /\ ran[3] = "*" => ShowsNumber(x * y)
       /\ Divides =>
             \/ out = <<>>
             \/ Operand(4) # 0 /\ out # Fault /\ ShowsNumber(Quotient(Operand(2), Operand(4)))
             \/ Operand(4) # 0 /\ out = Fault /\ ~ Fits(Quotient(Operand(2), Operand(4)))
       /\ out = Fault => Divides

\* calc prints the quotient of its two numbers: cmd_calc computes it and only
\* a divisor of zero ("Division by zero!") is to be left without a result.
QuotientPrinted ==
    (Divides /\ Operand(4) # 0) =>
       LET q == Quotient(Operand(2), Operand(4)) IN
       Fits(q) => ShowsNumber(q)

\* An address that alloc printed and the user types back is the address that
\* free hands to kfree and prints again, also above 2^31 where atoi_hex's int
\* is negative; freelast gives back the last address that alloc printed, and
\* kmalloc is asked for what was typed or, when that is no int, for what is
\* left of it, and never for nothing.
AddressesRoundTrip ==
    /\ (noted.ptr # NULL /\ ran = <<"free", noted.text>>)
          => freed = noted.ptr /\ out = <<noted.text>>
    /\ last_alloc \in {NULL, noted.ptr}
    /\ (ran = <<"freelast">> /\ freed # NULL) => freed = noted.ptr /\ out = <<noted.text>>
    /\ asked # -1 => asked > 0 /\ asked = Meaning(ran[2]) % U32
=============================================================================
