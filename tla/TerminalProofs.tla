--------------------------- MODULE TerminalProofs ---------------------------
(***************************************************************************)
(* The screen and the line, for every size of the screen and of the line,  *)
(* every prompt that fits and every output of the commands.                *)
(***************************************************************************)
EXTENDS Terminal, SequenceTheorems, NaturalsInduction, WellFoundedInduction, TLAPS

(* A set of natural numbers that is not empty has a least one. *)
LEMMA LeastNat ==
    ASSUME NEW T, T \subseteq Nat, T # {}
    PROVE  \E x \in T : \A y \in T : x <= y
<1> DEFINE R == {ss \in Nat \X Nat : ss[1] < ss[2]}
<1>1. IsWellFoundedOn(R, Nat)
  BY ONLY NatLessThanWellFounded, Zenon DEF OpToRel
<1>2. \E x \in T : \A y \in T : ~ (<<y, x>> \in R)
  <2> HIDE DEF R
  <2> QED BY <1>1, WFMin
<1>3. \A x, y \in T : ~ (<<y, x>> \in R) => x <= y
  OBVIOUS
<1> QED BY <1>2, <1>3

(* So Min of a set of natural numbers is one of them, the least. *)
LEMMA MinIs ==
    ASSUME NEW T, T \subseteq Nat, T # {}
    PROVE  Min(T) \in T /\ \A y \in T : Min(T) <= y
BY LeastNat DEF Min
-----------------------------------------------------------------------------
(* The screen. *)

Rows == 0 .. VGA_HEIGHT - 1
Columns == 0 .. VGA_WIDTH - 1
Screen(r, c, k, b) == [row |-> r, column |-> c, buffer |-> b, cursor |-> k]

\* The cells, whatever they hold.
IsBuffer(b) == b = [i \in 0 .. Cells - 1 |-> b[i]]

\* A screen that vga.c can use: row and column name a cell of the buffer.
ScreenOK(s) ==
    /\ s = Screen(s.row, s.column, s.cursor, s.buffer)
    /\ s.row \in Rows /\ s.column \in Columns
    /\ IsBuffer(s.buffer)

\* The first n elements of str stand right before the place of the next
\* character.
Shows(s, str, n) ==
    /\ n <= Position(s)
    /\ \A i \in 1 .. n : s.buffer[Position(s) - n + i - 1] = str[i]

(* Rows and columns number the cells, row by row. *)
LEMMA CellNumber ==
    ASSUME NEW r \in Rows, NEW c \in Columns
    PROVE  /\ Cells \in Nat /\ r * VGA_WIDTH \in Nat
           /\ r * VGA_WIDTH + c \in 0 .. Cells - 1
           /\ (r + 1) * VGA_WIDTH = r * VGA_WIDTH + VGA_WIDTH
           /\ (r - 1) * VGA_WIDTH = r * VGA_WIDTH - VGA_WIDTH
           /\ (VGA_HEIGHT - 1) * VGA_WIDTH = Cells - VGA_WIDTH
<1> USE TerminalAssumption DEF Rows, Columns, Cells
<1>1. \A i, j \in Int : (i + 1) * j = i * j + j /\ (i - 1) * j = i * j - j
  OBVIOUS
<1>2. \A i, j \in Nat : i * j \in Nat
  OBVIOUS
<1>3. PICK d \in Nat : VGA_HEIGHT - 1 = r + d
  <2> WITNESS VGA_HEIGHT - 1 - r \in Nat
  <2> QED OBVIOUS
<1>4. (VGA_HEIGHT - 1) * VGA_WIDTH = r * VGA_WIDTH + d * VGA_WIDTH
  BY <1>3
<1>5. (VGA_HEIGHT - 1) * VGA_WIDTH = Cells - VGA_WIDTH
  BY <1>1
<1> QED BY <1>1, <1>2, <1>3, <1>4, <1>5

(* The number of cells is a number. *)
LEMMA CellsNat == Cells \in Nat
BY TerminalAssumption DEF Cells

(* The place of the next character is a cell. *)
LEMMA PositionIs ==
    ASSUME NEW s, ScreenOK(s)
    PROVE  Position(s) \in 0 .. Cells - 1
BY CellNumber DEF ScreenOK, Position

(* What the parts of a screen are, and how vga.c changes them. *)
LEMMA ScreenHas ==
    ASSUME NEW r, NEW c, NEW k, NEW b
    PROVE  /\ Screen(r, c, k, b).row = r /\ Screen(r, c, k, b).column = c
           /\ Screen(r, c, k, b).cursor = k /\ Screen(r, c, k, b).buffer = b
           /\ Position(Screen(r, c, k, b)) = r * VGA_WIDTH + c
BY DEF Screen, Position

(* A screen from its parts. *)
LEMMA ScreenFrom ==
    ASSUME NEW r \in Rows, NEW c \in Columns, NEW k, NEW b, IsBuffer(b)
    PROVE  ScreenOK(Screen(r, c, k, b))
BY ScreenHas DEF ScreenOK

(* The parts of a usable screen. *)
LEMMA ScreenParts ==
    ASSUME NEW s, ScreenOK(s)
    PROVE  \E r \in Rows, c \in Columns : \E k, b : s = Screen(r, c, k, b) /\ IsBuffer(b)
BY Zenon DEF ScreenOK

(* The end of a row. *)
LEMMA NewLineIs ==
    ASSUME NEW r, NEW c, NEW k, NEW b
    PROVE  NewLine(Screen(r, c, k, b)) = vga_scroll(Screen(r + 1, 0, k, b))
<1>1. [Screen(r, c, k, b) EXCEPT !.column = 0] = Screen(r, 0, k, b)
  BY DEF Screen
<1>2. [Screen(r, 0, k, b) EXCEPT !.row = r + 1] = Screen(r + 1, 0, k, b)
  BY DEF Screen
<1>3. Screen(r, 0, k, b).row = r
  BY DEF Screen
<1> QED BY <1>1, <1>2, <1>3 DEF NewLine

(* The place after a character. *)
LEMMA StepForwardIs ==
    ASSUME NEW r, NEW c, NEW k, NEW b
    PROVE  /\ c + 1 >= VGA_WIDTH => StepForward(Screen(r, c, k, b)) = Screen(r + 1, 0, k, b)
           /\ ~ (c + 1 >= VGA_WIDTH) => StepForward(Screen(r, c, k, b)) = Screen(r, c + 1, k, b)
<1>1. [Screen(r, c, k, b) EXCEPT !.column = 0] = Screen(r, 0, k, b)
  BY DEF Screen
<1>2. [Screen(r, 0, k, b) EXCEPT !.row = r + 1] = Screen(r + 1, 0, k, b)
  BY DEF Screen
<1>3. Screen(r, 0, k, b).row = r /\ Screen(r, c, k, b).column = c
  BY DEF Screen
<1>4. [Screen(r, c, k, b) EXCEPT !.column = c + 1] = Screen(r, c + 1, k, b)
  BY DEF Screen
<1> QED BY <1>1, <1>2, <1>3, <1>4 DEF StepForward

(* The place before, for a backspace. *)
LEMMA StepBackIs ==
    ASSUME NEW r, NEW c, NEW k, NEW b
    PROVE  /\ c > 0 => StepBack(Screen(r, c, k, b)) = Screen(r, c - 1, k, b)
           /\ ~ (c > 0) /\ r > 0 => StepBack(Screen(r, c, k, b)) = Screen(r - 1, VGA_WIDTH - 1, k, b)
           /\ ~ (c > 0) /\ ~ (r > 0) => StepBack(Screen(r, c, k, b)) = Screen(r, c, k, b)
<1>1. [Screen(r, c, k, b) EXCEPT !.row = r - 1] = Screen(r - 1, c, k, b)
  BY DEF Screen
<1>2. [Screen(r - 1, c, k, b) EXCEPT !.column = VGA_WIDTH - 1] = Screen(r - 1, VGA_WIDTH - 1, k, b)
  BY DEF Screen
<1>3. Screen(r, c, k, b).row = r /\ Screen(r, c, k, b).column = c
  BY DEF Screen
<1>4. [Screen(r, c, k, b) EXCEPT !.column = c - 1] = Screen(r, c - 1, k, b)
  BY DEF Screen
<1> QED BY <1>1, <1>2, <1>3, <1>4 DEF StepBack

\* The cells after scrolling.
Up(b) == [i \in 0 .. Cells - 1 |-> IF i + VGA_WIDTH < Cells THEN b[i + VGA_WIDTH] ELSE SPACE]

(* What vga_scroll does to the parts. *)
LEMMA ScrollIs ==
    ASSUME NEW r, NEW c, NEW k, NEW b
    PROVE  /\ r < VGA_HEIGHT => vga_scroll(Screen(r, c, k, b)) = Screen(r, c, k, b)
           /\ ~ (r < VGA_HEIGHT) =>
                 vga_scroll(Screen(r, c, k, b)) = Screen(VGA_HEIGHT - 1, c, k, Up(b))
<1>1. [Screen(r, c, k, b) EXCEPT !.row = VGA_HEIGHT - 1] = Screen(VGA_HEIGHT - 1, c, k, b)
  BY DEF Screen
<1>2. [Screen(VGA_HEIGHT - 1, c, k, b) EXCEPT !.buffer = Up(b)] = Screen(VGA_HEIGHT - 1, c, k, Up(b))
  BY DEF Screen
<1>3. /\ Screen(r, c, k, b).row = r /\ Screen(r, c, k, b).buffer = b
      /\ Screen(VGA_HEIGHT - 1, c, k, b).buffer = b
  BY DEF Screen
<1>4. CASE r < VGA_HEIGHT
  BY <1>3, <1>4 DEF vga_scroll
<1>5. CASE ~ (r < VGA_HEIGHT)
  <2>1. vga_scroll(Screen(r, c, k, b)) =
           [Screen(r, c, k, b) EXCEPT !.row = VGA_HEIGHT - 1, !.buffer = Up(b)]
    BY <1>1, <1>3, <1>5 DEF vga_scroll, Up
  <2> QED BY <1>1, <1>2, <1>5, <2>1
<1> QED BY <1>4, <1>5

\* No cell holds anything.
Empty == [i \in 0 .. Cells - 1 |-> SPACE]

(* What vga_clear does to the parts. *)
LEMMA ClearIs ==
    ASSUME NEW r, NEW c, NEW k, NEW b
    PROVE  vga_clear(Screen(r, c, k, b)) = Screen(0, 0, k, Empty)
<1>1. [Screen(r, c, k, b) EXCEPT !.row = 0] = Screen(0, c, k, b)
  BY DEF Screen
<1>2. [Screen(0, c, k, b) EXCEPT !.column = 0] = Screen(0, 0, k, b)
  BY DEF Screen
<1>3. [Screen(0, 0, k, b) EXCEPT !.buffer = Empty] = Screen(0, 0, k, Empty)
  BY DEF Screen
<1> QED BY <1>1, <1>2, <1>3 DEF vga_clear, Empty

(* Storing a character in the cell of the cursor. *)
LEMMA StoredIs ==
    ASSUME NEW r, NEW c, NEW k, NEW b, NEW ch
    PROVE  Stored(Screen(r, c, k, b), ch) = Screen(r, c, k, [b EXCEPT ![r * VGA_WIDTH + c] = ch])
BY DEF Stored, Screen, Position

(* Moving the hardware cursor to it. *)
LEMMA CursorIs ==
    ASSUME NEW r, NEW c, NEW k, NEW b
    PROVE  vga_update_cursor(Screen(r, c, k, b)) = Screen(r, c, r * VGA_WIDTH + c, b)
BY DEF vga_update_cursor, Screen, Position

\* Row q and cells z after scrolling, from row r and cells b.
ScrolledTo(r, b, q, z) ==
    /\ q \in Rows /\ IsBuffer(z)
    /\ r < VGA_HEIGHT => q = r /\ z = b
    /\ r = VGA_HEIGHT =>
          /\ q = VGA_HEIGHT - 1
          /\ \A i \in 0 .. Cells - 1 : i + VGA_WIDTH < Cells => z[i] = b[i + VGA_WIDTH]

(* Scrolling, at the end of the last row, keeps the screen usable and      *)
(* moves every cell up by one row.                                         *)
LEMMA Scrolled ==
    ASSUME NEW r \in 0 .. VGA_HEIGHT, NEW c \in Columns, NEW k, NEW b,
           IsBuffer(b)
    PROVE  \E q, z : /\ vga_scroll(Screen(r, c, k, b)) = Screen(q, c, k, z)
                     /\ ScrolledTo(r, b, q, z)
<1> USE TerminalAssumption
<1>1. CASE r < VGA_HEIGHT
  <2>1. vga_scroll(Screen(r, c, k, b)) = Screen(r, c, k, b)
    BY <1>1, ScrollIs
  <2>2. r \in Rows /\ r # VGA_HEIGHT
    BY <1>1 DEF Rows
  <2> QED BY <2>1, <2>2 DEF ScrolledTo
<1>2. CASE r = VGA_HEIGHT
  <2>1. vga_scroll(Screen(r, c, k, b)) = Screen(VGA_HEIGHT - 1, c, k, Up(b))
    BY <1>2, ScrollIs
  <2>2. VGA_HEIGHT - 1 \in Rows /\ ~ (r < VGA_HEIGHT)
    BY <1>2 DEF Rows
  <2>3. /\ IsBuffer(Up(b))
        /\ \A i \in 0 .. Cells - 1 : i + VGA_WIDTH < Cells => Up(b)[i] = b[i + VGA_WIDTH]
    BY DEF Up, IsBuffer
  <2> QED BY <2>1, <2>2, <2>3 DEF ScrolledTo
<1> QED BY <1>1, <1>2

(* The end of a row on the screen. *)
LEMMA NewLineOK ==
    ASSUME NEW s, ScreenOK(s)
    PROVE  ScreenOK(NewLine(s))
<1> USE TerminalAssumption
<1>1. PICK r \in Rows, c \in Columns : \E k, b : s = Screen(r, c, k, b) /\ IsBuffer(b)
  BY ScreenParts
<1>2. PICK k, b : s = Screen(r, c, k, b) /\ IsBuffer(b)
  BY <1>1
<1>3. NewLine(s) = vga_scroll(Screen(r + 1, 0, k, b))
  BY <1>2, NewLineIs
<1>4. r + 1 \in 0 .. VGA_HEIGHT /\ 0 \in Columns
  BY DEF Rows, Columns
<1>5. PICK q, z : /\ vga_scroll(Screen(r + 1, 0, k, b)) = Screen(q, 0, k, z)
                  /\ ScrolledTo(r + 1, b, q, z)
  BY <1>2, <1>4, Scrolled
<1>6. q \in Rows /\ IsBuffer(z)
  BY <1>5 DEF ScrolledTo
<1> QED BY <1>3, <1>4, <1>5, <1>6, ScreenFrom

(* A cleared screen. *)
LEMMA ClearOK ==
    ASSUME NEW s, ScreenOK(s)
    PROVE  ScreenOK(vga_clear(s))
<1> USE TerminalAssumption
<1>1. PICK r \in Rows, c \in Columns : \E k, b : s = Screen(r, c, k, b) /\ IsBuffer(b)
  BY ScreenParts
<1>2. PICK k, b : s = Screen(r, c, k, b) /\ IsBuffer(b)
  BY <1>1
<1>3. vga_clear(s) = Screen(0, 0, k, Empty)
  BY <1>2, ClearIs
<1>4. 0 \in Rows /\ 0 \in Columns /\ IsBuffer(Empty)
  BY DEF Rows, Columns, IsBuffer, Empty
<1> QED BY <1>3, <1>4, ScreenFrom

(* Backspace moves to the cell before, across the edge of a row too, and   *)
(* blanks it; in the first cell of all it stays.                           *)
LEMMA BackspaceDoes ==
    ASSUME NEW s, ScreenOK(s)
    PROVE  \E q, d, z :
           /\ q \in Rows /\ d \in Columns
           /\ vga_putchar(s, BS) = Screen(q, d, q * VGA_WIDTH + d, z)
           /\ Position(s) > 0 => q * VGA_WIDTH + d = Position(s) - 1
           /\ IsBuffer(z)
           /\ \A i \in 0 .. Cells - 1 : i # q * VGA_WIDTH + d => z[i] = s.buffer[i]
<1> USE TerminalAssumption
<1>1. PICK r \in Rows, c \in Columns : \E k, b : s = Screen(r, c, k, b) /\ IsBuffer(b)
  BY ScreenParts
<1>2. PICK k, b : s = Screen(r, c, k, b) /\ IsBuffer(b)
  BY <1>1
<1>3. s.row = r /\ s.column = c /\ s.buffer = b /\ Position(s) = r * VGA_WIDTH + c
  BY <1>2, ScreenHas
<1>4. PICK q \in Rows, d \in Columns :
         /\ StepBack(s) = Screen(q, d, k, b)
         /\ r * VGA_WIDTH + c > 0 => q * VGA_WIDTH + d = r * VGA_WIDTH + c - 1
  <2>1. CASE c > 0
    <3>1. StepBack(s) = Screen(r, c - 1, k, b)
      BY <1>2, <2>1, StepBackIs
    <3>2. StepBack(s) = Screen(r, c - 1, k, b) /\ c - 1 \in Columns
      BY <2>1, <3>1 DEF Columns
    <3>3. r * VGA_WIDTH + (c - 1) = r * VGA_WIDTH + c - 1
      BY CellNumber DEF Columns
    <3> QED BY <3>2, <3>3
  <2>2. CASE ~ (c > 0) /\ r > 0
    <3>1. StepBack(s) = Screen(r - 1, VGA_WIDTH - 1, k, b)
      BY <1>2, <2>2, StepBackIs
    <3>2. StepBack(s) = Screen(r - 1, VGA_WIDTH - 1, k, b) /\ r - 1 \in Rows /\ VGA_WIDTH - 1 \in Columns
      BY <2>2, <3>1 DEF Columns, Rows
    <3>3. (r - 1) * VGA_WIDTH + (VGA_WIDTH - 1) = r * VGA_WIDTH + c - 1
      BY <2>2, CellNumber DEF Columns, Rows
    <3> QED BY <3>2, <3>3
  <2>3. CASE ~ (c > 0) /\ ~ (r > 0)
    <3>1. StepBack(s) = s /\ r = 0 /\ c = 0
      BY <1>2, <2>3, StepBackIs DEF Columns, Rows
    <3>2. ~ (r * VGA_WIDTH + c > 0)
      BY <3>1
    <3> QED BY <1>2, <3>1, <3>2
  <2> QED BY <2>1, <2>2, <2>3
<1> DEFINE p == q * VGA_WIDTH + d
           z == [b EXCEPT ![p] = SPACE]
<1>5. vga_putchar(s, BS) = vga_update_cursor(Stored(Screen(q, d, k, b), SPACE))
  BY <1>4 DEF vga_putchar
<1>6. vga_putchar(s, BS) = Screen(q, d, p, z)
  <2>1. Stored(Screen(q, d, k, b), SPACE) = Screen(q, d, k, z)
    BY StoredIs
  <2> HIDE DEF z
  <2> QED BY <1>5, <2>1, CursorIs
<1>7. IsBuffer(z) /\ \A i \in 0 .. Cells - 1 : i # p => z[i] = b[i]
  BY <1>2 DEF IsBuffer
<1> HIDE DEF z
<1>8. Position(s) > 0 => p = Position(s) - 1
  <2>1. PICK u \in Nat, v \in Nat : u = r * VGA_WIDTH + c /\ v = q * VGA_WIDTH + d
    BY CellNumber
  <2>2. u > 0 => v = u - 1
    <3>1. r * VGA_WIDTH + c > 0 => q * VGA_WIDTH + d = r * VGA_WIDTH + c - 1
      BY ONLY <1>4
    <3> QED BY <2>1, <3>1 DEF Rows, Columns
  <2> QED BY <1>3, <2>1, <2>2
<1> QED BY <1>3, <1>6, <1>7, <1>8

\* Row q, column d and cells z after character ch on screen s: it is in the
\* cell before, or, if that was the last one, in the one above it.
Follows(s, ch, q, d, z) ==
    /\ vga_putchar(s, ch) = Screen(q, d, q * VGA_WIDTH + d, z)
    /\ IsBuffer(z)
    /\ \/ /\ q * VGA_WIDTH + d = Position(s) + 1
          /\ z[Position(s)] = ch
          /\ \A i \in 0 .. Cells - 1 : i # Position(s) => z[i] = s.buffer[i]
       \/ /\ Position(s) + 1 = Cells
          /\ q * VGA_WIDTH + d = Cells - VGA_WIDTH
          /\ z[Cells - 1 - VGA_WIDTH] = ch \/ VGA_HEIGHT = 1
          /\ \A i \in 0 .. Cells - 1 : i + VGA_WIDTH < Cells - 1 => z[i] = s.buffer[i + VGA_WIDTH]

(* Any other character goes to the next cell; after the last cell the      *)
(* screen scrolls.                                                         *)
LEMMA CharacterDoes ==
    ASSUME NEW s, ScreenOK(s), NEW ch, ch # NL, ch # BS
    PROVE  \E q, d, z : q \in Rows /\ d \in Columns /\ Follows(s, ch, q, d, z)
<1> USE TerminalAssumption
<1>1. PICK r \in Rows, c \in Columns : \E k, b : s = Screen(r, c, k, b) /\ IsBuffer(b)
  BY ScreenParts
<1>2. PICK k, b : s = Screen(r, c, k, b) /\ IsBuffer(b)
  BY <1>1
<1>3. s.row = r /\ s.column = c /\ s.buffer = b /\ Position(s) = r * VGA_WIDTH + c
  BY <1>2, ScreenHas
<1> DEFINE p == r * VGA_WIDTH + c
           y == [b EXCEPT ![p] = ch]
<1>4. /\ IsBuffer(y) /\ y[p] = ch
      /\ \A i \in 0 .. Cells - 1 : i # p => y[i] = b[i]
  BY <1>2, CellNumber DEF IsBuffer
<1>5. Stored(s, ch) = Screen(r, c, k, y)
  BY <1>2, StoredIs
<1>6. vga_putchar(s, ch) = vga_update_cursor(vga_scroll(StepForward(Screen(r, c, k, y))))
  BY <1>5 DEF vga_putchar
<1>7. Screen(r, c, k, y).column = c
  BY ScreenHas
<1> HIDE DEF y
<1>8. CASE c + 1 >= VGA_WIDTH
  <2>1. StepForward(Screen(r, c, k, y)) = Screen(r + 1, 0, k, y)
    BY <1>8, StepForwardIs
  <2>2. r + 1 \in 0 .. VGA_HEIGHT /\ 0 \in Columns /\ c = VGA_WIDTH - 1
    BY <1>8 DEF Rows, Columns
  <2>3. PICK q, z : /\ vga_scroll(Screen(r + 1, 0, k, y)) = Screen(q, 0, k, z)
                   /\ ScrolledTo(r + 1, y, q, z)
    BY <1>4, <2>2, Scrolled
  <2>4. /\ vga_scroll(Screen(r + 1, 0, k, y)) = Screen(q, 0, k, z)
        /\ q \in Rows /\ IsBuffer(z)
        /\ r + 1 < VGA_HEIGHT => q = r + 1 /\ z = y
        /\ r + 1 = VGA_HEIGHT =>
              /\ q = VGA_HEIGHT - 1
              /\ \A i \in 0 .. Cells - 1 : i + VGA_WIDTH < Cells => z[i] = y[i + VGA_WIDTH]
    BY <2>3 DEF ScrolledTo
  <2>5. vga_putchar(s, ch) = Screen(q, 0, q * VGA_WIDTH + 0, z)
    BY <1>6, <2>1, <2>4, CursorIs
  <2>6. CASE r + 1 < VGA_HEIGHT
    <3>1. q * VGA_WIDTH + 0 = p + 1
      BY <2>2, <2>4, <2>6, CellNumber DEF Rows, Columns
    <3> QED BY <1>3, <1>4, <2>2, <2>4, <2>5, <2>6, <3>1 DEF Follows
  <2>7. CASE r + 1 = VGA_HEIGHT
    <3>1. p + 1 = Cells /\ q * VGA_WIDTH + 0 = Cells - VGA_WIDTH
      <4>1. r = VGA_HEIGHT - 1 /\ q = VGA_HEIGHT - 1
        BY <2>4, <2>7 DEF Rows
      <4>2. r * VGA_WIDTH = Cells - VGA_WIDTH /\ Cells \in Nat
        BY <4>1, CellNumber
      <4> QED BY <2>2, <4>1, <4>2
    <3>2. \A i \in 0 .. Cells - 1 : i + VGA_WIDTH < Cells => z[i] = y[i + VGA_WIDTH]
      BY <2>4, <2>7
    <3>3. Cells \in Nat /\ p \in 0 .. Cells - 1
      BY CellNumber
    <3>4. \A i \in 0 .. Cells - 1 : i + VGA_WIDTH < Cells - 1 => z[i] = b[i + VGA_WIDTH]
      BY <1>4, <3>1, <3>2, <3>3
    <3>5. z[Cells - 1 - VGA_WIDTH] = ch \/ VGA_HEIGHT = 1
      <4> SUFFICES ASSUME VGA_HEIGHT # 1 PROVE z[Cells - 1 - VGA_WIDTH] = ch
        OBVIOUS
      <4>1. r - 1 \in Rows
        BY <2>7 DEF Rows
      <4>2. (r - 1) * VGA_WIDTH \in Nat /\ (r - 1) * VGA_WIDTH = r * VGA_WIDTH - VGA_WIDTH
        BY <2>2, <4>1, CellNumber
      <4>3. Cells - 1 - VGA_WIDTH \in 0 .. Cells - 1
        BY <2>2, <3>1, <3>3, <4>2 DEF Columns
      <4> QED BY <1>4, <3>1, <3>2, <3>3, <4>3
    <3> QED BY <1>3, <2>2, <2>4, <2>5, <3>1, <3>4, <3>5 DEF Follows
  <2> QED BY <2>2, <2>6, <2>7
<1>9. CASE ~ (c + 1 >= VGA_WIDTH)
  <2>1. StepForward(Screen(r, c, k, y)) = Screen(r, c + 1, k, y)
    BY <1>9, StepForwardIs
  <2>2. r \in 0 .. VGA_HEIGHT /\ r < VGA_HEIGHT /\ c + 1 \in Columns
    BY <1>9 DEF Rows, Columns
  <2>3. vga_scroll(Screen(r, c + 1, k, y)) = Screen(r, c + 1, k, y)
    BY <2>2, ScrollIs
  <2>4. vga_putchar(s, ch) = Screen(r, c + 1, r * VGA_WIDTH + (c + 1), y)
    BY <1>6, <2>1, <2>3, CursorIs
  <2>5. r * VGA_WIDTH + (c + 1) = p + 1
    BY CellNumber DEF Columns
  <2> QED BY <1>3, <1>4, <2>2, <2>4, <2>5 DEF Follows
<1> QED BY <1>8, <1>9

(* Every character leaves a screen that vga.c can use. *)
LEMMA PutOK ==
    ASSUME NEW s, ScreenOK(s), NEW ch
    PROVE  ScreenOK(vga_putchar(s, ch))
<1>1. CASE ch = NL
  <2>1. vga_putchar(s, ch) = NewLine(s)
    BY <1>1, TerminalAssumption DEF vga_putchar
  <2> QED BY <2>1, NewLineOK
<1>2. CASE ch = BS
  <2>1. PICK q, d, z :
           /\ q \in Rows /\ d \in Columns
           /\ vga_putchar(s, BS) = Screen(q, d, q * VGA_WIDTH + d, z) /\ IsBuffer(z)
    BY BackspaceDoes
  <2> QED BY <1>2, <2>1, ScreenFrom
<1>3. CASE ch # NL /\ ch # BS
  <2>1. PICK q, d, z :
           /\ q \in Rows /\ d \in Columns
           /\ vga_putchar(s, ch) = Screen(q, d, q * VGA_WIDTH + d, z) /\ IsBuffer(z)
    BY <1>3, CharacterDoes DEF Follows
  <2> QED BY <2>1, ScreenFrom
<1> QED BY <1>1, <1>2, <1>3

(* A character that is typed or printed stands behind what stood before    *)
(* the cursor, even when the screen scrolls, as long as it all fits.       *)
LEMMA PutShows ==
    ASSUME NEW s, ScreenOK(s), NEW str, NEW n \in Nat, Shows(s, str, n),
           n + 1 <= Cells - VGA_WIDTH, str[n + 1] # NL, str[n + 1] # BS
    PROVE  LET t == vga_putchar(s, str[n + 1]) IN
           Shows(t, str, n + 1) /\ t.cursor = Position(t)
<1> USE TerminalAssumption
<1>1. PICK p \in 0 .. Cells - 1 : p = Position(s)
  BY PositionIs
<1>2. PICK ch : ch = str[n + 1] /\ ch # NL /\ ch # BS
  OBVIOUS
<1>3. PICK q, d, z :
           /\ q \in Rows /\ d \in Columns
           /\ vga_putchar(s, ch) = Screen(q, d, q * VGA_WIDTH + d, z)
           /\ \/ /\ q * VGA_WIDTH + d = p + 1
                 /\ z[p] = ch
                 /\ \A i \in 0 .. Cells - 1 : i # p => z[i] = s.buffer[i]
              \/ /\ p + 1 = Cells
                 /\ q * VGA_WIDTH + d = Cells - VGA_WIDTH
                 /\ z[Cells - 1 - VGA_WIDTH] = ch \/ VGA_HEIGHT = 1
                 /\ \A i \in 0 .. Cells - 1 : i + VGA_WIDTH < Cells - 1 => z[i] = s.buffer[i + VGA_WIDTH]
  <2>1. PICK q, d, z : q \in Rows /\ d \in Columns /\ Follows(s, ch, q, d, z)
    BY <1>2, CharacterDoes
  <2> QED BY <1>1, <2>1 DEF Follows
<1>4. PICK m \in 0 .. Cells - 1 : m = q * VGA_WIDTH + d
  BY <1>3, CellNumber
<1>5. PICK t : t = vga_putchar(s, ch)
  OBVIOUS
<1>6. t.cursor = m /\ Position(t) = m /\ t.buffer = z
  BY <1>3, <1>4, <1>5, ScreenHas
<1>7. Cells \in Nat /\ n <= p /\ \A i \in 1 .. n : s.buffer[p - n + i - 1] = str[i]
  BY <1>1, CellsNat DEF Shows
<1>8. n + 1 <= m /\ \A i \in 1 .. n + 1 : z[m - (n + 1) + i - 1] = str[i]
  <2>1. CASE /\ m = p + 1 /\ z[p] = ch
             /\ \A i \in 0 .. Cells - 1 : i # p => z[i] = s.buffer[i]
    <3>1. n + 1 <= m
      BY <1>7, <2>1
    <3>2. ASSUME NEW i \in 1 .. n + 1 PROVE z[m - (n + 1) + i - 1] = str[i]
      <4>1. CASE i = n + 1
        <5>1. m - (n + 1) + i - 1 = p
          BY <2>1, <4>1
        <5> QED BY <1>2, <2>1, <4>1, <5>1
      <4>2. CASE i # n + 1
        <5>1. /\ m - (n + 1) + i - 1 = p - n + i - 1 /\ i \in 1 .. n
              /\ p - n + i - 1 \in 0 .. Cells - 1 /\ p - n + i - 1 # p
          BY <1>7, <2>1, <4>2
        <5> QED BY <1>7, <2>1, <5>1
      <4> QED BY <4>1, <4>2
    <3> QED BY <3>1, <3>2
  <2>2. CASE /\ p + 1 = Cells /\ m = Cells - VGA_WIDTH
             /\ z[Cells - 1 - VGA_WIDTH] = ch \/ VGA_HEIGHT = 1
             /\ \A i \in 0 .. Cells - 1 : i + VGA_WIDTH < Cells - 1 => z[i] = s.buffer[i + VGA_WIDTH]
    <3>1. n + 1 <= m
      BY <2>2
    <3>2. VGA_HEIGHT # 1
      BY <1>7, <2>2, <3>1 DEF Cells
    <3>3. ASSUME NEW i \in 1 .. n + 1 PROVE z[m - (n + 1) + i - 1] = str[i]
      <4>1. CASE i = n + 1
        <5>1. m - (n + 1) + i - 1 = Cells - 1 - VGA_WIDTH
          BY <1>7, <2>2, <4>1
        <5> QED BY <1>2, <2>2, <3>2, <4>1, <5>1
      <4>2. CASE i # n + 1
        <5>1. m - (n + 1) + i - 1 \in 0 .. Cells - 1
          BY <1>7, <3>1
        <5>2. PICK j \in 0 .. Cells - 1 : j = m - (n + 1) + i - 1
          BY <5>1
        <5>3. i \in 1 .. n /\ j + VGA_WIDTH < Cells - 1 /\ j + VGA_WIDTH = p - n + i - 1
          BY <1>7, <2>2, <3>1, <4>2, <5>2
        <5> QED BY <1>7, <2>2, <5>2, <5>3
      <4> QED BY <4>1, <4>2
    <3> QED BY <3>1, <3>3
  <2> QED BY <1>3, <1>4, <2>1, <2>2
<1> QED BY <1>2, <1>5, <1>6, <1>8 DEF Shows

(* Rubbing out takes the last character away, and leaves the others.       *)
LEMMA RubShows ==
    ASSUME NEW s, ScreenOK(s), NEW str, NEW n \in Nat, Shows(s, str, n + 1)
    PROVE  LET t == vga_putchar(s, BS) IN
           Shows(t, str, n) /\ t.cursor = Position(t)
<1> USE TerminalAssumption
<1>1. PICK p \in 0 .. Cells - 1 : p = Position(s)
  BY PositionIs
<1>2. Cells \in Nat /\ n + 1 <= p /\ \A i \in 1 .. n + 1 : s.buffer[p - (n + 1) + i - 1] = str[i]
  BY <1>1, CellsNat DEF Shows
<1>3. PICK q, d, z :
           /\ q \in Rows /\ d \in Columns
           /\ vga_putchar(s, BS) = Screen(q, d, q * VGA_WIDTH + d, z)
           /\ p > 0 => q * VGA_WIDTH + d = p - 1
           /\ \A i \in 0 .. Cells - 1 : i # q * VGA_WIDTH + d => z[i] = s.buffer[i]
  BY <1>1, BackspaceDoes
<1>4. PICK m \in 0 .. Cells - 1 : m = q * VGA_WIDTH + d
  BY <1>3, CellNumber
<1>5. PICK t : t = vga_putchar(s, BS)
  OBVIOUS
<1>6. t.cursor = m /\ Position(t) = m /\ t.buffer = z
  BY <1>3, <1>4, <1>5, ScreenHas
<1>7. m = p - 1 /\ \A i \in 0 .. Cells - 1 : i # m => z[i] = s.buffer[i]
  BY <1>2, <1>3, <1>4
<1>8. ASSUME NEW i \in 1 .. n PROVE z[m - n + i - 1] = str[i]
  <2>1. /\ m - n + i - 1 = p - (n + 1) + i - 1 /\ i \in 1 .. n + 1
        /\ p - (n + 1) + i - 1 \in 0 .. Cells - 1 /\ p - (n + 1) + i - 1 # m
    BY <1>2, <1>7
  <2> QED BY <1>2, <1>7, <2>1
<1> QED BY <1>2, <1>5, <1>6, <1>7, <1>8 DEF Shows
-----------------------------------------------------------------------------
(* Printing a string. *)

\* w holds the screens after each character of str.
IsPrint(w, s, str, m) ==
    w = [n \in 0 .. m |-> IF n = 0 THEN s ELSE vga_putchar(w[n - 1], str[n])]

(* The function by which vga_print prints character after character exists *)
(* for strings of every length: a shortest one without it would have a     *)
(* shorter one.                                                            *)
LEMMA Prints ==
    ASSUME NEW s, NEW str, Len(str) \in Nat
    PROVE  \E w : IsPrint(w, s, str, Len(str)) /\ vga_print(s, str) = w[Len(str)]
<1> DEFINE T == {m \in Nat : ~ \E w : IsPrint(w, s, str, m)}
<1>1. T = {}
  <2> SUFFICES ASSUME T # {} PROVE FALSE
    OBVIOUS
  <2>1. T \subseteq Nat
    OBVIOUS
  <2>2. PICK m \in T : \A y \in T : m <= y
    <3> HIDE DEF T
    <3> QED BY <2>1, LeastNat
  <2>3. m \in Nat /\ ~ \E w : IsPrint(w, s, str, m)
    OBVIOUS
  <2>4. CASE m = 0
    <3>1. IsPrint([k \in 0 .. 0 |-> s], s, str, 0)
      BY DEF IsPrint
    <3> QED BY <2>3, <2>4, <3>1
  <2>5. CASE m # 0
    <3>1. m - 1 \in Nat /\ m - 1 \notin T
      BY <2>2, <2>3, <2>5
    <3>2. PICK v : IsPrint(v, s, str, m - 1)
      BY <3>1
    <3> DEFINE w == [k \in 0 .. m |-> IF k = m THEN vga_putchar(v[m - 1], str[m]) ELSE v[k]]
    <3>3. \A k \in 0 .. m - 1 : w[k] = v[k]
      BY <2>3
    <3>4. \A k \in 0 .. m - 1 : v[k] = IF k = 0 THEN s ELSE vga_putchar(v[k - 1], str[k])
      BY <3>2 DEF IsPrint
    <3>5. w[m] = vga_putchar(v[m - 1], str[m])
      BY <2>3
    <3>6. \A k \in 0 .. m : w[k] = IF k = 0 THEN s ELSE vga_putchar(w[k - 1], str[k])
      <4> HIDE DEF w
      <4> TAKE k \in 0 .. m
      <4>1. CASE k = m
        BY <2>3, <2>5, <3>3, <3>5, <4>1
      <4>2. CASE k # m
        <5>1. k \in 0 .. m - 1 /\ (k # 0 => k - 1 \in 0 .. m - 1)
          BY <2>3, <4>2
        <5> QED BY <3>3, <3>4, <5>1
      <4> QED BY <4>1, <4>2
    <3>7. IsPrint(w, s, str, m)
      <4>1. w = [k \in 0 .. m |-> w[k]]
        OBVIOUS
      <4> HIDE DEF w
      <4> QED BY <3>6, <4>1 DEF IsPrint
    <3> QED BY <2>3, <3>7
  <2> QED BY <2>4, <2>5
<1>2. \E w : IsPrint(w, s, str, Len(str))
  BY <1>1
<1> DEFINE Printed == CHOOSE w : IsPrint(w, s, str, Len(str))
<1>3. IsPrint(Printed, s, str, Len(str))
  <2> HIDE DEF T
  <2> QED BY <1>2
<1>4. vga_print(s, str) = Printed[Len(str)]
  BY Zenon DEF vga_print, IsPrint
<1> QED BY <1>3, <1>4

\* tail is the last m of the len characters of str, and prints on the screen.
Ends(str, len, tail, m) ==
    \A i \in 1 .. m : tail[i] = str[len - m + i] /\ tail[i] # NL /\ tail[i] # BS

(* A string leaves a screen that vga.c can use, and, if its last m        *)
(* characters neither end a row nor rub out, these before the cursor.      *)
LEMMA PrintShows ==
    ASSUME NEW s, ScreenOK(s), NEW str, NEW len \in Nat, Len(str) = len,
           NEW m \in 0 .. len, NEW tail, m <= Cells - VGA_WIDTH,
           Ends(str, len, tail, m)
    PROVE  LET t == vga_print(s, str) IN
           /\ ScreenOK(t)
           /\ Shows(t, tail, m)
           /\ m > 0 => t.cursor = Position(t)
<1> USE TerminalAssumption
<1>1. PICK w : IsPrint(w, s, str, len) /\ vga_print(s, str) = w[len]
  BY Prints
<1>2. \A n \in 0 .. len : w[n] = IF n = 0 THEN s ELSE vga_putchar(w[n - 1], str[n])
  BY <1>1 DEF IsPrint
<1> DEFINE Good(n) == /\ ScreenOK(w[n])
                      /\ n >= len - m => Shows(w[n], tail, n - (len - m))
                      /\ n > len - m => w[n].cursor = Position(w[n])
           T == {n \in 0 .. len : ~ Good(n)}
<1>3. T = {}
  <2> SUFFICES ASSUME T # {} PROVE FALSE
    OBVIOUS
  <2>1. T \subseteq Nat
    OBVIOUS
  <2>2. PICK n \in T : \A y \in T : n <= y
    <3> HIDE DEF T
    <3> QED BY <2>1, LeastNat
  <2>3. CASE n = 0
    <3>1. w[0] = s /\ Position(s) \in Nat
      BY <1>2, PositionIs
    <3>2. Shows(s, tail, 0)
      BY <3>1 DEF Shows
    <3>3. len - m >= 0 /\ (0 >= len - m => 0 - (len - m) = 0)
      OBVIOUS
    <3> QED BY <2>3, <3>1, <3>2, <3>3
  <2>4. CASE n # 0
    <3>1. n \in 1 .. len /\ n - 1 \in 0 .. len /\ n - 1 \notin T
      BY <2>2, <2>4
    <3>2. Good(n - 1)
      BY <3>1
    <3>3. w[n] = vga_putchar(w[n - 1], str[n])
      BY <1>2, <3>1
    <3>4. ScreenOK(w[n])
      BY <3>2, <3>3, PutOK
    <3>5. CASE n > len - m
      <4>1. PICK k \in Nat : k = n - 1 - (len - m)
        BY <3>1, <3>5
      <4>2. /\ k + 1 \in 1 .. m /\ len - m + (k + 1) = n /\ k + 1 <= Cells - VGA_WIDTH
            /\ n - (len - m) = k + 1 /\ n - 1 >= len - m
        BY <3>1, <4>1, CellsNat
      <4>3. tail[k + 1] = str[n] /\ tail[k + 1] # NL /\ tail[k + 1] # BS
        BY <4>2 DEF Ends
      <4>4. Shows(w[n - 1], tail, k)
        BY <3>2, <4>1, <4>2
      <4>5. Shows(w[n], tail, k + 1) /\ w[n].cursor = Position(w[n])
        BY <3>2, <3>3, <4>2, <4>3, <4>4, PutShows
      <4> QED BY <3>4, <4>2, <4>5
    <3>6. CASE ~ (n > len - m)
      <4>1. n >= len - m => n - (len - m) = 0
        BY <3>1, <3>6
      <4>2. Shows(w[n], tail, 0)
        BY <3>4, PositionIs DEF Shows
      <4> QED BY <3>4, <3>6, <4>1, <4>2
    <3> QED BY <3>5, <3>6
  <2> QED BY <2>3, <2>4
<1>4. Good(len) /\ len - (len - m) = m /\ len >= len - m /\ (m > 0 => len > len - m)
  BY <1>3
<1> QED BY <1>1, <1>4

(* So every string leaves a screen that vga.c can use. *)
LEMMA PrintOK ==
    ASSUME NEW s, ScreenOK(s), NEW str, Len(str) \in Nat
    PROVE  ScreenOK(vga_print(s, str))
<1>1. PICK len \in Nat : Len(str) = len
  OBVIOUS
<1>2. 0 \in 0 .. len /\ 0 <= Cells - VGA_WIDTH
  <2>1. 1 * VGA_WIDTH <= VGA_HEIGHT * VGA_WIDTH
    BY TerminalAssumption
  <2> QED BY <2>1, TerminalAssumption, CellsNat DEF Cells
<1>3. Ends(str, len, str, 0)
  BY DEF Ends
<1> QED BY <1>1, <1>2, <1>3, PrintShows
-----------------------------------------------------------------------------
(* Cutting a line into words. *)

Text == Char \cup {NUL}
Places == 0 .. CONSOLE_BUFFER_SIZE - 1

\* A line buffer: the last place holds the 0 that ends the string.
IsLine(buf) == buf \in [Places -> Text] /\ buf[CONSOLE_BUFFER_SIZE - 1] = NUL

\* parse_arguments after n rounds of its loop.
ParseOK(st, n) ==
    /\ st \in [buf : [Places -> Text], at : Places, starts : Seq(Places)]
    /\ IsLine(st.buf)
    /\ Len(st.starts) <= n

(* From every place of a line, the search for a character that some place  *)
(* further on holds ends inside the line.                                  *)
LEMMA Search ==
    ASSUME NEW buf, IsLine(buf), NEW p \in Places, NEW Q, NUL \in Q
    PROVE  LET e == Min({q \in DOMAIN buf : q >= p /\ buf[q] \in Q}) IN
           e \in Places /\ e >= p /\ buf[e] \in Q
<1> DEFINE F == {q \in DOMAIN buf : q >= p /\ buf[q] \in Q}
<1>1. F \subseteq Nat /\ DOMAIN buf = Places
  BY DEF IsLine, Places
<1>2. CONSOLE_BUFFER_SIZE - 1 \in F
  BY <1>1, TerminalAssumption DEF IsLine, Places
<1>3. Min(F) \in F
  <2> HIDE DEF F
  <2> QED BY <1>1, <1>2, MinIs
<1> QED BY <1>1, <1>3

(* The string that starts anywhere in a line ends inside it. *)
LEMMA StringAtIs ==
    ASSUME NEW buf, IsLine(buf), NEW p \in Places
    PROVE  StringAt(buf, p) \in Seq(Text)
<1> DEFINE e == Min({q \in DOMAIN buf : q >= p /\ buf[q] = NUL})
<1>1. e \in Places /\ e >= p
  <2>1. {q \in DOMAIN buf : q >= p /\ buf[q] = NUL} = {q \in DOMAIN buf : q >= p /\ buf[q] \in {NUL}}
    OBVIOUS
  <2> QED BY <2>1, Search
<1>2. StringAt(buf, p) = [i \in 1 .. e - p |-> buf[p + i - 1]]
  BY DEF StringAt
<1> HIDE DEF e
<1>3. PICK n \in Nat : n = e - p
  BY <1>1 DEF Places
<1>4. \A i \in 1 .. n : buf[p + i - 1] \in Text
  <2> TAKE i \in 1 .. n
  <2>1. p + i - 1 \in Places
    BY <1>1, <1>3, TerminalAssumption DEF Places
  <2> QED BY <2>1 DEF IsLine
<1> QED BY <1>2, <1>3, <1>4

(* One round of the loop stays inside the line and leaves its last 0. *)
LEMMA NextWordOK ==
    ASSUME NEW st, NEW n \in Nat, ParseOK(st, n)
    PROVE  ParseOK(NextWord(st), n + 1)
<1> DEFINE start == Min({q \in DOMAIN st.buf : q >= st.at /\ st.buf[q] # SPACE})
           end == Min({q \in DOMAIN st.buf : q >= start /\ st.buf[q] \in {SPACE, NUL}})
<1>1. /\ IsLine(st.buf) /\ st.buf \in [Places -> Text] /\ st.at \in Places
      /\ st.starts \in Seq(Places) /\ Len(st.starts) <= n
  BY DEF ParseOK
<1>2. start \in Places
  <2>1. PICK Q : Q = Text \ {SPACE}
    OBVIOUS
  <2>2. {q \in DOMAIN st.buf : q >= st.at /\ st.buf[q] # SPACE}
           = {q \in DOMAIN st.buf : q >= st.at /\ st.buf[q] \in Q}
    BY <1>1, <2>1
  <2>3. NUL \in Q
    BY <2>1, TerminalAssumption DEF Text
  <2>4. Min({q \in DOMAIN st.buf : q >= st.at /\ st.buf[q] \in Q}) \in Places
    BY <1>1, <2>3, Search
  <2> QED BY <2>2, <2>4
<1>3. end \in Places /\ st.buf[end] \in {SPACE, NUL}
  <2> HIDE DEF start
  <2> QED BY <1>1, <1>2, Search
<1>4. NextWord(st) = IF st.buf[start] = NUL
                     THEN [st EXCEPT !.at = start]
                     ELSE [at |-> IF st.buf[end] = NUL THEN end ELSE end + 1,
                           buf |-> [st.buf EXCEPT ![end] = NUL],
                           starts |-> Append(st.starts, start)]
  BY DEF NextWord
<1> HIDE DEF start, end
<1>5. CASE st.buf[start] = NUL
  <2>1. NextWord(st) = [st EXCEPT !.at = start]
    BY <1>4, <1>5
  <2>2. /\ NextWord(st) \in [buf : [Places -> Text], at : Places, starts : Seq(Places)]
        /\ NextWord(st).buf = st.buf /\ NextWord(st).starts = st.starts
    BY <1>2, <2>1 DEF ParseOK
  <2> QED BY <1>1, <2>2 DEF ParseOK
<1>6. CASE st.buf[start] # NUL
  <2>1. PICK at, buf, starts :
           /\ at = IF st.buf[end] = NUL THEN end ELSE end + 1
           /\ buf = [st.buf EXCEPT ![end] = NUL]
           /\ starts = Append(st.starts, start)
    OBVIOUS
  <2>2. NextWord(st) = [at |-> at, buf |-> buf, starts |-> starts]
    BY <1>4, <1>6, <2>1
  <2>3. at \in Places
    <3>1. CASE st.buf[end] = NUL
      BY <1>3, <2>1, <3>1
    <3>2. CASE st.buf[end] # NUL
      <4>1. end # CONSOLE_BUFFER_SIZE - 1
        BY <1>1, <3>2 DEF IsLine
      <4> QED BY <1>3, <2>1, <3>2, <4>1, TerminalAssumption DEF Places
    <3> QED BY <3>1, <3>2
  <2>4. buf \in [Places -> Text] /\ buf[CONSOLE_BUFFER_SIZE - 1] = NUL
    <3>1. NUL \in Text /\ CONSOLE_BUFFER_SIZE - 1 \in Places
      BY TerminalAssumption DEF Text, Places
    <3> QED BY <1>1, <1>3, <2>1, <3>1 DEF IsLine
  <2>5. starts \in Seq(Places) /\ Len(starts) <= n + 1
    BY <1>1, <1>2, <2>1, AppendProperties
  <2>6. NextWord(st).buf = buf /\ NextWord(st).starts = starts
    BY <2>2
  <2>7. NextWord(st) \in [buf : [Places -> Text], at : Places, starts : Seq(Places)]
    BY <2>2, <2>3, <2>4, <2>5
  <2> QED BY <2>4, <2>5, <2>6, <2>7 DEF ParseOK, IsLine
<1> QED BY <1>5, <1>6

\* One round of parse_arguments, if the line goes on.
Round(st) == IF st.buf[st.at] = NUL THEN st ELSE NextWord(st)

Start(input) == [buf |-> input, at |-> 0, starts |-> <<>>]

\* w holds the states of the loop of parse_arguments.
IsParse(w, input, m) ==
    w = [n \in 0 .. m |-> IF n = 0 THEN Start(input) ELSE Round(w[n - 1])]

(* The function by which parse_arguments counts its rounds exists. *)
LEMMA Parses ==
    ASSUME NEW input
    PROVE  \E w : /\ IsParse(w, input, MAX_ARGS)
                  /\ parse_arguments(input) =
                        [i \in DOMAIN w[MAX_ARGS].starts |->
                            StringAt(w[MAX_ARGS].buf, w[MAX_ARGS].starts[i])]
<1> DEFINE T == {m \in Nat : ~ \E w : IsParse(w, input, m)}
<1>1. T = {}
  <2> SUFFICES ASSUME T # {} PROVE FALSE
    OBVIOUS
  <2>1. T \subseteq Nat
    OBVIOUS
  <2>2. PICK m \in T : \A y \in T : m <= y
    <3> HIDE DEF T
    <3> QED BY <2>1, LeastNat
  <2>3. m \in Nat /\ ~ \E w : IsParse(w, input, m)
    OBVIOUS
  <2>4. CASE m = 0
    <3>1. IsParse([k \in 0 .. 0 |-> Start(input)], input, 0)
      BY DEF IsParse
    <3> QED BY <2>3, <2>4, <3>1
  <2>5. CASE m # 0
    <3>1. m - 1 \in Nat /\ m - 1 \notin T
      BY <2>2, <2>3, <2>5
    <3>2. PICK v : IsParse(v, input, m - 1)
      BY <3>1
    <3> DEFINE w == [k \in 0 .. m |-> IF k = m THEN Round(v[m - 1]) ELSE v[k]]
    <3>3. \A k \in 0 .. m - 1 : w[k] = v[k]
      BY <2>3
    <3>4. \A k \in 0 .. m - 1 : v[k] = IF k = 0 THEN Start(input) ELSE Round(v[k - 1])
      BY <3>2 DEF IsParse
    <3>5. w[m] = Round(v[m - 1])
      BY <2>3
    <3>6. \A k \in 0 .. m : w[k] = IF k = 0 THEN Start(input) ELSE Round(w[k - 1])
      <4> HIDE DEF w
      <4> TAKE k \in 0 .. m
      <4>1. CASE k = m
        BY <2>3, <2>5, <3>3, <3>5, <4>1
      <4>2. CASE k # m
        <5>1. k \in 0 .. m - 1 /\ (k # 0 => k - 1 \in 0 .. m - 1)
          BY <2>3, <4>2
        <5> QED BY <3>3, <3>4, <5>1
      <4> QED BY <4>1, <4>2
    <3>7. IsParse(w, input, m)
      <4>1. w = [k \in 0 .. m |-> w[k]]
        OBVIOUS
      <4> HIDE DEF w
      <4> QED BY <3>6, <4>1 DEF IsParse
    <3> QED BY <2>3, <3>7
  <2> QED BY <2>4, <2>5
<1>2. \E w : IsParse(w, input, MAX_ARGS)
  BY <1>1, TerminalAssumption
<1> DEFINE Parsed == CHOOSE w : IsParse(w, input, MAX_ARGS)
<1>3. IsParse(Parsed, input, MAX_ARGS)
  <2> HIDE DEF T
  <2> QED BY <1>2
<1>4. parse_arguments(input) =
         [i \in DOMAIN Parsed[MAX_ARGS].starts |->
             StringAt(Parsed[MAX_ARGS].buf, Parsed[MAX_ARGS].starts[i])]
  BY Zenon DEF parse_arguments, IsParse, Round, Start
<1> HIDE DEF Parsed
<1> QED BY <1>3, <1>4

(* The words of a line: at most MAX_ARGS strings. *)
LEMMA ParseIs ==
    ASSUME NEW input, IsLine(input)
    PROVE  parse_arguments(input) \in Seq(Seq(Text)) /\ Len(parse_arguments(input)) <= MAX_ARGS
<1> USE TerminalAssumption
<1>1. PICK w : /\ IsParse(w, input, MAX_ARGS)
               /\ parse_arguments(input) =
                     [i \in DOMAIN w[MAX_ARGS].starts |->
                         StringAt(w[MAX_ARGS].buf, w[MAX_ARGS].starts[i])]
  BY Parses
<1>2. \A n \in 0 .. MAX_ARGS : w[n] = IF n = 0 THEN Start(input) ELSE Round(w[n - 1])
  BY <1>1 DEF IsParse
<1> DEFINE T == {n \in 0 .. MAX_ARGS : ~ ParseOK(w[n], n)}
<1>3. T = {}
  <2> SUFFICES ASSUME T # {} PROVE FALSE
    OBVIOUS
  <2>1. T \subseteq Nat
    OBVIOUS
  <2>2. PICK n \in T : \A y \in T : n <= y
    <3> HIDE DEF T
    <3> QED BY <2>1, LeastNat
  <2>3. CASE n = 0
    <3>1. ParseOK(Start(input), 0)
      <4>1. 0 \in Places /\ <<>> \in Seq(Places) /\ Len(<<>>) = 0
        BY DEF Places
      <4>2. Start(input).buf = input /\ Start(input).starts = <<>>
        BY DEF Start
      <4>3. Start(input) \in [buf : [Places -> Text], at : Places, starts : Seq(Places)]
        BY <4>1 DEF Start, IsLine
      <4> QED BY <4>1, <4>2, <4>3 DEF ParseOK
    <3> QED BY <1>2, <2>3, <3>1
  <2>4. CASE n # 0
    <3>1. n \in 1 .. MAX_ARGS /\ n - 1 \in 0 .. MAX_ARGS /\ n - 1 \notin T
      BY <2>2, <2>4
    <3>2. ParseOK(w[n - 1], n - 1)
      BY <3>1
    <3>3. w[n] = Round(w[n - 1])
      BY <1>2, <3>1
    <3>4. n - 1 \in Nat /\ (n - 1) + 1 = n
      BY <3>1
    <3>5. ParseOK(w[n - 1], n)
      BY <3>2, <3>4, LenProperties DEF ParseOK
    <3>6. ParseOK(NextWord(w[n - 1]), n)
      BY <3>2, <3>4, NextWordOK
    <3> QED BY <3>3, <3>5, <3>6 DEF Round
  <2> QED BY <2>3, <2>4
<1>4. ParseOK(w[MAX_ARGS], MAX_ARGS)
  BY <1>3
<1>5. PICK starts, buf :
         /\ starts \in Seq(Places)
         /\ buf = w[MAX_ARGS].buf /\ starts = w[MAX_ARGS].starts
         /\ IsLine(buf) /\ Len(starts) <= MAX_ARGS
  BY <1>4 DEF ParseOK
<1>6. PICK n \in Nat : n = Len(starts) /\ DOMAIN starts = 1 .. n
  BY <1>5, LenProperties
<1>7. parse_arguments(input) = [i \in 1 .. n |-> StringAt(buf, starts[i])]
  BY <1>1, <1>5, <1>6, Zenon
<1>8. \A i \in 1 .. n : StringAt(buf, starts[i]) \in Seq(Text)
  BY <1>5, <1>6, StringAtIs
<1> QED BY <1>5, <1>6, <1>7, <1>8

\* What echo adds to its output for the n-th word.
Spaced(out, word, n) == out \o (IF n > 2 THEN <<SPACE>> ELSE <<>>) \o word

\* w holds the output of echo word by word.
IsEcho(w, args, m) ==
    w = [n \in 1 .. m |-> IF n = 1 THEN <<>> ELSE Spaced(w[n - 1], args[n], n)]

(* The function by which echo joins its words exists. *)
LEMMA Echoes ==
    ASSUME NEW args, Len(args) \in Nat
    PROVE  \E w : IsEcho(w, args, Len(args)) /\ Echoed(args) = Append(w[Len(args)], NL)
<1> DEFINE T == {m \in Nat : ~ \E w : IsEcho(w, args, m)}
<1>1. T = {}
  <2> SUFFICES ASSUME T # {} PROVE FALSE
    OBVIOUS
  <2>1. T \subseteq Nat
    OBVIOUS
  <2>2. PICK m \in T : \A y \in T : m <= y
    <3> HIDE DEF T
    <3> QED BY <2>1, LeastNat
  <2>3. m \in Nat /\ ~ \E w : IsEcho(w, args, m)
    OBVIOUS
  <2>4. CASE m = 0
    <3>1. IsEcho([k \in 1 .. 0 |-> <<>>], args, 0)
      BY DEF IsEcho
    <3> QED BY <2>3, <2>4, <3>1
  <2>5. CASE m # 0
    <3>1. m - 1 \in Nat /\ m - 1 \notin T
      BY <2>2, <2>3, <2>5
    <3>2. PICK v : IsEcho(v, args, m - 1)
      BY <3>1
    <3> DEFINE w == [k \in 1 .. m |-> IF k = m /\ m # 1 THEN Spaced(v[m - 1], args[m], m)
                                      ELSE IF k = 1 THEN <<>> ELSE v[k]]
    <3>3. \A k \in 1 .. m - 1 : v[k] = IF k = 1 THEN <<>> ELSE Spaced(v[k - 1], args[k], k)
      BY <3>2 DEF IsEcho
    <3>4. \A k \in 1 .. m - 1 : w[k] = v[k]
      <4> TAKE k \in 1 .. m - 1
      <4>1. k \in 1 .. m /\ k # m
        BY <2>3
      <4>2. w[k] = IF k = 1 THEN <<>> ELSE v[k]
        BY <4>1
      <4> QED BY <3>3, <4>2
    <3>5. /\ m # 1 => w[m] = Spaced(v[m - 1], args[m], m)
          /\ m = 1 => w[m] = <<>>
      BY <2>3, <2>5
    <3>6. \A k \in 1 .. m : w[k] = IF k = 1 THEN <<>> ELSE Spaced(w[k - 1], args[k], k)
      <4> HIDE DEF w
      <4> TAKE k \in 1 .. m
      <4>1. CASE k = m
        <5>1. m # 1 => m - 1 \in 1 .. m - 1
          BY <2>3, <2>5
        <5> QED BY <3>4, <3>5, <4>1, <5>1
      <4>2. CASE k # m
        <5>1. k \in 1 .. m - 1 /\ (k # 1 => k - 1 \in 1 .. m - 1)
          BY <2>3, <4>2
        <5> QED BY <3>3, <3>4, <5>1
      <4> QED BY <4>1, <4>2
    <3>7. IsEcho(w, args, m)
      <4>1. w = [k \in 1 .. m |-> w[k]]
        OBVIOUS
      <4> HIDE DEF w
      <4> QED BY <3>6, <4>1 DEF IsEcho
    <3> QED BY <2>3, <3>7
  <2> QED BY <2>4, <2>5
<1>2. \E w : IsEcho(w, args, Len(args))
  BY <1>1
<1> DEFINE Upto == CHOOSE w : IsEcho(w, args, Len(args))
<1>3. IsEcho(Upto, args, Len(args))
  <2> HIDE DEF T
  <2> QED BY <1>2
<1>4. Echoed(args) = Append(Upto[Len(args)], NL)
  BY Zenon DEF Echoed, IsEcho, Spaced
<1> HIDE DEF Upto
<1> QED BY <1>3, <1>4

(* What echo prints is a string. *)
LEMMA EchoedIs ==
    ASSUME NEW args \in Seq(Seq(Text)), args # <<>>
    PROVE  Len(Echoed(args)) \in Nat
<1>1. PICK len \in Nat : len = Len(args) /\ len >= 1 /\ \A i \in 1 .. len : args[i] \in Seq(Text)
  <2>1. Len(args) \in Nat /\ Len(args) # 0
    BY EmptySeq, LenProperties
  <2> QED BY <2>1, ElementOfSeq
<1>2. PICK w : IsEcho(w, args, len) /\ Echoed(args) = Append(w[len], NL)
  BY <1>1, Echoes
<1>3. \A n \in 1 .. len : w[n] = IF n = 1 THEN <<>> ELSE Spaced(w[n - 1], args[n], n)
  BY <1>2 DEF IsEcho
<1> DEFINE T == {n \in 1 .. len : w[n] \notin Seq(Text)}
<1>4. T = {}
  <2> SUFFICES ASSUME T # {} PROVE FALSE
    OBVIOUS
  <2>1. T \subseteq Nat
    OBVIOUS
  <2>2. PICK n \in T : \A y \in T : n <= y
    <3> HIDE DEF T
    <3> QED BY <2>1, LeastNat
  <2>3. CASE n = 1
    <3>1. w[1] = <<>>
      BY <1>1, <1>3
    <3>2. w[1] \in Seq(Text)
      BY <3>1
    <3> QED BY <2>2, <2>3, <3>2, Zenon
  <2>4. CASE n # 1
    <3>1. n \in 1 .. len /\ n - 1 \in 1 .. len /\ n - 1 \notin T
      BY <2>2, <2>4
    <3>2. PICK out \in Seq(Text), word \in Seq(Text) : out = w[n - 1] /\ word = args[n]
      BY <1>1, <3>1
    <3>3. PICK gap \in Seq(Text) : gap = IF n > 2 THEN <<SPACE>> ELSE <<>>
      <4>1. SPACE \in Text
        BY TerminalAssumption DEF Text
      <4>2. <<SPACE>> \in Seq(Text) /\ <<>> \in Seq(Text)
        BY <4>1
      <4> QED BY <4>2
    <3>4. w[n] = out \o gap \o word
      BY <1>3, <2>4, <3>1, <3>2, <3>3, Zenon DEF Spaced
    <3>5. out \o gap \in Seq(Text)
      BY ConcatProperties
    <3>6. (out \o gap) \o word \in Seq(Text)
      BY <3>5, ConcatProperties
    <3> QED BY <2>2, <3>4, <3>6
  <2> QED BY <2>3, <2>4
<1>5. PICK out \in Seq(Text \cup {NL}) : out = w[len]
  <2>1. w[len] \in Seq(Text)
    BY <1>1, <1>4
  <2> QED BY <2>1
<1>6. Append(out, NL) \in Seq(Text \cup {NL})
  BY AppendProperties
<1> QED BY <1>2, <1>5, <1>6, LenProperties

(* Every command leaves a screen that vga.c can use. *)
LEMMA CommandOK ==
    ASSUME NEW s, ScreenOK(s), NEW args \in Seq(Seq(Text)), NEW t \in execute_command(s, args)
    PROVE  ScreenOK(t)
<1>1. CASE args = <<>>
  BY <1>1 DEF execute_command
<1>2. CASE args # <<>> /\ args[1] = CLEAR
  <2>1. t = vga_clear(s)
    BY <1>2 DEF execute_command
  <2> QED BY <2>1, ClearOK
<1>3. CASE args # <<>> /\ args[1] # CLEAR /\ args[1] = ECHO
  <2>1. t = vga_print(s, Echoed(args))
    BY <1>3 DEF execute_command
  <2> QED BY <1>3, <2>1, EchoedIs, PrintOK
<1>4. CASE args # <<>> /\ args[1] # CLEAR /\ args[1] # ECHO
  <2>1. PICK out \in Outputs : t = vga_print(s, out)
    BY <1>4 DEF execute_command
  <2>2. out \in Seq(Range(out))
    BY TerminalAssumption
  <2>3. Len(out) \in Nat
    BY <2>2, LenProperties
  <2> QED BY <2>1, <2>3, PrintOK
<1> QED BY <1>1, <1>2, <1>3, <1>4
-----------------------------------------------------------------------------
(* The invariant. *)

\* What stands before the cursor: the prompt and what was typed.
Seen ==
    [i \in 1 .. Len(PROMPT) + CONSOLE_BUFFER_SIZE |->
        IF i <= Len(PROMPT) THEN PROMPT[i] ELSE line_buffer[i - Len(PROMPT) - 1]]

\* Nothing of an earlier line is behind the end of this one.
BufferOK ==
    /\ line_length \in Places
    /\ line_buffer \in [Places -> Text]
    /\ \A i \in Places : i >= line_length => line_buffer[i] = NUL

SeenOK ==
    /\ screen.cursor = Position(screen)
    /\ Shows(screen, Seen, Len(PROMPT) + line_length)

TermInv == ScreenOK(screen) /\ BufferOK /\ SeenOK /\ Len(argv) <= MAX_ARGS

(* The prompt is a string, and can be shown on one screen. *)
LEMMA PromptIs ==
    /\ Len(PROMPT) \in Nat /\ Len(PROMPT) > 0
    /\ PROMPT \in Seq(Range(PROMPT))
    /\ \A i \in 1 .. Len(PROMPT) : PROMPT[i] # NL /\ PROMPT[i] # BS
    /\ Len(PROMPT) + CONSOLE_BUFFER_SIZE - 1 <= Cells - VGA_WIDTH
<1> USE TerminalAssumption
<1>1. PROMPT \in Seq(Range(PROMPT))
  OBVIOUS
<1>2. Len(PROMPT) \in Nat /\ Len(PROMPT) # 0 /\ DOMAIN PROMPT = 1 .. Len(PROMPT)
  BY <1>1, EmptySeq, LenProperties
<1>3. ASSUME NEW i \in 1 .. Len(PROMPT) PROVE PROMPT[i] # NL /\ PROMPT[i] # BS
  <2>1. PROMPT[i] \in Range(PROMPT)
    BY <1>2 DEF Range
  <2> QED BY <2>1
<1>4. Len(PROMPT) + CONSOLE_BUFFER_SIZE - 1 <= Cells - VGA_WIDTH
  BY <1>2, CellsNat
<1> QED BY <1>1, <1>2, <1>3, <1>4

(* Any string that ends with the prompt shows it. *)
LEMMA Prompted ==
    ASSUME NEW s, ScreenOK(s), NEW len \in Nat, NEW str, Len(str) = len + Len(PROMPT),
           \A i \in 1 .. Len(PROMPT) : str[len + i] = PROMPT[i]
    PROVE  LET t == vga_print(s, str) IN
           /\ ScreenOK(t) /\ t.cursor = Position(t)
           /\ Shows(t, PROMPT, Len(PROMPT))
<1>1. PICK m \in Nat : m = Len(PROMPT)
  BY PromptIs
<1>2. PICK all \in Nat : all = len + m /\ Len(str) = all /\ m \in 0 .. all /\ all - m = len
  BY <1>1
<1>3. m <= Cells - VGA_WIDTH /\ m > 0
  BY <1>1, PromptIs, CellsNat, TerminalAssumption
<1>4. Ends(str, all, PROMPT, m)
  BY <1>1, <1>2, PromptIs DEF Ends
<1> QED BY <1>1, <1>2, <1>3, <1>4, PrintShows

(* A new line after the prompt: the screen shows the prompt, which is all  *)
(* there is to see.                                                        *)
FreshIs ==
    line_buffer = EmptyLine /\ line_length = 0 =>
        /\ BufferOK
        /\ \A t : Shows(t, PROMPT, Len(PROMPT)) => Shows(t, Seen, Len(PROMPT) + line_length)

(* A fresh line is that. *)
LEMMA FreshLine == FreshIs
<1> USE TerminalAssumption
<1> SUFFICES ASSUME line_buffer = EmptyLine, line_length = 0
             PROVE  /\ BufferOK
                    /\ \A t : Shows(t, PROMPT, Len(PROMPT)) => Shows(t, Seen, Len(PROMPT) + line_length)
  BY DEF FreshIs
<1>1. BufferOK
  BY DEF BufferOK, EmptyLine, Places, Text
<1>2. \A i \in 1 .. Len(PROMPT) : Seen[i] = PROMPT[i]
  BY PromptIs DEF Seen
<1>3. Len(PROMPT) + line_length = Len(PROMPT)
  BY PromptIs
<1> QED BY <1>1, <1>2, <1>3 DEF Shows

(* The same of the state after a step. *)
LEMMA FreshNext == FreshIs'
BY FreshLine, PTL

(* The first prompt. *)
LEMMA TermInitInv == TermInit => TermInv
<1> USE TerminalAssumption
<1> SUFFICES ASSUME TermInit PROVE TermInv
  OBVIOUS
<1>1. PICK s : s = Screen(0, 0, 0, Empty) /\ screen = vga_print(s, LOGO \o PROMPT)
  BY Zenon DEF TermInit, Screen, Empty
<1>2. ScreenOK(s)
  <2>1. 0 \in Rows /\ 0 \in Columns /\ IsBuffer(Empty)
    BY DEF Rows, Columns, IsBuffer, Empty
  <2> QED BY <1>1, <2>1, ScreenFrom
<1>3. PICK len \in Nat : /\ Len(LOGO \o PROMPT) = len + Len(PROMPT)
                         /\ \A i \in 1 .. Len(PROMPT) : (LOGO \o PROMPT)[len + i] = PROMPT[i]
  <2>1. PICK S : S = Range(LOGO) \cup Range(PROMPT)
    OBVIOUS
  <2>2. LOGO \in Seq(S) /\ PROMPT \in Seq(S)
    <3>1. LOGO \in Seq(Range(LOGO)) /\ PROMPT \in Seq(Range(PROMPT))
      OBVIOUS
    <3> QED BY <2>1, <3>1
  <2>3. Len(LOGO) \in Nat /\ Len(PROMPT) \in Nat
    BY <2>2, LenProperties
  <2>4. /\ Len(LOGO \o PROMPT) = Len(LOGO) + Len(PROMPT)
        /\ \A i \in 1 .. Len(LOGO) + Len(PROMPT) :
              (LOGO \o PROMPT)[i] = IF i <= Len(LOGO) THEN LOGO[i] ELSE PROMPT[i - Len(LOGO)]
    BY <2>2, ConcatProperties
  <2>5. ASSUME NEW i \in 1 .. Len(PROMPT) PROVE (LOGO \o PROMPT)[Len(LOGO) + i] = PROMPT[i]
    <3>1. /\ Len(LOGO) + i \in 1 .. Len(LOGO) + Len(PROMPT) /\ ~ (Len(LOGO) + i <= Len(LOGO))
          /\ (Len(LOGO) + i) - Len(LOGO) = i
      BY <2>3
    <3> QED BY <2>4, <3>1
  <2> QED BY <2>3, <2>4, <2>5
<1>4. ScreenOK(screen) /\ screen.cursor = Position(screen) /\ Shows(screen, PROMPT, Len(PROMPT))
  BY <1>1, <1>2, <1>3, Prompted
<1>5. line_buffer = EmptyLine /\ line_length = 0 /\ argv = <<>>
  BY DEF TermInit
<1>6. Len(argv) <= MAX_ARGS
  BY <1>5
<1> QED BY <1>4, <1>5, <1>6, FreshLine DEF TermInv, SeenOK, FreshIs

(* Typing a character that fits. *)
LEMMA CharStep ==
    ASSUME TermInv, NEW ch \in Char \cup {NUL}, HandleChar(ch)
    PROVE  TermInv'
<1> USE TerminalAssumption
<1>1. PICK n \in Places :
         /\ n = line_length /\ n + 1 \in Places /\ line_length' = n + 1
         /\ line_buffer' = [line_buffer EXCEPT ![n] = ch]
         /\ screen' = vga_putchar(screen, ch) /\ argv' = argv
  <2>1. line_length \in Places /\ line_length + 1 \in Places
    BY DEF TermInv, BufferOK, HandleChar, Places
  <2>2. /\ line_length' = line_length + 1
        /\ line_buffer' = [line_buffer EXCEPT ![line_length] = ch]
        /\ screen' = vga_putchar(screen, ch) /\ argv' = argv
    BY DEF HandleChar
  <2> QED BY <2>1, <2>2
<1>2. ScreenOK(screen')
  BY <1>1, PutOK DEF TermInv
<1>3. BufferOK'
  <2>1. line_buffer' \in [Places -> Text]
    BY <1>1 DEF TermInv, BufferOK, Text
  <2>2. \A i \in Places : i >= n + 1 => line_buffer'[i] = NUL
    BY <1>1 DEF TermInv, BufferOK, Places
  <2> QED BY <1>1, <2>1, <2>2 DEF BufferOK
<1>4. PICK m \in Nat : m = Len(PROMPT) + n /\ m + 1 = Len(PROMPT) + line_length'
  BY <1>1, PromptIs DEF Places
<1>5. PICK f : f = Seen'
  OBVIOUS
<1>6. f[m + 1] = ch /\ \A i \in 1 .. m : f[i] = Seen[i]
  <2>1. f = [i \in 1 .. Len(PROMPT) + CONSOLE_BUFFER_SIZE |->
               IF i <= Len(PROMPT) THEN PROMPT[i] ELSE line_buffer'[i - Len(PROMPT) - 1]]
    BY <1>5 DEF Seen
  <2>2. /\ m + 1 \in 1 .. Len(PROMPT) + CONSOLE_BUFFER_SIZE
        /\ ~ (m + 1 <= Len(PROMPT)) /\ (m + 1) - Len(PROMPT) - 1 = n
    BY <1>1, <1>4, PromptIs DEF Places
  <2>3. line_buffer'[n] = ch
    BY <1>1 DEF TermInv, BufferOK
  <2>4. ASSUME NEW i \in 1 .. m PROVE f[i] = Seen[i]
    <3>1. i \in 1 .. Len(PROMPT) + CONSOLE_BUFFER_SIZE
      BY <1>1, <1>4, PromptIs DEF Places
    <3>2. CASE i <= Len(PROMPT)
      BY <2>1, <3>1, <3>2 DEF Seen
    <3>3. CASE ~ (i <= Len(PROMPT))
      <4>1. i - Len(PROMPT) - 1 \in Places /\ i - Len(PROMPT) - 1 # n
        BY <1>1, <1>4, <3>3, PromptIs DEF Places
      <4>2. line_buffer'[i - Len(PROMPT) - 1] = line_buffer[i - Len(PROMPT) - 1]
        BY <1>1, <4>1 DEF TermInv, BufferOK
      <4> QED BY <2>1, <3>1, <3>3, <4>2 DEF Seen
    <3> QED BY <3>2, <3>3
  <2> QED BY <2>1, <2>2, <2>3, <2>4
<1>7. Shows(screen, f, m)
  BY <1>1, <1>4, <1>6 DEF TermInv, SeenOK, Shows
<1>8. ch # NL /\ ch # BS /\ m + 1 <= Cells - VGA_WIDTH
  BY <1>1, <1>4, PromptIs, CellsNat DEF Places
<1>9. Shows(screen', f, m + 1) /\ screen'.cursor = Position(screen')
  BY <1>1, <1>6, <1>7, <1>8, PutShows DEF TermInv
<1>10. SeenOK'
  BY <1>4, <1>5, <1>9 DEF SeenOK, Shows, Position
<1> QED BY <1>1, <1>2, <1>3, <1>10 DEF TermInv, ScreenOK

(* Rubbing out. *)
LEMMA BackspaceStep ==
    ASSUME TermInv, HandleBackspace
    PROVE  TermInv'
<1> USE TerminalAssumption
<1>1. PICK n \in Places :
         /\ line_length = n + 1 /\ n + 1 \in Places /\ line_length' = n
         /\ line_buffer' = [line_buffer EXCEPT ![n] = NUL]
         /\ screen' = vga_putchar(screen, BS) /\ argv' = argv
  <2>1. line_length - 1 \in Places /\ (line_length - 1) + 1 = line_length
    BY DEF TermInv, BufferOK, HandleBackspace, Places
  <2> QED BY <2>1 DEF TermInv, BufferOK, HandleBackspace
<1>2. ScreenOK(screen')
  BY <1>1, PutOK DEF TermInv
<1>3. BufferOK'
  <2>1. line_buffer' \in [Places -> Text]
    BY <1>1 DEF TermInv, BufferOK, Text
  <2>2. \A i \in Places : i >= n => line_buffer'[i] = NUL
    <3> TAKE i \in Places
    <3>1. i >= n => i = n \/ i >= line_length
      BY <1>1 DEF Places
    <3> QED BY <1>1, <3>1 DEF TermInv, BufferOK
  <2> QED BY <1>1, <2>1, <2>2 DEF BufferOK
<1>4. PICK m \in Nat : m = Len(PROMPT) + n /\ m = Len(PROMPT) + line_length' /\ m + 1 = Len(PROMPT) + line_length
  BY <1>1, PromptIs DEF Places
<1>5. PICK f : f = Seen'
  OBVIOUS
<1>6. \A i \in 1 .. m : f[i] = Seen[i]
  <2>1. f = [i \in 1 .. Len(PROMPT) + CONSOLE_BUFFER_SIZE |->
               IF i <= Len(PROMPT) THEN PROMPT[i] ELSE line_buffer'[i - Len(PROMPT) - 1]]
    BY <1>5 DEF Seen
  <2> TAKE i \in 1 .. m
  <2>2. i \in 1 .. Len(PROMPT) + CONSOLE_BUFFER_SIZE
    BY <1>1, <1>4, PromptIs DEF Places
  <2>3. CASE i <= Len(PROMPT)
    BY <2>1, <2>2, <2>3 DEF Seen
  <2>4. CASE ~ (i <= Len(PROMPT))
    <3>1. i - Len(PROMPT) - 1 \in Places /\ i - Len(PROMPT) - 1 # n
      BY <1>1, <1>4, <2>4, PromptIs DEF Places
    <3>2. line_buffer'[i - Len(PROMPT) - 1] = line_buffer[i - Len(PROMPT) - 1]
      BY <1>1, <3>1 DEF TermInv, BufferOK
    <3> QED BY <2>1, <2>2, <2>4, <3>2 DEF Seen
  <2> QED BY <2>3, <2>4
<1>7. PICK g : g = Seen
  OBVIOUS
<1>8. Shows(screen, g, m + 1)
  BY <1>4, <1>7 DEF TermInv, SeenOK
<1>9. Shows(screen', g, m) /\ screen'.cursor = Position(screen')
  BY <1>1, <1>8, RubShows DEF TermInv
<1>10. Shows(screen', f, m)
  BY <1>6, <1>7, <1>9 DEF Shows
<1>11. SeenOK'
  BY <1>4, <1>5, <1>9, <1>10 DEF SeenOK, Shows, Position
<1> QED BY <1>1, <1>2, <1>3, <1>11 DEF TermInv, ScreenOK

(* Enter: the command runs and the next prompt is shown. *)
LEMMA EnterStep ==
    ASSUME TermInv, HandleEnter
    PROVE  TermInv'
<1> USE TerminalAssumption
<1>1. PICK args : /\ args = parse_arguments(line_buffer) /\ argv' = args
                  /\ \E s \in execute_command(vga_putchar(screen, NL), args) :
                        screen' = vga_print(s, PROMPT)
  BY DEF HandleEnter
<1>2. line_buffer' = EmptyLine /\ line_length' = 0
  BY DEF HandleEnter
<1>3. IsLine(line_buffer)
  BY DEF TermInv, BufferOK, IsLine, Places
<1>4. args \in Seq(Seq(Text)) /\ Len(args) <= MAX_ARGS
  BY <1>1, <1>3, ParseIs
<1>5. PICK s : ScreenOK(s) /\ screen' = vga_print(s, PROMPT)
  BY <1>1, <1>4, PutOK, CommandOK DEF TermInv
<1>6. 0 \in Nat /\ Len(PROMPT) = 0 + Len(PROMPT) /\ \A i \in 1 .. Len(PROMPT) : PROMPT[0 + i] = PROMPT[i]
  BY PromptIs
<1>7. ScreenOK(screen') /\ screen'.cursor = Position(screen') /\ Shows(screen', PROMPT, Len(PROMPT))
  BY <1>5, <1>6, Prompted
<1>8. BufferOK' /\ Shows(screen', Seen', Len(PROMPT) + line_length')
  BY <1>2, <1>7, FreshNext DEF FreshIs
<1>9. SeenOK'
  BY <1>7, <1>8 DEF SeenOK, Shows, Position
<1> QED BY <1>1, <1>4, <1>7, <1>8, <1>9 DEF TermInv, ScreenOK

(* Every step keeps the invariant. *)
LEMMA TermStep == TermInv /\ [TermNext]_term_vars => TermInv'
<1> SUFFICES ASSUME TermInv, [TermNext]_term_vars PROVE TermInv'
  OBVIOUS
<1>1. ASSUME UNCHANGED term_vars PROVE TermInv'
  BY <1>1 DEF term_vars, TermInv, ScreenOK, BufferOK, SeenOK, Seen, Shows, Position
<1>2. CASE HandleEnter
  BY <1>2, EnterStep
<1>3. CASE HandleBackspace
  BY <1>3, BackspaceStep
<1>4. CASE IgnoreBackspace
  BY <1>1, <1>4 DEF IgnoreBackspace
<1>5. CASE RefuseChar
  BY <1>1, <1>5 DEF RefuseChar
<1>6. CASE \E ch \in Char \cup {NUL} : HandleChar(ch)
  BY <1>6, CharStep
<1>7. CASE UNCHANGED term_vars
  BY <1>1, <1>7
<1> QED BY <1>2, <1>3, <1>4, <1>5, <1>6, <1>7 DEF TermNext

(* The console and the screen, for every size of either: row and column    *)
(* name a cell, the line buffer ends with a 0 and holds nothing behind the *)
(* line, and the prompt and the line stand before the cursor.              *)
THEOREM TermInvariant == TermSpec => []TermInv
BY TermInitInv, TermStep, PTL DEF TermSpec

(* No character is stored outside the screen or outside the line, and no   *)
(* command gets more than MAX_ARGS arguments.                              *)
THEOREM TermTypeCorrect == TermSpec => []TermTypeOK
<1>1. TermInv => TermTypeOK
  <2> SUFFICES ASSUME TermInv PROVE TermTypeOK
    OBVIOUS
  <2>1. screen.row \in 0 .. VGA_HEIGHT - 1 /\ screen.column \in 0 .. VGA_WIDTH - 1
    BY DEF TermInv, ScreenOK, Rows, Columns
  <2>2. DOMAIN screen.buffer = 0 .. Cells - 1
    BY DEF TermInv, ScreenOK, IsBuffer
  <2>3. /\ line_length \in 0 .. CONSOLE_BUFFER_SIZE - 1
        /\ line_buffer \in [0 .. CONSOLE_BUFFER_SIZE - 1 -> Char \cup {NUL}]
        /\ Len(argv) <= MAX_ARGS
    BY DEF TermInv, BufferOK, Places, Text
  <2> QED BY <2>1, <2>2, <2>3 DEF TermTypeOK
<1> QED BY <1>1, TermInvariant, PTL

(* What the user sees is the line that Enter will run, on a screen of any  *)
(* size that the prompt and the longest line fit on.                       *)
THEOREM TermLineVisible == TermSpec => []LineOnScreen
<1>1. TermInv => LineOnScreen
  <2> USE TerminalAssumption
  <2> SUFFICES ASSUME TermInv PROVE LineOnScreen
    OBVIOUS
  <2>1. PICK m \in Nat, n \in Places, p \in 0 .. Cells - 1 :
           m = Len(PROMPT) /\ n = line_length /\ p = Position(screen)
    BY PromptIs, PositionIs DEF TermInv, BufferOK
  <2>2. PICK line : line = Line
    OBVIOUS
  <2>3. line = [i \in 1 .. n |-> line_buffer[i - 1]] /\ n \in Nat
    BY <2>1, <2>2 DEF Line, Places
  <2>4. \A i \in 1 .. n : line_buffer[i - 1] \in Text /\ line[i] = line_buffer[i - 1]
    BY <2>1, <2>3 DEF TermInv, BufferOK, Places
  <2>5. line \in Seq(Text) /\ Len(line) = n
    BY <2>3, <2>4
  <2>6. PICK S : S = Text \cup Range(PROMPT)
    OBVIOUS
  <2>7. line \in Seq(S) /\ PROMPT \in Seq(S)
    <3>1. PROMPT \in Seq(Range(PROMPT))
      BY PromptIs
    <3> QED BY <2>5, <2>6, <3>1
  <2>8. PICK seen \in Seq(S) : seen = PROMPT \o line
    BY <2>7, ConcatProperties
  <2>9. /\ Len(seen) = m + n
        /\ \A i \in 1 .. m + n : seen[i] = IF i <= m THEN PROMPT[i] ELSE line[i - m]
    <3>1. /\ Len(PROMPT \o line) = Len(PROMPT) + Len(line)
          /\ \A i \in 1 .. Len(PROMPT) + Len(line) :
                (PROMPT \o line)[i] = IF i <= Len(PROMPT) THEN PROMPT[i] ELSE line[i - Len(PROMPT)]
      BY <2>7, ConcatProperties
    <3> QED BY <2>1, <2>5, <2>8, <3>1
  <2>10. \A i \in 1 .. m + n : Seen[i] = seen[i]
    <3> TAKE i \in 1 .. m + n
    <3>1. i \in 1 .. Len(PROMPT) + CONSOLE_BUFFER_SIZE
      BY <2>1 DEF Places
    <3>2. CASE i <= m
      BY <2>1, <2>9, <3>1, <3>2 DEF Seen
    <3>3. CASE ~ (i <= m)
      <4>1. i - m \in 1 .. n /\ i - m - 1 = (i - m) - 1
        BY <2>3, <3>3
      <4>2. seen[i] = line_buffer[(i - m) - 1]
        BY <2>4, <2>9, <3>3, <4>1
      <4> QED BY <2>1, <3>1, <3>3, <4>1, <4>2 DEF Seen
    <3> QED BY <3>2, <3>3
  <2>11. screen.cursor = p /\ m + n <= p /\ \A i \in 1 .. m + n : screen.buffer[p - (m + n) + i - 1] = Seen[i]
    BY <2>1 DEF TermInv, SeenOK, Shows
  <2>12. DOMAIN seen = 1 .. m + n
    BY <2>8, <2>9, LenProperties
  <2>13. screen.cursor = Position(screen) /\ screen.cursor >= Len(seen)
    BY <2>1, <2>3, <2>9, <2>11
  <2>14. \A i \in DOMAIN seen : screen.buffer[screen.cursor - Len(seen) + i - 1] = seen[i]
    BY <2>9, <2>10, <2>11, <2>12
  <2>15. seen = PROMPT \o Line
    BY <2>2, <2>8
  <2> QED BY <2>13, <2>14, <2>15, Zenon DEF LineOnScreen
<1> QED BY <1>1, TermInvariant, PTL
-----------------------------------------------------------------------------
(* The words of the line are what LineEditor promises. *)

\* One round of the loop of parse_arguments, place by place: the next word
\* starts and ends at start and end, if start is not the end of the line.
NextFound(st, start, end) ==
    /\ start >= st.at /\ st.buf[start] # SPACE
    /\ \A q \in Places : q >= st.at /\ q < start => st.buf[q] = SPACE
    /\ end >= start /\ st.buf[end] \in {SPACE, NUL}
    /\ \A q \in Places : q >= start /\ q < end => st.buf[q] \notin {SPACE, NUL}
    /\ st.buf[start] = NUL =>
          /\ NextWord(st).buf = st.buf /\ NextWord(st).starts = st.starts
          /\ NextWord(st).at = start
    /\ st.buf[start] # NUL =>
          /\ NextWord(st).at = IF st.buf[end] = NUL THEN end ELSE end + 1
          /\ NextWord(st).buf = [st.buf EXCEPT ![end] = NUL]
          /\ NextWord(st).starts = Append(st.starts, start)

(* Every round is like that. *)
LEMMA NextWordDoes ==
    ASSUME NEW st, NEW n \in Nat, ParseOK(st, n)
    PROVE  \E start, end \in Places : NextFound(st, start, end)
<1> DEFINE F == {q \in DOMAIN st.buf : q >= st.at /\ st.buf[q] # SPACE}
           start == Min(F)
           G == {q \in DOMAIN st.buf : q >= start /\ st.buf[q] \in {SPACE, NUL}}
           end == Min(G)
<1>1. /\ IsLine(st.buf) /\ DOMAIN st.buf = Places /\ st.at \in Places
      /\ st \in [buf : [Places -> Text], at : Places, starts : Seq(Places)]
  BY DEF ParseOK
<1>2. Places \subseteq Nat /\ CONSOLE_BUFFER_SIZE - 1 \in Places /\ \A q \in Places : q <= CONSOLE_BUFFER_SIZE - 1
  BY TerminalAssumption DEF Places
<1>3. start \in F /\ \A q \in F : start <= q
  <2>1. F \subseteq Nat /\ CONSOLE_BUFFER_SIZE - 1 \in F
    BY <1>1, <1>2, TerminalAssumption DEF IsLine
  <2> HIDE DEF F
  <2> QED BY <2>1, MinIs
<1>4. NextWord(st) = IF st.buf[start] = NUL
                     THEN [st EXCEPT !.at = start]
                     ELSE [at |-> IF st.buf[end] = NUL THEN end ELSE end + 1,
                           buf |-> [st.buf EXCEPT ![end] = NUL],
                           starts |-> Append(st.starts, start)]
  BY DEF NextWord
<1> HIDE DEF start
<1>5. start \in Places /\ start >= st.at /\ st.buf[start] # SPACE
  BY <1>1, <1>3
<1>6. ASSUME NEW q \in Places, q >= st.at, q < start PROVE st.buf[q] = SPACE
  BY <1>1, <1>2, <1>3, <1>5, <1>6
<1>7. end \in G /\ \A q \in G : end <= q
  <2>1. G \subseteq Nat /\ CONSOLE_BUFFER_SIZE - 1 \in G
    BY <1>1, <1>2, <1>5 DEF IsLine
  <2> HIDE DEF G
  <2> QED BY <2>1, MinIs
<1> HIDE DEF end
<1>8. end \in Places /\ end >= start /\ st.buf[end] \in {SPACE, NUL}
  BY <1>1, <1>7
<1>9. ASSUME NEW q \in Places, q >= start, q < end PROVE st.buf[q] \notin {SPACE, NUL}
  BY <1>1, <1>2, <1>7, <1>8, <1>9
<1> HIDE DEF F, G
<1>10. st.buf[start] = NUL =>
         /\ NextWord(st).buf = st.buf /\ NextWord(st).starts = st.starts
         /\ NextWord(st).at = start
  <2> SUFFICES ASSUME st.buf[start] = NUL
               PROVE  /\ NextWord(st).buf = st.buf /\ NextWord(st).starts = st.starts
                      /\ NextWord(st).at = start
    OBVIOUS
  <2>1. NextWord(st) = [st EXCEPT !.at = start]
    BY <1>4
  <2> QED BY <1>1, <2>1
<1>11. st.buf[start] # NUL =>
         /\ NextWord(st).at = IF st.buf[end] = NUL THEN end ELSE end + 1
         /\ NextWord(st).buf = [st.buf EXCEPT ![end] = NUL]
         /\ NextWord(st).starts = Append(st.starts, start)
  BY <1>4
<1>12. NextFound(st, start, end)
  BY <1>5, <1>6, <1>8, <1>9, <1>10, <1>11 DEF NextFound
<1> QED BY <1>5, <1>8, <1>12

\* The line input ends at e.
EndsAt(input, e) ==
    /\ IsLine(input) /\ e \in Places /\ input[e] = NUL
    /\ \A q \in Places : q < e => input[q] # NUL

\* A word of the line, from place s to before place f, which has been cut out
\* of buf.
WordCut(buf, input, e, s, f) ==
    /\ s \in Places /\ f \in Places /\ s < f /\ f <= e
    /\ s = 0 \/ input[s - 1] = SPACE
    /\ f = e \/ input[f] = SPACE
    /\ buf[f] = NUL
    /\ \A q \in Places : s <= q /\ q < f => buf[q] = input[q] /\ input[q] # SPACE

\* Up to place at, all n words of the line have been cut out of buf; they
\* start and end at from and to.
AllCut(buf, input, e, at, n, from, to) ==
    /\ at \in Places /\ at <= e
    /\ at = 0 \/ at = e \/ input[at - 1] = SPACE
    /\ \A q \in Places : q >= at => buf[q] = input[q]
    /\ \A i \in 1 .. n : WordCut(buf, input, e, from[i], to[i]) /\ to[i] <= at
    /\ \A i, j \in 1 .. n : i < j => to[i] < from[j]
    /\ \A q \in Places : q < at => input[q] = SPACE \/ \E i \in 1 .. n : from[i] <= q /\ q < to[i]

\* parse_arguments after n rounds: it has found n words, or all there are.
ParseCut(st, input, e, n) ==
    /\ ParseOK(st, n)
    /\ Len(st.starts) = n \/ st.at = e
    /\ \E to : AllCut(st.buf, input, e, st.at, Len(st.starts), st.starts, to)

(* Cutting out the next word keeps the ones before. *)
LEMMA CutMore ==
    ASSUME NEW input, NEW e, EndsAt(input, e), NEW buf \in [Places -> Text],
           NEW at, NEW n \in Nat, NEW from \in Seq(Places), Len(from) = n, NEW to,
           AllCut(buf, input, e, at, n, from, to),
           NEW start \in Places, NEW end \in Places,
           start >= at, buf[start] # SPACE, buf[start] # NUL, at # e,
           \A q \in Places : q >= at /\ q < start => buf[q] = SPACE,
           end >= start, buf[end] \in {SPACE, NUL},
           \A q \in Places : q >= start /\ q < end => buf[q] \notin {SPACE, NUL}
    PROVE  \E more : AllCut([buf EXCEPT ![end] = NUL], input, e,
                            IF buf[end] = NUL THEN end ELSE end + 1,
                            n + 1, Append(from, start), more)
<1> USE TerminalAssumption
<1>1. /\ Places \subseteq Nat /\ at \in Places /\ at < e /\ e \in Places
      /\ \A p, q \in Places : p < q => p + 1 \in Places
      /\ \A p \in Places : p # 0 => p - 1 \in Places
      /\ input \in [Places -> Text] /\ SPACE # NUL
  BY DEF AllCut, EndsAt, IsLine, Places
<1>2. \A q \in Places : q >= at => buf[q] = input[q]
  BY DEF AllCut
<1>3. input[e] = NUL /\ \A q \in Places : q < e => input[q] # NUL
  BY DEF EndsAt
<1>4. start < e
  <2>1. buf[e] = NUL
    BY <1>1, <1>2, <1>3
  <2>2. ~ (e < start)
    BY <1>1, <2>1
  <2> QED BY <1>1, <2>1, <2>2
<1>5. start < end /\ end <= e /\ at < end /\ (buf[end] = NUL => end = e) /\ (buf[end] # NUL => input[end] = SPACE /\ end < e)
  <2>1. start < end
    BY <1>1
  <2>2. buf[e] = NUL /\ buf[end] = input[end]
    BY <1>1, <1>2, <1>3
  <2>3. ~ (e < end)
    BY <1>1, <1>4, <2>2
  <2>4. end < e => input[end] # NUL
    BY <1>3
  <2> QED BY <1>1, <1>3, <2>1, <2>2, <2>3, <2>4
<1>6. PICK b, now, s, more :
         /\ b = [buf EXCEPT ![end] = NUL] /\ now = IF buf[end] = NUL THEN end ELSE end + 1
         /\ s = Append(from, start) /\ more = [i \in 1 .. n + 1 |-> IF i = n + 1 THEN end ELSE to[i]]
  OBVIOUS
<1>7. now \in Places /\ now <= e /\ end <= now /\ (now = e \/ input[now - 1] = SPACE)
  BY <1>1, <1>5, <1>6
<1>8. /\ b[end] = NUL /\ \A q \in Places : q # end => b[q] = buf[q]
      /\ \A i \in 1 .. n : s[i] = from[i] /\ more[i] = to[i]
      /\ s[n + 1] = start /\ more[n + 1] = end
  <2>1. b[end] = NUL /\ \A q \in Places : q # end => b[q] = buf[q]
    BY <1>6
  <2>2. (\A i \in 1 .. n : s[i] = from[i]) /\ s[n + 1] = start
    BY <1>6, AppendProperties
  <2>3. (\A i \in 1 .. n : more[i] = to[i]) /\ more[n + 1] = end
    BY <1>6
  <2> QED BY <2>1, <2>2, <2>3
<1>9. \A q \in Places : q >= now => b[q] = input[q]
  <2> TAKE q \in Places
  <2> HAVE q >= now
  <2>1. CASE q = end
    BY <1>1, <1>3, <1>5, <1>6, <1>7, <1>8, <2>1
  <2>2. CASE q # end
    <3>1. q >= at
      <4>1. at \in Nat /\ end \in Nat /\ now \in Nat /\ q \in Nat
        BY <1>1, <1>7
      <4> QED BY <1>5, <1>7, <4>1
    <3> QED BY <1>2, <1>8, <2>2, <3>1
  <2> QED BY <2>1, <2>2
<1>10. ASSUME NEW i \in 1 .. n + 1
       PROVE  WordCut(b, input, e, s[i], more[i]) /\ more[i] <= now /\ (i \in 1 .. n => more[i] <= at)
  <2>1. CASE i \in 1 .. n
    <3>1. WordCut(buf, input, e, from[i], to[i]) /\ to[i] <= at
      BY <2>1 DEF AllCut
    <3>2. PICK g, f \in Places : g = from[i] /\ f = to[i] /\ WordCut(buf, input, e, g, f) /\ f <= at
      BY <3>1 DEF WordCut
    <3>3. g \in Nat /\ f \in Nat /\ at \in Nat /\ end \in Nat /\ now \in Nat
      BY <1>1, <1>7
    <3>4. f <= now /\ f < end
      BY <1>5, <1>7, <3>2, <3>3
    <3>5. \A q \in Places : q <= f => b[q] = buf[q]
      BY <1>1, <1>8, <3>3, <3>4
    <3>6. WordCut(b, input, e, g, f)
      <4>1. b[f] = NUL
        BY <3>2, <3>3, <3>5 DEF WordCut
      <4>2. \A q \in Places : g <= q /\ q < f => b[q] = input[q] /\ input[q] # SPACE
        <5> TAKE q \in Places
        <5> HAVE g <= q /\ q < f
        <5>1. buf[q] = input[q] /\ input[q] # SPACE
          BY <3>2 DEF WordCut
        <5>2. q <= f
          BY <1>1, <3>3
        <5> QED BY <3>5, <5>1, <5>2
      <4> QED BY <3>2, <4>1, <4>2 DEF WordCut
    <3> QED BY <1>8, <2>1, <3>2, <3>4, <3>6
  <2>2. CASE i \notin 1 .. n
    <3>1. i = n + 1 /\ s[i] = start /\ more[i] = end
      BY <1>8, <2>2
    <3>2. start = 0 \/ input[start - 1] = SPACE
      <4>1. CASE start = at
        BY <1>1, <4>1 DEF AllCut
      <4>2. CASE start # at
        <5>1. start - 1 \in Places /\ start - 1 >= at /\ start - 1 < start
          BY <1>1, <4>2
        <5> QED BY <1>2, <5>1
      <4> QED BY <4>1, <4>2
    <3>3. end = e \/ input[end] = SPACE
      BY <1>5
    <3>4. ASSUME NEW q \in Places, start <= q, q < end
          PROVE  b[q] = input[q] /\ input[q] # SPACE
      BY <1>1, <1>2, <1>8, <3>4
    <3>5. WordCut(b, input, e, start, end)
      BY <1>5, <1>8, <3>2, <3>3, <3>4 DEF WordCut
    <3> QED BY <1>7, <2>2, <3>1, <3>5
  <2> QED BY <2>1, <2>2
<1>11. \A i, j \in 1 .. n + 1 : i < j => more[i] < s[j]
  <2> TAKE i, j \in 1 .. n + 1
  <2> HAVE i < j
  <2>1. i \in 1 .. n /\ (j \in 1 .. n \/ j = n + 1)
    OBVIOUS
  <2>2. CASE j \in 1 .. n
    BY <1>8, <2>1, <2>2 DEF AllCut
  <2>3. CASE j = n + 1
    <3>1. more[i] <= at /\ more[i] \in Places
      BY <1>10, <2>1 DEF WordCut
    <3>2. more[i] < start
      <4>1. WordCut(buf, input, e, from[i], to[i]) /\ more[i] = to[i]
        BY <1>8, <2>1 DEF AllCut
      <4>2. more[i] # start
        BY <4>1 DEF WordCut
      <4>3. more[i] \in Nat /\ at \in Nat /\ start \in Nat
        BY <1>1, <3>1
      <4> QED BY <3>1, <4>2, <4>3
    <3> QED BY <1>8, <2>3, <3>2
  <2> QED BY <2>1, <2>2, <2>3
<1>12. \A q \in Places : q < now => input[q] = SPACE \/ \E i \in 1 .. n + 1 : s[i] <= q /\ q < more[i]
  <2> TAKE q \in Places
  <2> HAVE q < now
  <2>1. CASE q < at
    <3>1. input[q] = SPACE \/ \E i \in 1 .. n : from[i] <= q /\ q < to[i]
      BY <2>1 DEF AllCut
    <3>2. \A i \in 1 .. n : i \in 1 .. n + 1
      OBVIOUS
    <3> QED BY <1>8, <3>1, <3>2
  <2>2. CASE ~ (q < at) /\ q < start
    BY <1>1, <1>2, <2>2
  <2>3. CASE start <= q /\ q < end
    <3>1. n + 1 \in 1 .. n + 1
      OBVIOUS
    <3> QED BY <1>8, <2>3, <3>1
  <2>4. CASE ~ (q < end)
    BY <1>1, <1>3, <1>5, <1>6, <2>4
  <2> QED BY <1>1, <2>1, <2>2, <2>3, <2>4
<1>13. AllCut(b, input, e, now, n + 1, s, more)
  BY <1>7, <1>9, <1>10, <1>11, <1>12 DEF AllCut
<1> QED BY <1>6, <1>13, Zenon

(* A round finds one word more, or the end of the line. *)
LEMMA RoundCuts ==
    ASSUME NEW input, NEW e, EndsAt(input, e), NEW st, NEW n \in Nat, ParseCut(st, input, e, n)
    PROVE  ParseCut(Round(st), input, e, n + 1)
<1> USE TerminalAssumption
<1>1. ParseOK(st, n) /\ (Len(st.starts) = n \/ st.at = e)
  BY DEF ParseCut
<1>2. PICK to : AllCut(st.buf, input, e, st.at, Len(st.starts), st.starts, to)
  BY DEF ParseCut
<1>3. /\ st.at \in Places /\ st.buf \in [Places -> Text] /\ st.starts \in Seq(Places)
      /\ Len(st.starts) \in Nat /\ Len(st.starts) <= n
  BY <1>1, LenProperties DEF ParseOK
<1>4. /\ Places \subseteq Nat /\ e \in Places /\ input[e] = NUL /\ st.at <= e
      /\ \A q \in Places : q < e => input[q] # NUL
      /\ \A q \in Places : q >= st.at => st.buf[q] = input[q]
  BY <1>2 DEF EndsAt, AllCut, Places
<1>5. CASE st.buf[st.at] = NUL
  <2>1. st.at = e
    <3>1. PICK at \in Places : at = st.at
      BY <1>3
    <3>2. at >= at /\ at <= e /\ at \in Nat /\ e \in Nat
      BY <1>4, <3>1
    <3>3. input[at] = NUL
      BY <1>4, <1>5, <3>1, <3>2
    <3> QED BY <1>4, <3>1, <3>2, <3>3
  <2>2. ParseOK(st, n + 1)
    BY <1>1, <1>3 DEF ParseOK
  <2>3. Round(st) = st
    BY <1>5 DEF Round
  <2> QED BY <1>2, <2>1, <2>2, <2>3 DEF ParseCut
<1>6. CASE st.buf[st.at] # NUL
  <2>1. Round(st) = NextWord(st) /\ ParseOK(NextWord(st), n + 1)
    BY <1>1, <1>6, NextWordOK DEF Round
  <2>2. st.at # e /\ Len(st.starts) = n
    BY <1>1, <1>3, <1>4, <1>6
  <2>3. PICK start, end \in Places : NextFound(st, start, end)
    BY <1>1, NextWordDoes
  <2>4. CASE st.buf[start] = NUL
    <3>1. start = e
      <4>1. start >= e
        BY <1>3, <1>4, <2>3, <2>4 DEF NextFound
      <4>2. st.buf[e] = NUL
        BY <1>3, <1>4
      <4> QED BY <1>4, <2>3, <4>1, <4>2 DEF NextFound
    <3>2. NextWord(st).buf = st.buf /\ NextWord(st).starts = st.starts /\ NextWord(st).at = e
      BY <2>3, <2>4, <3>1 DEF NextFound
    <3>3. ASSUME NEW q \in Places, q < e
          PROVE  input[q] = SPACE \/ \E i \in 1 .. Len(st.starts) : st.starts[i] <= q /\ q < to[i]
      <4>1. CASE q < st.at
        BY <1>2, <4>1 DEF AllCut
      <4>2. CASE ~ (q < st.at)
        <5>1. q >= st.at
          <6>1. PICK at \in Nat, k \in Nat : at = st.at /\ k = q
            BY <1>3, <1>4
          <6> QED BY <4>2, <6>1
        <5>2. st.buf[q] = SPACE
          BY <2>3, <3>1, <3>3, <5>1 DEF NextFound
        <5> QED BY <1>4, <5>1, <5>2
      <4> QED BY <4>1, <4>2
    <3>4. ASSUME NEW q \in Places, q >= e PROVE st.buf[q] = input[q]
      <4>1. PICK at \in Nat, k \in Nat, d \in Nat : at = st.at /\ k = q /\ d = e
        BY <1>3, <1>4
      <4>2. at <= d /\ k >= d
        BY <1>4, <3>4, <4>1
      <4>3. q >= st.at
        BY <4>1, <4>2
      <4> QED BY <1>4, <4>3
    <3>5. \A i \in 1 .. Len(st.starts) : WordCut(st.buf, input, e, st.starts[i], to[i]) /\ to[i] <= e
      BY <1>2 DEF AllCut, WordCut
    <3>6. \A i, j \in 1 .. Len(st.starts) : i < j => to[i] < st.starts[j]
      BY <1>2 DEF AllCut
    <3>7. AllCut(st.buf, input, e, e, Len(st.starts), st.starts, to)
      BY <1>4, <3>3, <3>4, <3>5, <3>6 DEF AllCut
    <3> QED BY <2>1, <3>2, <3>7 DEF ParseCut
  <2>5. CASE st.buf[start] # NUL
    <3>1. PICK at, buf, from : at = st.at /\ buf = st.buf /\ from = st.starts
      OBVIOUS
    <3>2. \E more : AllCut([buf EXCEPT ![end] = NUL], input, e,
                           IF buf[end] = NUL THEN end ELSE end + 1,
                           n + 1, Append(from, start), more)
      BY <1>2, <1>3, <2>2, <2>3, <2>5, <3>1, CutMore DEF NextFound
    <3>3. Len(Append(from, start)) = n + 1
      BY <1>3, <2>2, <3>1, AppendProperties
    <3>4. /\ NextWord(st).at = IF buf[end] = NUL THEN end ELSE end + 1
          /\ NextWord(st).buf = [buf EXCEPT ![end] = NUL]
          /\ NextWord(st).starts = Append(from, start)
      BY <2>3, <2>5, <3>1 DEF NextFound
    <3>5. PICK x : x = NextWord(st)
      OBVIOUS
    <3>6. Len(x.starts) = n + 1
      BY <3>3, <3>4, <3>5
    <3>7. \E more : AllCut(x.buf, input, e, x.at, n + 1, x.starts, more)
      BY <3>2, <3>4, <3>5, Zenon
    <3> QED BY <2>1, <3>5, <3>6, <3>7 DEF ParseCut
  <2> QED BY <2>4, <2>5
<1> QED BY <1>5, <1>6
(* Before the first round no word has been found. *)
LEMMA StartCuts ==
    ASSUME NEW input, NEW e, EndsAt(input, e)
    PROVE  ParseCut(Start(input), input, e, 0)
<1>1. Start(input).buf = input /\ Start(input).at = 0 /\ Start(input).starts = <<>>
  BY DEF Start
<1>2. Len(<<>>) = 0 /\ <<>> \in Seq(Places) /\ 0 \in Places
  BY TerminalAssumption DEF Places
<1>3. ParseOK(Start(input), 0)
  <2>1. Start(input) \in [buf : [Places -> Text], at : Places, starts : Seq(Places)]
    BY <1>2 DEF Start, EndsAt, IsLine
  <2> QED BY <1>1, <1>2, <2>1 DEF ParseOK, EndsAt
<1>4. 0 <= e /\ \A q \in Places : ~ (q < 0)
  BY DEF EndsAt, Places
<1>5. AllCut(input, input, e, 0, 0, <<>>, <<>>)
  BY <1>2, <1>4 DEF AllCut
<1> QED BY <1>1, <1>2, <1>3, <1>5 DEF ParseCut

(* A line ends somewhere. *)
LEMMA LineEnds ==
    ASSUME NEW input, IsLine(input)
    PROVE  \E e : EndsAt(input, e)
<1> DEFINE T == {q \in Places : input[q] = NUL}
<1>1. T \subseteq Nat /\ CONSOLE_BUFFER_SIZE - 1 \in T
  BY TerminalAssumption DEF IsLine, Places
<1>2. PICK e \in T : \A q \in T : e <= q
  <2> HIDE DEF T
  <2> QED BY <1>1, LeastNat
<1>3. \A q \in Places : q < e => q \notin T
  BY <1>1, <1>2 DEF Places
<1> QED BY <1>2, <1>3 DEF EndsAt

(* What parse_arguments has found when its loop ends. *)
LEMMA ParseCuts ==
    ASSUME NEW input, NEW e, EndsAt(input, e)
    PROVE  \E st : /\ ParseCut(st, input, e, MAX_ARGS)
                   /\ parse_arguments(input) =
                         [i \in DOMAIN st.starts |-> StringAt(st.buf, st.starts[i])]
<1> USE TerminalAssumption
<1>1. PICK w : /\ IsParse(w, input, MAX_ARGS)
               /\ parse_arguments(input) =
                     [i \in DOMAIN w[MAX_ARGS].starts |->
                         StringAt(w[MAX_ARGS].buf, w[MAX_ARGS].starts[i])]
  BY Parses
<1>2. \A n \in 0 .. MAX_ARGS : w[n] = IF n = 0 THEN Start(input) ELSE Round(w[n - 1])
  BY <1>1 DEF IsParse
<1> DEFINE T == {n \in 0 .. MAX_ARGS : ~ ParseCut(w[n], input, e, n)}
<1>3. T = {}
  <2> SUFFICES ASSUME T # {} PROVE FALSE
    OBVIOUS
  <2>1. T \subseteq Nat
    OBVIOUS
  <2>2. PICK n \in T : \A y \in T : n <= y
    <3> HIDE DEF T
    <3> QED BY <2>1, LeastNat
  <2>3. CASE n = 0
    BY <1>2, <2>3, StartCuts
  <2>4. CASE n # 0
    <3>1. n \in 1 .. MAX_ARGS /\ n - 1 \in 0 .. MAX_ARGS /\ n - 1 \notin T
      BY <2>2, <2>4
    <3>2. ParseCut(w[n - 1], input, e, n - 1)
      BY <3>1
    <3>3. n - 1 \in Nat /\ (n - 1) + 1 = n /\ w[n] = Round(w[n - 1])
      BY <1>2, <3>1
    <3>4. ParseCut(Round(w[n - 1]), input, e, (n - 1) + 1)
      BY <3>2, <3>3, RoundCuts
    <3> QED BY <3>3, <3>4
  <2> QED BY <2>3, <2>4
<1>4. ParseCut(w[MAX_ARGS], input, e, MAX_ARGS)
  BY <1>3
<1> QED BY <1>1, <1>4

(* The string at the start of a word that was cut out is the word. *)
LEMMA CutString ==
    ASSUME NEW input, NEW e, EndsAt(input, e), NEW buf, IsLine(buf),
           NEW s \in Nat, NEW f \in Nat, WordCut(buf, input, e, s, f)
    PROVE  StringAt(buf, s) = [i \in 1 .. f - s |-> input[s + i - 1]]
<1> DEFINE T == {q \in DOMAIN buf : q >= s /\ buf[q] = NUL}
<1>1. DOMAIN buf = Places /\ Places \subseteq Nat /\ f \in Places /\ e \in Places /\ s < f /\ f <= e
  BY DEF IsLine, Places, WordCut, EndsAt
<1>2. ASSUME NEW q \in Places, s <= q, q < f PROVE buf[q] = input[q] /\ buf[q] # NUL
  <2>1. q < e
    <3>1. q \in Nat /\ e \in Nat
      BY <1>1
    <3> QED BY <1>1, <1>2, <3>1
  <2>2. buf[q] = input[q]
    BY <1>2 DEF WordCut
  <2> QED BY <2>1, <2>2 DEF EndsAt
<1>3. f \in T /\ T \subseteq Nat
  <2>1. buf[f] = NUL /\ f >= s
    BY <1>1 DEF WordCut
  <2> QED BY <1>1, <2>1
<1>4. ASSUME NEW q \in T PROVE f <= q
  <2>1. q \in Places /\ q \in Nat /\ q >= s /\ buf[q] = NUL
    BY <1>1
  <2>2. ~ (q < f)
    BY <1>2, <2>1
  <2> QED BY <2>1, <2>2
<1>5. Min(T) = f
  <2>1. Min(T) \in T /\ \A q \in T : Min(T) <= q
    <3> HIDE DEF T
    <3> QED BY <1>3, MinIs
  <2> HIDE DEF T
  <2>2. PICK m \in Nat : m = Min(T)
    BY <1>3, <2>1
  <2>3. m <= f /\ f <= m
    BY <1>3, <1>4, <2>1, <2>2
  <2> QED BY <2>2, <2>3
<1>6. StringAt(buf, s) = [i \in 1 .. Min(T) - s |-> buf[s + i - 1]]
  BY DEF StringAt
<1> HIDE DEF T
<1>7. ASSUME NEW i \in 1 .. f - s PROVE buf[s + i - 1] = input[s + i - 1]
  <2>1. s + i - 1 \in Places /\ s <= s + i - 1 /\ s + i - 1 < f
    BY <1>1, TerminalAssumption DEF Places
  <2> QED BY <1>2, <2>1
<1> QED BY <1>5, <1>6, <1>7
\* The line as LineEditor sees it, its first len places.
TextOf(input, len) == [i \in 1 .. len |-> input[i - 1]]

(* It is a text. *)
LEMMA TextIs ==
    ASSUME NEW input, IsLine(input), NEW len \in Places
    PROVE  /\ TextOf(input, len) \in Seq(Text) /\ Len(TextOf(input, len)) = len
           /\ \A i \in 1 .. len : TextOf(input, len)[i] = input[i - 1]
<1>1. len \in Nat
  BY DEF Places
<1>2. ASSUME NEW i \in 1 .. len PROVE input[i - 1] \in Text
  <2>1. i - 1 \in Places
    BY TerminalAssumption DEF Places
  <2> QED BY <2>1 DEF IsLine
<1> QED BY <1>1, <1>2 DEF TextOf

(* The places of its words: those before the end that hold no space. *)
LEMMA InWordIs ==
    ASSUME NEW input, NEW e, EndsAt(input, e), NEW len \in Places, e <= len, NEW p \in Int
    PROVE  p + 1 \in Editor!InWord(TextOf(input, len)) <=> p \in Places /\ p < e /\ input[p] # SPACE
<1> USE TerminalAssumption
<1>1. e \in Nat /\ len \in Nat /\ e \in Places /\ input[e] = NUL /\ \A q \in Places : q < e => input[q] # NUL
  BY DEF EndsAt, Places
<1>2. PICK t : t = TextOf(input, len)
  OBVIOUS
<1>3. Len(t) = len /\ \A i \in 1 .. len : t[i] = input[i - 1]
  BY <1>2, TextIs DEF EndsAt
<1>4. p + 1 \in Editor!InWord(t) <=>
         p + 1 \in 1 .. len /\ t[p + 1] # SPACE /\ \A k \in 1 .. p + 1 : t[k] # NUL
  BY <1>3 DEF Editor!InWord
<1>5. p + 1 \in 1 .. len => t[p + 1] = input[p] /\ p \in Places
  <2> HAVE p + 1 \in 1 .. len
  <2>1. t[p + 1] = input[(p + 1) - 1] /\ (p + 1) - 1 = p
    BY <1>3
  <2> QED BY <1>1, <2>1 DEF Places
<1>6. ASSUME p \in Places, p < e, input[p] # SPACE PROVE p + 1 \in Editor!InWord(t)
  <2>1. p + 1 \in 1 .. len
    BY <1>1, <1>6 DEF Places
  <2>2. ASSUME NEW k \in 1 .. p + 1 PROVE t[k] # NUL
    <3>1. k - 1 \in Places /\ k - 1 < e /\ k \in 1 .. len
      BY <1>1, <1>6, <2>1 DEF Places
    <3> QED BY <1>1, <1>3, <3>1
  <2> QED BY <1>4, <1>5, <1>6, <2>1, <2>2
<1>7. ASSUME p + 1 \in Editor!InWord(t) PROVE p \in Places /\ p < e /\ input[p] # SPACE
  <2>1. p + 1 \in 1 .. len /\ t[p + 1] # SPACE /\ \A k \in 1 .. p + 1 : t[k] # NUL
    BY <1>4, <1>7
  <2>2. p \in Places /\ input[p] # SPACE
    BY <1>5, <2>1
  <2>3. p < e
    <3> SUFFICES ASSUME ~ (p < e) PROVE FALSE
      OBVIOUS
    <3>1. e + 1 \in 1 .. p + 1 /\ e + 1 \in 1 .. len /\ (e + 1) - 1 = e
      BY <1>1, <2>1
    <3>2. t[e + 1] = NUL
      BY <1>1, <1>3, <3>1
    <3> QED BY <2>1, <3>1, <3>2
  <2> QED BY <2>2, <2>3
<1> QED BY <1>2, <1>6, <1>7

\* The first n words of t, as LineEditor takes them.
AreFirst(t, n, from, to) ==
    /\ from \in [1 .. n -> Editor!Starts(t)] /\ to \in [1 .. n -> Editor!Ends(t)]
    /\ Editor!FirstWords(t, n, from, to)

\* Where n words start and end, counting the places of a text from 1.
FirstPlaces(n, from) == [i \in 1 .. n |-> from[i] + 1]
LastPlaces(n, to) == [i \in 1 .. n |-> to[i]]

(* The words that were cut out of a line are its first ones. *)
LEMMA CutWords ==
    ASSUME NEW input, NEW e, EndsAt(input, e), NEW len \in Places, e <= len,
           NEW buf, NEW at, NEW n \in 0 .. MAX_ARGS, NEW from, NEW to,
           AllCut(buf, input, e, at, n, from, to), n = MAX_ARGS \/ at = e
    PROVE  AreFirst(TextOf(input, len), n, FirstPlaces(n, from), LastPlaces(n, to))
<1> USE TerminalAssumption
<1> DEFINE first == [i \in 1 .. n |-> from[i] + 1]
           last == [i \in 1 .. n |-> to[i]]
<1>1. PICK W : W = Editor!InWord(TextOf(input, len))
  OBVIOUS
<1>2. \A p \in Int : p + 1 \in W <=> p \in Places /\ p < e /\ input[p] # SPACE
  BY <1>1, InWordIs
<1>3. at \in Nat /\ e \in Nat /\ n \in Nat /\ at <= e
  BY DEF AllCut, EndsAt, Places
<1>4. \A k \in W : k \in 1 .. len
  <2>1. Len(TextOf(input, len)) = len
    BY TextIs DEF EndsAt
  <2> QED BY <1>1, <2>1 DEF Editor!InWord
<1>5. ASSUME NEW i \in 1 .. n
      PROVE  /\ first[i] = from[i] + 1 /\ last[i] = to[i]
             /\ from[i] \in Nat /\ to[i] \in Nat /\ from[i] < to[i] /\ to[i] <= e /\ to[i] <= at
             /\ from[i] + 1 .. to[i] \subseteq W
             /\ from[i] \notin W /\ to[i] + 1 \notin W
  <2>1. WordCut(buf, input, e, from[i], to[i]) /\ to[i] <= at
    BY DEF AllCut
  <2>2. PICK s \in Places, f \in Places : s = from[i] /\ f = to[i] /\ WordCut(buf, input, e, s, f)
    BY <2>1 DEF WordCut
  <2>3. s \in Nat /\ f \in Nat /\ s < f /\ f <= e
    BY <2>2 DEF WordCut, Places
  <2>4. ASSUME NEW k \in s + 1 .. f PROVE k \in W
    <3>1. k - 1 \in Places /\ s <= k - 1 /\ k - 1 < f /\ k - 1 < e /\ (k - 1) + 1 = k /\ k - 1 \in Int
      BY <1>3, <2>3 DEF Places
    <3>2. input[k - 1] # SPACE
      BY <2>2, <3>1 DEF WordCut
    <3> QED BY <1>2, <3>1, <3>2
  <2>5. s \notin W
    <3>1. CASE s = 0
      BY <1>4, <3>1
    <3>2. CASE s # 0
      <4>1. input[s - 1] = SPACE /\ (s - 1) + 1 = s /\ s - 1 \in Int
        BY <2>2, <2>3, <3>2 DEF WordCut
      <4> QED BY <1>2, <4>1
    <3> QED BY <3>1, <3>2
  <2>6. f + 1 \notin W
    <3>1. f = e \/ input[f] = SPACE
      BY <2>2 DEF WordCut
    <3>2. ~ (f < e) \/ input[f] = SPACE
      BY <1>3, <2>3, <3>1
    <3> QED BY <1>2, <2>3, <3>2
  <2> QED BY <2>1, <2>2, <2>3, <2>4, <2>5, <2>6
<1>6. \A i \in 1 .. n : first[i] \in W /\ first[i] - 1 \notin W /\ last[i] \in W /\ last[i] + 1 \notin W
  <2> TAKE i \in 1 .. n
  <2>1. PICK s \in Nat, f \in Nat : s = from[i] /\ f = to[i]
    BY <1>5
  <2>2. /\ first[i] = s + 1 /\ last[i] = f /\ s < f
        /\ s + 1 .. f \subseteq W /\ s \notin W /\ f + 1 \notin W
    BY <1>5, <2>1
  <2>3. s + 1 \in s + 1 .. f /\ f \in s + 1 .. f /\ (s + 1) - 1 = s
    BY <2>2
  <2> QED BY <2>2, <2>3
<1>7. first \in [1 .. n -> Editor!Starts(TextOf(input, len))]
  BY <1>1, <1>6 DEF Editor!Starts
<1>8. last \in [1 .. n -> Editor!Ends(TextOf(input, len))]
  BY <1>1, <1>6 DEF Editor!Ends
<1> HIDE DEF first, last
<1>9. \A i \in 1 .. n : first[i] <= last[i] /\ first[i] .. last[i] \subseteq W
  BY <1>5
<1>10. \A i, j \in 1 .. n : i < j => last[i] < first[j]
  <2> TAKE i, j \in 1 .. n
  <2> HAVE i < j
  <2>1. to[i] < from[j]
    BY DEF AllCut
  <2> QED BY <1>5, <2>1
<1>11. ASSUME NEW k \in W
       PROVE  (\E i \in 1 .. n : k \in first[i] .. last[i]) \/ (n = MAX_ARGS /\ k > last[n])
  <2>1. PICK p \in Int : p + 1 = k
    <3>1. k - 1 \in Int /\ (k - 1) + 1 = k
      BY <1>4
    <3> QED BY <3>1
  <2>2. p \in Places /\ p < e /\ input[p] # SPACE
    BY <1>2, <2>1
  <2>3. CASE p < at
    <3>1. PICK i \in 1 .. n : from[i] <= p /\ p < to[i]
      BY <2>2, <2>3 DEF AllCut
    <3>2. k \in first[i] .. last[i]
      BY <1>5, <2>1, <3>1
    <3> QED BY <3>2
  <2>4. CASE ~ (p < at)
    <3>1. at # e /\ n = MAX_ARGS
      BY <1>3, <2>2, <2>4
    <3>2. n \in 1 .. n
      BY <1>3, <3>1
    <3>3. last[n] = to[n] /\ to[n] \in Nat /\ to[n] <= at
      BY <1>5, <3>2
    <3> QED BY <1>3, <2>1, <2>4, <3>1, <3>3
  <2> QED BY <2>3, <2>4
<1>12. Editor!FirstWords(TextOf(input, len), n, first, last)
  BY <1>1, <1>9, <1>10, <1>11 DEF Editor!FirstWords
<1>13. AreFirst(TextOf(input, len), n, first, last)
  BY <1>7, <1>8, <1>12 DEF AreFirst
<1> QED BY <1>13, Zenon DEF first, last, FirstPlaces, LastPlaces
\* The line is the text of its buffer.
LineIs == Line = TextOf(line_buffer, line_length)

(* It always is ... *)
LEMMA LineText == LineIs
BY DEF LineIs, Line, TextOf

(* ... and after a step. *)
LEMMA LineTextNext == LineIs'
BY LineText, PTL

(* A line buffer of the console, as a text. *)
LEMMA BufferIs ==
    ASSUME BufferOK
    PROVE  /\ IsLine(line_buffer) /\ line_length \in Places /\ line_length \in Nat
           /\ Line \in Seq(Text) /\ Len(Line) = line_length
           /\ \A i \in 1 .. line_length : Line[i] = line_buffer[i - 1]
<1>1. IsLine(line_buffer) /\ line_length \in Places /\ line_length \in Nat
  BY TerminalAssumption DEF BufferOK, IsLine, Places
<1> QED BY <1>1, LineText, TextIs DEF LineIs

(* A word between two places of a text. *)
LEMMA SubText ==
    ASSUME NEW t \in Seq(Text), NEW s \in Nat, NEW f \in Nat, s < f, f <= Len(t)
    PROVE  SubSeq(t, s + 1, f) = [i \in 1 .. f - s |-> t[s + i]]
<1>1. Len(t) \in Nat /\ \A i \in 1 .. Len(t) : t[i] \in Text
  BY ElementOfSeq, LenProperties
<1>2. \A i \in s + 1 .. f : t[i] \in Text
  BY <1>1
<1>3. PICK n \in Nat : n = f - s
  OBVIOUS
<1>4. PICK u : u = SubSeq(t, s + 1, f)
  OBVIOUS
<1>5. /\ SubSeq(t, s + 1, f) \in Seq(Text)
      /\ Len(SubSeq(t, s + 1, f)) = IF s + 1 <= f THEN f - (s + 1) + 1 ELSE 0
      /\ \A i \in 1 .. f - (s + 1) + 1 : SubSeq(t, s + 1, f)[i] = t[(s + 1) + i - 1]
  BY <1>2, SubSeqProperties
<1>6. u \in Seq(Text) /\ Len(u) = n
  BY <1>3, <1>4, <1>5
<1>7. \A i \in 1 .. n : u[i] = t[s + i]
  <2> TAKE i \in 1 .. n
  <2>1. i \in 1 .. f - (s + 1) + 1 /\ (s + 1) + i - 1 = s + i
    BY <1>3
  <2> QED BY <1>4, <1>5, <2>1
<1>8. u = [i \in 1 .. n |-> u[i]]
  BY <1>6, LenProperties
<1> QED BY <1>3, <1>4, <1>7, <1>8

\* A command's arguments are the first words of t.
GivenWords(t, args) ==
    \E n \in 0 .. MAX_ARGS :
    \E from \in [1 .. n -> Editor!Starts(t)], to \in [1 .. n -> Editor!Ends(t)] :
       /\ Editor!FirstWords(t, n, from, to)
       /\ args = [i \in 1 .. n |-> SubSeq(t, from[i], to[i])]

(* parse_arguments gives a command those words of its line. *)
LEMMA ArgumentsAre ==
    ASSUME NEW input, IsLine(input), NEW len \in Places,
           \A i \in Places : i >= len => input[i] = NUL
    PROVE  GivenWords(TextOf(input, len), parse_arguments(input))
<1> USE TerminalAssumption
<1>1. PICK e : EndsAt(input, e)
  BY LineEnds
<1>2. e \in Nat /\ len \in Nat /\ e <= len
  <2>1. input[len] = NUL /\ e \in Places /\ ~ (len < e)
    BY <1>1 DEF EndsAt, Places
  <2> QED BY <2>1 DEF Places
<1>3. PICK st : /\ ParseCut(st, input, e, MAX_ARGS)
                /\ parse_arguments(input) =
                      [i \in DOMAIN st.starts |-> StringAt(st.buf, st.starts[i])]
  BY <1>1, ParseCuts
<1>4. PICK buf, at, starts, n :
         buf = st.buf /\ at = st.at /\ starts = st.starts /\ n = Len(st.starts)
  OBVIOUS
<1>5. /\ starts \in Seq(Places) /\ n \in 0 .. MAX_ARGS /\ DOMAIN starts = 1 .. n
      /\ IsLine(buf) /\ n = Len(starts) /\ (n = MAX_ARGS \/ at = e)
  <2>1. starts \in Seq(Places) /\ n = Len(starts) /\ n <= MAX_ARGS /\ IsLine(buf)
    BY <1>3, <1>4 DEF ParseCut, ParseOK
  <2>2. n \in Nat /\ DOMAIN starts = 1 .. n
    BY <2>1, LenProperties
  <2>3. n = MAX_ARGS \/ at = e
    BY <1>3, <1>4 DEF ParseCut
  <2> QED BY <2>1, <2>2, <2>3
<1>6. PICK to : AllCut(buf, input, e, at, n, starts, to)
  BY <1>3, <1>4 DEF ParseCut
<1>7. PICK t, first, last :
         /\ t = TextOf(input, len)
         /\ first = FirstPlaces(n, starts) /\ last = LastPlaces(n, to)
  OBVIOUS
<1>8. AreFirst(t, n, first, last)
  BY <1>1, <1>2, <1>5, <1>6, <1>7, CutWords
<1>9. parse_arguments(input) = [i \in 1 .. n |-> StringAt(buf, starts[i])]
  BY <1>3, <1>4, <1>5, Zenon
<1>10. ASSUME NEW i \in 1 .. n PROVE StringAt(buf, starts[i]) = SubSeq(t, first[i], last[i])
  <2>1. PICK s \in Nat, f \in Nat : s = starts[i] /\ f = to[i] /\ WordCut(buf, input, e, s, f)
    <3>1. WordCut(buf, input, e, starts[i], to[i])
      BY <1>6 DEF AllCut
    <3> QED BY <3>1 DEF WordCut, Places
  <2>2. s < f /\ f <= e
    BY <2>1 DEF WordCut
  <2>3. StringAt(buf, s) = [k \in 1 .. f - s |-> input[s + k - 1]]
    <3>1. IsLine(buf) /\ WordCut(buf, input, e, s, f)
      BY <1>5, <2>1
    <3> QED BY <1>1, <3>1, CutString
  <2>4. t \in Seq(Text) /\ Len(t) = len /\ \A k \in 1 .. len : t[k] = input[k - 1]
    BY <1>7, TextIs
  <2>5. SubSeq(t, s + 1, f) = [k \in 1 .. f - s |-> t[s + k]]
    BY <1>2, <2>2, <2>4, SubText
  <2>6. ASSUME NEW k \in 1 .. f - s PROVE t[s + k] = input[s + k - 1]
    <3>1. s + k \in 1 .. len
      BY <1>2, <2>2
    <3> QED BY <2>4, <3>1
  <2>7. first[i] = s + 1 /\ last[i] = f
    BY <1>7, <2>1 DEF FirstPlaces, LastPlaces
  <2>8. StringAt(buf, s) = SubSeq(t, s + 1, f)
    BY <2>3, <2>5, <2>6
  <2> QED BY <2>1, <2>7, <2>8
<1>11. parse_arguments(input) = [i \in 1 .. n |-> SubSeq(t, first[i], last[i])]
  BY <1>9, <1>10
<1>12. GivenWords(t, parse_arguments(input))
  BY <1>5, <1>8, <1>11, Zenon DEF GivenWords, AreFirst
<1> QED BY <1>7, <1>12

(* Typing is typing in LineEditor. *)
LEMMA CharRefines ==
    ASSUME TermInv, NEW ch \in Char \cup {NUL}, HandleChar(ch)
    PROVE  Editor!Type(ch)
<1> USE TerminalAssumption
<1>1. BufferOK /\ TermInv'
  BY CharStep DEF TermInv
<1>2. BufferOK'
  BY <1>1 DEF TermInv
<1>3. PICK n \in Nat : /\ n = line_length /\ line_length' = n + 1 /\ n < CONSOLE_BUFFER_SIZE - 1
                       /\ line_buffer' = [line_buffer EXCEPT ![n] = ch]
  BY <1>1, BufferIs DEF HandleChar
<1>4. PICK t, u : t = Line /\ u = Line'
  OBVIOUS
<1>5. t \in Seq(Text) /\ Len(t) = n /\ \A i \in 1 .. n : t[i] = line_buffer[i - 1]
  BY <1>1, <1>3, <1>4, BufferIs
<1>6. u = TextOf(line_buffer', n + 1)
  BY <1>3, <1>4, LineTextNext DEF LineIs
<1>7. IsLine(line_buffer') /\ n + 1 \in Places
  BY <1>2, <1>3 DEF BufferOK, IsLine, Places
<1>8. u \in Seq(Text) /\ Len(u) = n + 1 /\ \A i \in 1 .. n + 1 : u[i] = line_buffer'[i - 1]
  BY <1>6, <1>7, TextIs
<1>9. \A q \in Places : line_buffer'[q] = IF q = n THEN ch ELSE line_buffer[q]
  BY <1>1, <1>3 DEF BufferOK
<1>10. ASSUME NEW i \in 1 .. n + 1 PROVE u[i] = IF i = n + 1 THEN ch ELSE t[i]
  <2>1. i - 1 \in Places /\ (i - 1 = n <=> i = n + 1) /\ (i # n + 1 => i \in 1 .. n)
    BY <1>7 DEF Places
  <2> QED BY <1>5, <1>8, <1>9, <2>1
<1>11. ch \in Text
  BY DEF Text
<1>12. u = Append(t, ch)
  <2>1. /\ Append(t, ch) \in Seq(Text) /\ Len(Append(t, ch)) = n + 1
        /\ \A i \in 1 .. n + 1 : Append(t, ch)[i] = IF i = n + 1 THEN ch ELSE t[i]
    <3>1. /\ Append(t, ch) \in Seq(Text) /\ Len(Append(t, ch)) = Len(t) + 1
          /\ \A i \in 1 .. Len(t) : Append(t, ch)[i] = t[i]
          /\ Append(t, ch)[Len(t) + 1] = ch
      BY <1>5, <1>11, AppendProperties
    <3>2. Len(t) = n
      BY <1>5
    <3>3. \A i \in 1 .. n + 1 : i = n + 1 \/ i \in 1 .. n
      OBVIOUS
    <3> QED BY <3>1, <3>2, <3>3
  <2>2. \A i \in 1 .. Len(u) : u[i] = Append(t, ch)[i]
    BY <1>8, <1>10, <2>1
  <2> QED BY <1>8, <2>1, <2>2, SeqEqual
<1>13. argv' = argv
  BY DEF HandleChar
<1> QED BY <1>3, <1>4, <1>5, <1>12, <1>13 DEF Editor!Type

(* Rubbing out is rubbing out in LineEditor. *)
LEMMA BackspaceRefines ==
    ASSUME TermInv, HandleBackspace
    PROVE  Editor!RubOut
<1> USE TerminalAssumption
<1>1. BufferOK /\ TermInv'
  BY BackspaceStep DEF TermInv
<1>2. BufferOK'
  BY <1>1 DEF TermInv
<1>3. PICK n \in Nat : /\ line_length = n + 1 /\ line_length' = n
                       /\ line_buffer' = [line_buffer EXCEPT ![n] = NUL]
  <2>1. line_length - 1 \in Nat /\ (line_length - 1) + 1 = line_length
    BY <1>1, BufferIs DEF HandleBackspace
  <2> QED BY <2>1 DEF HandleBackspace
<1>4. PICK t, u : t = Line /\ u = Line'
  OBVIOUS
<1>5. t \in Seq(Text) /\ Len(t) = n + 1 /\ \A i \in 1 .. n + 1 : t[i] = line_buffer[i - 1]
  BY <1>1, <1>3, <1>4, BufferIs
<1>6. u = TextOf(line_buffer', n)
  BY <1>3, <1>4, LineTextNext DEF LineIs
<1>7. IsLine(line_buffer') /\ n \in Places
  BY <1>2, <1>3 DEF BufferOK, IsLine, Places
<1>8. u \in Seq(Text) /\ Len(u) = n /\ \A i \in 1 .. n : u[i] = line_buffer'[i - 1]
  BY <1>6, <1>7, TextIs
<1>9. \A q \in Places : q # n => line_buffer'[q] = line_buffer[q]
  BY <1>1, <1>3 DEF BufferOK
<1>10. ASSUME NEW i \in 1 .. n PROVE u[i] = t[i]
  <2>1. i - 1 \in Places /\ i - 1 # n /\ i \in 1 .. n + 1
    BY <1>7 DEF Places
  <2> QED BY <1>5, <1>8, <1>9, <2>1
<1>11. u = Front(t)
  <2>1. \A i \in 1 .. n : t[i] \in Text
    BY <1>5, ElementOfSeq
  <2>2. /\ SubSeq(t, 1, n) \in Seq(Text)
        /\ Len(SubSeq(t, 1, n)) = IF 1 <= n THEN n - 1 + 1 ELSE 0
        /\ \A i \in 1 .. n - 1 + 1 : SubSeq(t, 1, n)[i] = t[1 + i - 1]
    BY <2>1, SubSeqProperties
  <2>3. Len(SubSeq(t, 1, n)) = n /\ \A i \in 1 .. n : SubSeq(t, 1, n)[i] = t[i]
    BY <2>2
  <2>4. \A i \in 1 .. Len(u) : u[i] = SubSeq(t, 1, n)[i]
    BY <1>8, <1>10, <2>3
  <2>5. u = SubSeq(t, 1, n)
    BY <1>8, <2>2, <2>3, <2>4, SeqEqual
  <2>6. Front(t) = SubSeq(t, 1, Len(t) - 1) /\ Len(t) - 1 = n
    BY <1>5 DEF Front
  <2> QED BY <2>5, <2>6
<1>12. t # <<>> /\ argv' = argv
  BY <1>5 DEF HandleBackspace
<1>13. Line # <<>> /\ Line' = SubSeq(Line, 1, Len(Line) - 1) /\ argv' = argv
  BY <1>4, <1>11, <1>12, Zenon DEF Front
<1> QED BY <1>13, Zenon DEF Editor!RubOut, Editor!Front

(* Enter is Enter in LineEditor. *)
LEMMA EnterRefines ==
    ASSUME TermInv, HandleEnter
    PROVE  Editor!Enter
<1>1. argv' = parse_arguments(line_buffer) /\ line_buffer' = EmptyLine /\ line_length' = 0
  BY DEF HandleEnter
<1>2. BufferOK
  BY DEF TermInv
<1>3. /\ IsLine(line_buffer) /\ line_length \in Places
      /\ \A i \in Places : i >= line_length => line_buffer[i] = NUL
  BY <1>2, BufferIs DEF BufferOK
<1>4. Line = TextOf(line_buffer, line_length)
  BY LineText DEF LineIs
<1>5. GivenWords(Line, argv')
  BY <1>1, <1>3, <1>4, ArgumentsAre
<1>6. Line' = <<>>
  <2>1. Line' = TextOf(line_buffer', line_length')
    BY LineTextNext DEF LineIs
  <2>2. Line' = [i \in 1 .. 0 |-> line_buffer'[i - 1]]
    BY <1>1, <2>1 DEF TextOf
  <2> QED BY <2>2
<1> QED BY <1>5, <1>6, Zenon DEF GivenWords, Editor!Enter

(* The console implements LineEditor, for lines of every length and every  *)
(* number of arguments: the line is what was typed and not rubbed out, no  *)
(* character of an earlier line ever reaches a command, and what           *)
(* parse_arguments cuts out of the line in place are its first words,      *)
(* whole and in order.                                                     *)
THEOREM TermImplementsEditor == TermSpec => LineEditorRefinement
<1>1. TermInit => Editor!EditorInit
  <2> SUFFICES ASSUME TermInit PROVE Editor!EditorInit
    OBVIOUS
  <2>1. line_length = 0 /\ argv = <<>>
    BY DEF TermInit
  <2>2. Line = <<>>
    BY <2>1 DEF Line
  <2> QED BY <2>1, <2>2 DEF Editor!EditorInit
<1>2. TermInv /\ [TermNext]_term_vars => [Editor!EditorNext]_<<Line, argv>>
  <2> SUFFICES ASSUME TermInv, [TermNext]_term_vars
               PROVE  [Editor!EditorNext]_<<Line, argv>>
    OBVIOUS
  <2>1. ASSUME UNCHANGED term_vars PROVE UNCHANGED <<Line, argv>>
    BY <2>1 DEF term_vars, Line
  <2>2. CASE HandleEnter
    BY <2>2, EnterRefines DEF Editor!EditorNext
  <2>3. CASE HandleBackspace
    BY <2>3, BackspaceRefines DEF Editor!EditorNext
  <2>4. CASE IgnoreBackspace \/ RefuseChar \/ UNCHANGED term_vars
    BY <2>1, <2>4 DEF IgnoreBackspace, RefuseChar
  <2>5. CASE \E ch \in Char \cup {NUL} : HandleChar(ch)
    <3>1. PICK ch \in Char \cup {NUL} : HandleChar(ch)
      BY <2>5
    <3>2. Editor!Type(ch)
      BY <3>1, CharRefines
    <3> QED BY <3>2 DEF Editor!EditorNext
  <2> QED BY <2>2, <2>3, <2>4, <2>5 DEF TermNext
<1> QED BY <1>1, <1>2, TermInvariant, PTL DEF TermSpec, LineEditorRefinement, Editor!EditorSpec
=============================================================================
