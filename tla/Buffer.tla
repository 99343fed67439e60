-------------------------------- MODULE Buffer --------------------------------
(***************************************************************************)
(* A growing buffer of src/buffer.c.  Only sizes are kept: what is written *)
(* is in the modules that write it.  Sizes are of size_t and wrap round at *)
(* Word; no object is larger than Memory, half of that less a unit at      *)
(* most, as an allocator sees to, and no unit is.                          *)
(***************************************************************************)
EXTENDS Integers

CONSTANTS Word, Memory, Units

ASSUME BufferAssumption ==
  /\ Word \in Nat /\ Memory \in Nat /\ Units \subseteq Nat \ {0}
  /\ \A u \in Units : u <= Memory /\ 2 * Memory + u < Word

VARIABLES
  size, maxsize, unit,  \* as in struct lowdown_buf
  wrote                 \* how far the last operation wrote

bvars == <<size, maxsize, unit, wrote>>

Hbuf_init(u) == size' = 0 /\ maxsize' = 0 /\ unit' = u /\ wrote' = 0

Add(a, b) == (a + b) % Word

\* The size that is allocated: whole units.
Rounded(n, u) == (((n \div u) + (IF n % u > 0 THEN 1 ELSE 0)) * u) % Word

(***************************************************************************)
(* hbuf_grow(): what maxsize may be after it, if there is memory.          *)
(***************************************************************************)
Hbuf_grow(neosz) ==
  IF maxsize >= neosz THEN {maxsize}
  ELSE {Rounded(neosz, unit)} \cap 0 .. Memory

\* n bytes are written at the end, and the buffer is that much longer.
Write(n) ==
  /\ wrote' = size + n
  /\ size' = Add(size, n)
  /\ UNCHANGED unit

\* Mutant: room for the new bytes only.
Hbuf_put_short(n) ==
  /\ n > 0
  /\ maxsize' \in IF n > maxsize THEN Hbuf_grow(n) ELSE {maxsize}
  /\ Write(n)

\* hbuf_put() and what calls it: hbuf_putb(), hbuf_puts(), HBUF_PUTSL().
Hbuf_put(n) ==
  /\ n > 0
  /\ maxsize' \in IF Add(size, n) > maxsize THEN Hbuf_grow(Add(size, n)) ELSE {maxsize}
  /\ Write(n)

Hbuf_putc ==
  /\ maxsize' \in IF size >= maxsize THEN Hbuf_grow(Add(size, 1)) ELSE {maxsize}
  /\ Write(1)

\* One turn of the loop of hbuf_putf(): a file gives n bytes of the unit.
Hbuf_putf(n) ==
  /\ n <= unit
  /\ maxsize' \in Hbuf_grow(Add(size, unit))
  /\ Write(n)

(***************************************************************************)
(* hbuf_printf() of n bytes: there is always room for a NUL first.  What   *)
(* does not fit with its NUL is cut short by vsnprintf() and written again *)
(* when the buffer has grown; if it cannot grow, it is as long as before.  *)
(***************************************************************************)
Hbuf_printf(n) ==
  \E max \in IF size >= maxsize THEN Hbuf_grow(Add(size, 1)) ELSE {maxsize} :
    IF n < max - size
    THEN maxsize' = max /\ wrote' = size + n + 1 /\ size' = Add(size, n) /\ UNCHANGED unit
    ELSE \/ /\ maxsize' \in {Rounded(Add(size, n + 1), unit)} \cap 0 .. Memory
            /\ wrote' = size + n + 1 /\ size' = Add(size, n) /\ UNCHANGED unit
         \/ /\ maxsize' = max
            /\ wrote' = max
            /\ UNCHANGED <<size, unit>>

Hbuf_truncate == size' = 0 /\ wrote' = 0 /\ UNCHANGED <<maxsize, unit>>

\* The calls that the code may make, in any order: none writes more than an
\* object holds.
Hbuf_call ==
  \/ \E n \in 1 .. Memory : Hbuf_put(n)
  \/ Hbuf_putc
  \/ \E n \in 0 .. Memory : Hbuf_printf(n)
  \/ Hbuf_truncate

BInit == unit \in Units /\ size = 0 /\ maxsize = 0 /\ wrote = 0
BNext == Hbuf_call \/ \E n \in 0 .. unit : Hbuf_putf(n)
BSpec == BInit /\ [][BNext]_bvars

BTypeOK ==
  /\ unit \in Units
  /\ size \in 0 .. Memory /\ maxsize \in 0 .. Memory

(***************************************************************************)
(* Nothing is ever written past the end of what was allocated, and what    *)
(* the buffer holds was: the rounding, the NUL of hbuf_printf() and the    *)
(* arithmetic of size_t included.                                          *)
(***************************************************************************)
InBounds == size <= maxsize /\ wrote <= maxsize
===============================================================================
