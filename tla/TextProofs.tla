----------------------------- MODULE TextProofs -----------------------------
(***************************************************************************)
(* What is read in a text, for texts of any length over any characters:    *)
(* util/uri.c takes a uri apart as it was put together and loses nothing   *)
(* of it; the digits given to the readers of core/str.c are the number     *)
(* they return, modulo its width; util/crc16.c tells a message from one    *)
(* changed in one byte.                                                    *)
(***************************************************************************)
EXTENDS Text, WellFoundedInduction, SequenceTheorems, TLAPS

-----------------------------------------------------------------------------
(* Recursive functions *)

\* Induction over the numbers, as a set that contains its successors.
LEMMA SetInduction ==
    ASSUME NEW S, 0 \in S, \A n \in Nat : n \in S => n + 1 \in S
    PROVE  \A n \in Nat : n \in S
<1> DEFINE Less == {p \in Nat \X Nat : p[1] < p[2]}
<1> SUFFICES ASSUME Nat \ S # {} PROVE FALSE
  OBVIOUS
<1>1. IsWellFoundedOn(Less, Nat)
  BY NatLessThanWellFounded DEF OpToRel
<1>2. PICK x \in Nat \ S : \A y \in Nat \ S : <<y, x>> \notin Less
  <2>1. Nat \ S \subseteq Nat
    OBVIOUS
  <2> QED
    BY <1>1, <2>1, WFMin
<1>3. x - 1 \in Nat /\ <<x - 1, x>> \in Less
  OBVIOUS
<1> QED
  BY <1>2, <1>3

\* What is built step by step, from base on and by step[m] in the m-th of n steps.
Builds(set, base, step, n, f) ==
    /\ f \in [0 .. n -> set] /\ f[0] = base
    /\ \A m \in 1 .. n : f[m] = step[m][f[m - 1]]

LEMMA Built ==
    ASSUME NEW set, NEW base \in set, NEW n \in Nat, NEW step \in [1 .. n -> [set -> set]]
    PROVE  \E f : Builds(set, base, step, n, f)
<1> DEFINE S == {m \in Nat : m <= n => \E f : Builds(set, base, step, m, f)}
<1>1. 0 \in S
  <2>1. Builds(set, base, step, 0, [m \in 0 .. 0 |-> base])
    BY DEF Builds
  <2> QED
    BY <2>1
<1>2. ASSUME NEW m \in Nat, m \in S PROVE m + 1 \in S
  <2> SUFFICES ASSUME m + 1 <= n PROVE \E f : Builds(set, base, step, m + 1, f)
    OBVIOUS
  <2>1. PICK f : Builds(set, base, step, m, f)
    BY <1>2
  <2> DEFINE g == [p \in 0 .. m + 1 |-> IF p <= m THEN f[p] ELSE step[m + 1][f[m]]]
  <2>2. f[m] \in set /\ \A p \in 0 .. m : f[p] \in set
    BY <2>1 DEF Builds
  <2>3. m + 1 \in 1 .. n
    OBVIOUS
  <2>4. step[m + 1] \in [set -> set]
    BY <2>3
  <2>5. step[m + 1][f[m]] \in set
    BY <2>2, <2>4
  <2>6. g \in [0 .. m + 1 -> set] /\ g[0] = base
    BY <2>1, <2>2, <2>5 DEF Builds
  <2>7. ASSUME NEW p \in 1 .. m + 1 PROVE g[p] = step[p][g[p - 1]]
    <3>1. p \in 0 .. m + 1 /\ p - 1 \in 0 .. m + 1 /\ p - 1 <= m /\ g[p - 1] = f[p - 1]
      OBVIOUS
    <3>2. CASE p <= m
      BY <2>1, <3>1, <3>2 DEF Builds
    <3>3. CASE ~(p <= m)
      <4>1. p = m + 1 /\ p - 1 = m
        BY <3>3
      <4> QED
        BY <3>1, <3>3, <4>1
    <3> QED
      BY <3>2, <3>3
  <2> HIDE DEF g
  <2>8. Builds(set, base, step, m + 1, g)
    BY <2>6, <2>7 DEF Builds
  <2> QED
    BY <2>8
<1>3. \A m \in Nat : m \in S
  <2> HIDE DEF S
  <2> QED
    BY <1>1, <1>2, SetInduction
<1> QED
  BY <1>3

\* What holds at the beginning and is kept by every step holds throughout.
LEMMA StaysIn ==
    ASSUME NEW set, NEW n \in Nat, NEW f, f[0] \in set, \A m \in 1 .. n : f[m - 1] \in set => f[m] \in set
    PROVE  \A m \in 0 .. n : f[m] \in set
<1> DEFINE S == {m \in Nat : m <= n => f[m] \in set}
<1>1. 0 \in S
  OBVIOUS
<1>2. ASSUME NEW m \in Nat, m \in S PROVE m + 1 \in S
  <2> SUFFICES ASSUME m + 1 <= n PROVE f[m + 1] \in set
    OBVIOUS
  <2>1. m + 1 \in 1 .. n /\ (m + 1) - 1 = m /\ f[m] \in set
    BY <1>2
  <2> QED
    BY <2>1
<1>3. \A m \in Nat : m \in S
  <2> HIDE DEF S
  <2> QED
    BY <1>1, <1>2, SetInduction
<1> QED
  BY <1>3

-----------------------------------------------------------------------------
(* Text: checksums *)

Bits == SUBSET (0 .. 15)
Bytes == SUBSET (0 .. 7)

LEMMA ShiftStays == ASSUME NEW c \in Bits PROVE Shift1(c) \in Bits
<1>1. {b + 1 : b \in c \ {15}} \in Bits /\ {0, 5, 12} \in Bits
  BY DEF Bits
<1> QED
  BY <1>1 DEF Shift1, Xor, Bits

\* Only the bit that is shifted out can set the lowest one, so that it can be told
\* from the outcome.
LEMMA ShiftTells ==
    ASSUME NEW c \in Bits, NEW d \in Bits, Shift1(c) = Shift1(d)
    PROVE  c = d
<1> DEFINE Up(w) == {b + 1 : b \in w \ {15}}
<1>1. ASSUME NEW w \in Bits PROVE 0 \notin Up(w) /\ (0 \in Shift1(w) <=> 15 \in w)
  BY DEF Bits, Shift1, Xor
<1>2. (15 \in c) <=> (15 \in d)
  BY <1>1
<1>3. Up(c) = Up(d)
  <2> HIDE DEF Up
  <2>1. \A w \in Bits : Shift1(w) = IF 15 \in w THEN Xor(Up(w), {0, 5, 12}) ELSE Up(w)
    BY DEF Shift1, Up
  <2>2. ASSUME NEW v, NEW w, NEW x, Xor(v, x) = Xor(w, x) PROVE v = w
    BY <2>2 DEF Xor
  <2> QED
    BY <1>2, <2>1, <2>2
<1>4. ASSUME NEW v \in Bits, NEW w \in Bits, Up(v) = Up(w), NEW b \in v, b # 15 PROVE b \in w
  <2>1. b + 1 \in Up(w) /\ b \in Nat
    <3>1. b \in v \ {15}
      BY <1>4
    <3>2. b + 1 \in Up(v)
      BY <3>1
    <3> HIDE DEF Up
    <3> QED
      BY <1>4, <3>2 DEF Bits
  <2>2. PICK a \in w \ {15} : a + 1 = b + 1
    BY <2>1
  <2>3. a \in Nat
    BY <2>2 DEF Bits
  <2> QED
    BY <2>1, <2>2, <2>3
<1> HIDE DEF Up
<1> QED
  BY <1>2, <1>3, <1>4

Shifts(c, f) == f \in [0 .. 8 -> Bits] /\ f[0] = c /\ \A m \in 1 .. 8 : f[m] = Shift1(f[m - 1])

LEMMA NextShifts ==
    ASSUME NEW c \in Bits, NEW ch \in Bytes
    PROVE  /\ Xor(c, {b + 8 : b \in ch}) \in Bits
           /\ \E f : Shifts(Xor(c, {b + 8 : b \in ch}), f) /\ CrcNext(c, ch) = f[8]
<1> DEFINE x == Xor(c, {b + 8 : b \in ch})
           Loop(f) == f = [n \in 0 .. 8 |-> IF n = 0 THEN x ELSE Shift1(f[n - 1])]
           f == CHOOSE f : Loop(f)
           step == [m \in 1 .. 8 |-> [d \in Bits |-> Shift1(d)]]
<1>1. x \in Bits
  <2>1. {b + 8 : b \in ch} \in Bits
    BY DEF Bits, Bytes
  <2> QED
    BY <2>1 DEF Bits, Xor
<1>2. CrcNext(c, ch) = f[8]
  BY DEF CrcNext
<1> HIDE DEF x
<1>3. step \in [1 .. 8 -> [Bits -> Bits]]
  BY ShiftStays
<1>4. PICK h : Builds(Bits, x, step, 8, h)
  <2> HIDE DEF step
  <2> QED
    BY <1>1, <1>3, Built
<1>5. h \in [0 .. 8 -> Bits] /\ h[0] = x /\ \A m \in 1 .. 8 : h[m] = Shift1(h[m - 1])
  <2>1. h \in [0 .. 8 -> Bits] /\ h[0] = x /\ \A m \in 1 .. 8 : h[m] = step[m][h[m - 1]]
    BY <1>4 DEF Builds
  <2>2. \A m \in 1 .. 8 : m - 1 \in 0 .. 8
    OBVIOUS
  <2> QED
    BY <2>1, <2>2
<1>6. Loop(h)
  BY <1>5
<1>7. Loop(f)
  BY <1>6
<1> HIDE DEF f
<1>8. ASSUME NEW g, Loop(g) PROVE g[0] = x /\ \A m \in 1 .. 8 : g[m] = Shift1(g[m - 1])
  BY <1>8
<1>9. \A m \in 0 .. 8 : f[m] \in Bits
  <2>1. f[0] \in Bits /\ \A m \in 1 .. 8 : f[m - 1] \in Bits => f[m] \in Bits
    BY <1>1, <1>7, <1>8, ShiftStays
  <2> QED
    BY <2>1, StaysIn
<1>10. f \in [0 .. 8 -> Bits]
  BY <1>7, <1>9
<1> QED
  BY <1>1, <1>2, <1>7, <1>8, <1>10 DEF Shifts, x
\* A checksum and the byte that is added to it tell the checksum before.
LEMMA NextTells ==
    ASSUME NEW c \in Bits, NEW d \in Bits, NEW ch \in Bytes, NEW other \in Bytes,
           CrcNext(c, ch) = CrcNext(d, other)
    PROVE  Xor(c, {b + 8 : b \in ch}) = Xor(d, {b + 8 : b \in other})
<1> DEFINE x == Xor(c, {b + 8 : b \in ch})
           y == Xor(d, {b + 8 : b \in other})
<1>1. PICK f : Shifts(x, f) /\ CrcNext(c, ch) = f[8]
  BY NextShifts
<1>2. PICK g : Shifts(y, g) /\ CrcNext(d, other) = g[8]
  BY NextShifts
<1> HIDE DEF x, y
<1>3. ASSUME NEW m \in 1 .. 8, f[m] = g[m] PROVE f[m - 1] = g[m - 1]
  <2>1. m - 1 \in 0 .. 8
    OBVIOUS
  <2>2. f[m - 1] \in Bits /\ g[m - 1] \in Bits /\ Shift1(f[m - 1]) = Shift1(g[m - 1])
    BY <1>1, <1>2, <1>3, <2>1 DEF Shifts
  <2> QED
    BY <2>2, ShiftTells
<1>4. \A m \in 1 .. 8 : f[m] = g[m] => f[m - 1] = g[m - 1]
  BY <1>3
<1>5. (f[8] = g[8] => f[7] = g[7]) /\ (f[7] = g[7] => f[6] = g[6]) /\ (f[6] = g[6] => f[5] = g[5])
      /\ (f[5] = g[5] => f[4] = g[4]) /\ (f[4] = g[4] => f[3] = g[3]) /\ (f[3] = g[3] => f[2] = g[2])
      /\ (f[2] = g[2] => f[1] = g[1]) /\ (f[1] = g[1] => f[0] = g[0])
  <2>1. 8 - 1 = 7 /\ 7 - 1 = 6 /\ 6 - 1 = 5 /\ 5 - 1 = 4 /\ 4 - 1 = 3 /\ 3 - 1 = 2 /\ 2 - 1 = 1 /\ 1 - 1 = 0
        /\ 1 .. 8 = {1, 2, 3, 4, 5, 6, 7, 8}
    OBVIOUS
  <2> QED
    BY <1>4, <2>1
<1>6. f[0] = g[0]
  BY <1>1, <1>2, <1>5
<1> QED
  BY <1>1, <1>2, <1>6 DEF Shifts, x, y

LEMMA NextStays == ASSUME NEW c \in Bits, NEW ch \in Bytes PROVE CrcNext(c, ch) \in Bits
<1>1. PICK f : Shifts(Xor(c, {b + 8 : b \in ch}), f) /\ CrcNext(c, ch) = f[8]
  BY NextShifts
<1>2. 8 \in 0 .. 8
  OBVIOUS
<1> QED
  BY <1>1, <1>2 DEF Shifts

\* A checksum whose upper byte is added next is shifted by a byte.
LEMMA UpperByteGoes ==
    ASSUME NEW c \in Bits
    PROVE  CrcNext(c, {b - 8 : b \in c \ 0 .. 7}) = {b + 8 : b \in c \cap 0 .. 7}
<1> DEFINE hi == {b - 8 : b \in c \ 0 .. 7}
           lo == c \cap 0 .. 7
<1>1. hi \in Bytes
  BY DEF Bits, Bytes
<1>2. Xor(c, {b + 8 : b \in hi}) = lo
  <2>1. {b + 8 : b \in hi} = c \ 0 .. 7
    <3>1. ASSUME NEW a \in hi PROVE a + 8 \in c \ 0 .. 7
      <4>1. PICK b \in c \ 0 .. 7 : a = b - 8
        BY <3>1
      <4>2. b \in Nat
        BY DEF Bits
      <4> QED
        BY <4>1, <4>2
    <3>2. ASSUME NEW b \in c \ 0 .. 7 PROVE b - 8 \in hi /\ b = (b - 8) + 8
      <4>1. b \in Nat
        BY DEF Bits
      <4> QED
        BY <4>1
    <3> HIDE DEF hi
    <3> QED
      BY <3>1, <3>2
  <2> QED
    BY <2>1 DEF Xor
<1>3. PICK f : Shifts(lo, f) /\ CrcNext(c, hi) = f[8]
  BY <1>1, <1>2, NextShifts
<1> DEFINE up(m) == {b + m : b \in lo}
<1>4. f[0] = up(0)
  <2>1. \A b \in lo : b + 0 = b
    OBVIOUS
  <2> QED
    BY <1>3, <2>1 DEF Shifts
<1>5. ASSUME NEW m \in 1 .. 8, f[m - 1] = up(m - 1) PROVE f[m] = up(m)
  <2>1. 15 \notin up(m - 1) /\ \A b \in lo : b \in Nat
    OBVIOUS
  <2>2. Shift1(up(m - 1)) = {b + 1 : b \in up(m - 1) \ {15}}
    BY <2>1 DEF Shift1
  <2>3. {b + 1 : b \in up(m - 1) \ {15}} = {b + 1 : b \in up(m - 1)}
    BY <2>1
  <2>4. {b + 1 : b \in up(m - 1)} = up(m)
    <3>1. \A b \in lo : (b + (m - 1)) + 1 = b + m
      BY <2>1
    <3> QED
      BY <3>1
  <2>5. f[m] = Shift1(f[m - 1])
    BY <1>3 DEF Shifts
  <2> QED
    BY <1>5, <2>2, <2>3, <2>4, <2>5
<1> HIDE DEF up
<1>6. f[1] = up(1)
  BY <1>4, <1>5
<1>7. f[2] = up(2)
  BY <1>5, <1>6
<1>8. f[3] = up(3)
  BY <1>5, <1>7
<1>9. f[4] = up(4)
  BY <1>5, <1>8
<1>10. f[5] = up(5)
  BY <1>5, <1>9
<1>11. f[6] = up(6)
  BY <1>5, <1>10
<1>12. f[7] = up(7)
  BY <1>5, <1>11
<1>13. f[8] = up(8)
  BY <1>5, <1>12
<1> QED
  BY <1>3, <1>13 DEF up

LEMMA LowerByteGoes ==
    ASSUME NEW lo \in Bytes
    PROVE  CrcNext({b + 8 : b \in lo}, lo) = {}
<1> DEFINE c == {b + 8 : b \in lo}
<1>1. c \in Bits /\ Xor(c, c) = {}
  BY DEF Bits, Bytes, Xor
<1>2. PICK f : Shifts({}, f) /\ CrcNext(c, lo) = f[8]
  BY <1>1, NextShifts
<1>3. ASSUME NEW m \in 1 .. 8, f[m - 1] = {} PROVE f[m] = {}
  <2>1. Shift1({}) = {}
    BY DEF Shift1
  <2> QED
    BY <1>2, <1>3, <2>1 DEF Shifts
<1>4. f[0] = {}
  BY <1>2 DEF Shifts
<1>5. f[1] = {} /\ (f[1] = {} => f[2] = {}) /\ (f[2] = {} => f[3] = {}) /\ (f[3] = {} => f[4] = {})
      /\ (f[4] = {} => f[5] = {}) /\ (f[5] = {} => f[6] = {}) /\ (f[6] = {} => f[7] = {})
      /\ (f[7] = {} => f[8] = {})
  BY <1>3, <1>4
<1> QED
  BY <1>2, <1>5
Sums(c, bytes, f) ==
    /\ f \in [0 .. Len(bytes) -> Bits] /\ f[0] = c
    /\ \A m \in 1 .. Len(bytes) : f[m] = CrcNext(f[m - 1], bytes[m])

LEMMA BufSums ==
    ASSUME NEW c \in Bits, NEW bytes \in Seq(Bytes)
    PROVE  \E f : Sums(c, bytes, f) /\ CrcBuf(c, bytes) = f[Len(bytes)]
<1> DEFINE n == Len(bytes)
           Loop(f) == f = [m \in 0 .. n |-> IF m = 0 THEN c ELSE CrcNext(f[m - 1], bytes[m])]
           f == CHOOSE f : Loop(f)
           step == [m \in 1 .. n |-> [d \in Bits |-> CrcNext(d, bytes[m])]]
<1>1. n \in Nat /\ \A m \in 1 .. n : bytes[m] \in Bytes
  OBVIOUS
<1>2. CrcBuf(c, bytes) = f[n]
  BY DEF CrcBuf
<1> HIDE DEF n
<1>3. step \in [1 .. n -> [Bits -> Bits]]
  BY <1>1, NextStays
<1>4. PICK h : Builds(Bits, c, step, n, h)
  <2> HIDE DEF step
  <2> QED
    BY <1>1, <1>3, Built
<1>5. h \in [0 .. n -> Bits] /\ h[0] = c /\ \A m \in 1 .. n : h[m] = CrcNext(h[m - 1], bytes[m])
  <2>1. h \in [0 .. n -> Bits] /\ h[0] = c /\ \A m \in 1 .. n : h[m] = step[m][h[m - 1]]
    BY <1>4 DEF Builds
  <2>2. \A m \in 1 .. n : m - 1 \in 0 .. n
    BY <1>1
  <2> QED
    BY <2>1, <2>2
<1>6. Loop(h)
  BY <1>5
<1>7. Loop(f)
  BY <1>6
<1> HIDE DEF f
<1>8. f[0] = c /\ \A m \in 1 .. n : f[m] = CrcNext(f[m - 1], bytes[m])
  BY <1>1, <1>7
<1>9. \A m \in 0 .. n : f[m] \in Bits
  <2>1. f[0] \in Bits /\ \A m \in 1 .. n : f[m - 1] \in Bits => f[m] \in Bits
    BY <1>1, <1>8, NextStays
  <2> QED
    BY <1>1, <2>1, StaysIn
<1>10. f \in [0 .. n -> Bits]
  BY <1>7, <1>9
<1> QED
  BY <1>2, <1>8, <1>10 DEF Sums, n

\* Sums over the same bytes agree.
LEMMA SumsAgree ==
    ASSUME NEW c, NEW a, NEW b, NEW f, NEW g, Sums(c, a, f), Sums(c, b, g),
           NEW n \in Nat, Len(a) \in Nat, Len(b) \in Nat, n <= Len(a), n <= Len(b), \A m \in 1 .. n : a[m] = b[m]
    PROVE  \A m \in 0 .. n : f[m] = g[m]
<1> DEFINE S == {m \in Nat : m <= n => f[m] = g[m]}
<1>1. 0 \in S
  BY DEF Sums
<1>2. ASSUME NEW m \in Nat, m \in S PROVE m + 1 \in S
  <2> SUFFICES ASSUME m + 1 <= n PROVE f[m + 1] = g[m + 1]
    OBVIOUS
  <2>1. m + 1 \in 1 .. n /\ m + 1 \in 1 .. Len(a) /\ m + 1 \in 1 .. Len(b) /\ (m + 1) - 1 = m /\ f[m] = g[m]
    BY <1>2
  <2>2. f[m + 1] = CrcNext(f[m], a[m + 1]) /\ g[m + 1] = CrcNext(g[m], b[m + 1]) /\ a[m + 1] = b[m + 1]
    BY <2>1 DEF Sums
  <2> QED
    BY <2>1, <2>2
<1>3. \A m \in Nat : m \in S
  <2> HIDE DEF S
  <2> QED
    BY <1>1, <1>2, SetInduction
<1> QED
  BY <1>3

\* A message and its checksum sum up to zero.
LEMMA WithChecksum ==
    ASSUME NEW bytes \in Seq(Bytes), NEW crc, crc = CrcBuf({}, bytes)
    PROVE  CrcBuf({}, bytes \o <<{b - 8 : b \in crc \ 0 .. 7}, crc \cap 0 .. 7>>) = {}
<1> DEFINE hi == {b - 8 : b \in crc \ 0 .. 7}
           lo == crc \cap 0 .. 7
           n == Len(bytes)
           all == bytes \o <<hi, lo>>
<1>1. {} \in Bits
  BY DEF Bits
<1>2. PICK f : Sums({}, bytes, f) /\ crc = f[n]
  BY <1>1, BufSums
<1>3. crc \in Bits /\ n \in Nat
  BY <1>2 DEF Sums
<1>4. hi \in Bytes /\ lo \in Bytes
  BY <1>3 DEF Bytes, Bits
<1> HIDE DEF hi, lo
<1>5. all \in Seq(Bytes) /\ Len(all) = n + 2 /\ (\A m \in 1 .. n : all[m] = bytes[m]) /\ all[n + 1] = hi /\ all[n + 2] = lo
  BY <1>4
<1> HIDE DEF all
<1>6. PICK g : Sums({}, all, g) /\ CrcBuf({}, all) = g[Len(all)]
  BY <1>1, <1>5, BufSums
<1>7. g[n] = crc
  BY <1>2, <1>3, <1>5, <1>6, SumsAgree
<1>8. n + 1 \in 1 .. n + 2 /\ n + 2 \in 1 .. n + 2 /\ (n + 1) - 1 = n /\ (n + 2) - 1 = n + 1
  BY <1>3
<1>9. g[n + 1] = CrcNext(crc, hi) /\ g[n + 2] = CrcNext(g[n + 1], lo)
  BY <1>5, <1>6, <1>7, <1>8 DEF Sums
<1>10. CrcNext(crc, hi) = {b + 8 : b \in lo}
  BY <1>3, UpperByteGoes DEF hi, lo
<1>11. g[n + 2] = {}
  BY <1>4, <1>9, <1>10, LowerByteGoes
<1> QED
  BY <1>5, <1>6, <1>11 DEF all, hi, lo

\* A change of one byte changes every sum from there on.
LEMMA ChangeShows ==
    ASSUME NEW bytes \in Seq(Bytes), NEW n \in DOMAIN bytes, NEW ch \in Bytes, ch # bytes[n]
    PROVE  CrcBuf({}, [bytes EXCEPT ![n] = ch]) # CrcBuf({}, bytes)
<1> DEFINE other == [bytes EXCEPT ![n] = ch]
           l == Len(bytes)
<1>1. {} \in Bits /\ l \in Nat /\ n \in 1 .. l /\ n - 1 \in Nat /\ n \in Nat
  BY DEF Bits
<1>2. other \in Seq(Bytes) /\ Len(other) = l /\ other[n] = ch /\ \A m \in 1 .. l : m # n => other[m] = bytes[m]
  OBVIOUS
<1>3. \A m \in 1 .. l : bytes[m] \in Bytes /\ other[m] \in Bytes
  BY <1>2
<1> HIDE DEF other
<1>4. PICK f : Sums({}, bytes, f) /\ CrcBuf({}, bytes) = f[l]
  BY <1>1, BufSums
<1>5. PICK g : Sums({}, other, g) /\ CrcBuf({}, other) = g[l]
  BY <1>1, <1>2, BufSums
<1> HIDE DEF l
<1>6. f[n - 1] = g[n - 1]
  <2>1. n - 1 <= l /\ n - 1 \in 0 .. n - 1 /\ \A m \in 1 .. n - 1 : bytes[m] = other[m]
    BY <1>1, <1>2
  <2>2. Len(bytes) = l /\ n - 1 \in Nat /\ l \in Nat
    BY <1>1 DEF l
  <2>3. \A m \in 0 .. n - 1 : f[m] = g[m]
    BY <1>2, <1>4, <1>5, <2>1, <2>2, SumsAgree
  <2> QED
    BY <2>1, <2>3
<1>7. \A m \in 1 .. l : /\ f[m - 1] \in Bits /\ g[m - 1] \in Bits
                        /\ f[m] = CrcNext(f[m - 1], bytes[m]) /\ g[m] = CrcNext(g[m - 1], other[m])
  BY <1>1, <1>2, <1>4, <1>5 DEF Sums, l
<1>8. f[n] # g[n]
  <2> SUFFICES ASSUME f[n] = g[n] PROVE FALSE
    OBVIOUS
  <2>1. Xor(f[n - 1], {b + 8 : b \in bytes[n]}) = Xor(f[n - 1], {b + 8 : b \in ch})
    <3>1. f[n - 1] \in Bits /\ bytes[n] \in Bytes /\ CrcNext(f[n - 1], bytes[n]) = CrcNext(f[n - 1], ch)
      BY <1>1, <1>2, <1>3, <1>6, <1>7
    <3> QED
      BY <3>1, NextTells
  <2>2. {b + 8 : b \in bytes[n]} = {b + 8 : b \in ch}
    BY <2>1 DEF Xor
  <2>3. ASSUME NEW v \in Bytes, NEW w \in Bytes, {b + 8 : b \in v} = {b + 8 : b \in w}, NEW b \in v PROVE b \in w
    <3>1. b + 8 \in {a + 8 : a \in w} /\ b \in Nat
      <4>1. b + 8 \in {a + 8 : a \in v}
        BY <2>3
      <4>2. b \in Nat
        BY <2>3 DEF Bytes
      <4> QED
        BY <2>3, <4>1, <4>2
    <3>2. PICK a \in w : a + 8 = b + 8
      BY <3>1
    <3>3. a \in Nat
      BY DEF Bytes
    <3> QED
      BY <3>1, <3>2, <3>3
  <2>4. bytes[n] \in Bytes
    BY <1>1, <1>3
  <2>5. bytes[n] \subseteq ch /\ ch \subseteq bytes[n]
    BY <2>2, <2>3, <2>4
  <2> QED
    BY <2>5
<1>9. ASSUME NEW m \in Nat, n <= m, m + 1 <= l, f[m] # g[m] PROVE f[m + 1] # g[m + 1]
  <2>1. m + 1 \in 1 .. l /\ (m + 1) - 1 = m /\ m + 1 # n
    BY <1>1, <1>9
  <2>2. other[m + 1] = bytes[m + 1] /\ bytes[m + 1] \in Bytes /\ f[m] \in Bits /\ g[m] \in Bits
    BY <1>2, <1>3, <1>7, <2>1
  <2>3. f[m + 1] = CrcNext(f[m], bytes[m + 1]) /\ g[m + 1] = CrcNext(g[m], bytes[m + 1])
    BY <1>7, <2>1, <2>2
  <2>4. SUFFICES ASSUME f[m + 1] = g[m + 1] PROVE FALSE
    OBVIOUS
  <2> DEFINE up == {b + 8 : b \in bytes[m + 1]}
  <2>5. Xor(f[m], up) = Xor(g[m], up)
    <3>1. CrcNext(f[m], bytes[m + 1]) = CrcNext(g[m], bytes[m + 1])
      BY <2>3, <2>4
    <3> QED
      BY <2>2, <3>1, NextTells
  <2> HIDE DEF up
  <2>6. f[m] = g[m]
    BY <2>5 DEF Xor
  <2> QED
    BY <1>9, <2>6
<1> DEFINE S == {m \in Nat : n <= m /\ m <= l => f[m] # g[m]}
<1>10. 0 \in S
  BY <1>1
<1>11. ASSUME NEW m \in Nat, m \in S PROVE m + 1 \in S
  <2> SUFFICES ASSUME n <= m + 1, m + 1 <= l PROVE f[m + 1] # g[m + 1]
    OBVIOUS
  <2>1. CASE n = m + 1
    BY <1>8, <2>1
  <2>2. CASE n # m + 1
    <3>1. n <= m /\ m <= l
      BY <1>1, <2>2
    <3> QED
      BY <1>9, <1>11, <3>1
  <2> QED
    BY <2>1, <2>2
<1>12. \A m \in Nat : m \in S
  <2> HIDE DEF S
  <2> QED
    BY <1>10, <1>11, SetInduction
<1> QED
  BY <1>1, <1>4, <1>5, <1>12 DEF other

\* The checksum of a message of any length and bytes shows every change of one of
\* them, and sums up to zero behind the message.
THEOREM ChecksumsDetect == TextSpec => []ChecksumDetects
<1> DEFINE Summed == asked.kind = "crc" => asked.bytes \in Seq(Bytes) /\ answer.crc = CrcBuf({}, asked.bytes)
<1>1. TextInit => Summed
  BY DEF TextInit
<1>2. Summed /\ [TextNext]_textVars => Summed'
  <2> SUFFICES ASSUME Summed, [TextNext]_textVars PROVE Summed'
    OBVIOUS
  <2>1. CASE SumUp
    <3>1. PICK bytes \in Messages : asked' = [kind |-> "crc", bytes |-> bytes] /\ answer' = [crc |-> CrcBuf({}, bytes)]
      BY <2>1 DEF SumUp
    <3>2. bytes \in Seq(Bytes)
      BY TextAssumption DEF Bytes
    <3> QED
      BY <3>1, <3>2
  <2>2. CASE ParseUri \/ ReadNumber \/ ReadDecimal \/ ParseAddress
    <3>1. asked'.kind # "crc"
      BY <2>2 DEF ParseUri, ReadNumber, ReadDecimal, ParseAddress
    <3> QED
      BY <3>1
  <2>3. CASE UNCHANGED textVars
    BY <2>3 DEF textVars
  <2> QED
    BY <2>1, <2>2, <2>3 DEF TextNext
<1>3. Summed => ChecksumDetects
  <2> SUFFICES ASSUME Summed, asked.kind = "crc" PROVE ChecksumDetects
    BY DEF ChecksumDetects
  <2>1. asked.bytes \in Seq(Bytes) /\ answer.crc = CrcBuf({}, asked.bytes) /\ Byte \subseteq Bytes
    BY TextAssumption DEF Bytes
  <2> QED
    BY <2>1, WithChecksum, ChangeShows DEF ChecksumDetects
<1> QED
  BY <1>1, <1>2, <1>3, PTL DEF TextSpec

-----------------------------------------------------------------------------
(* Str: texts that are taken apart *)

Texts == Seq(Chars)

\* No character of text is in set or the zero, which ends every span.
Free(text, set) == \A n \in DOMAIN text : text[n] \notin set \cup {NUL}

LEMMA CutIs ==
    ASSUME NEW text \in Texts, NEW n \in 0 .. Len(text)
    PROVE  /\ Cut(text, n).got \in Texts /\ Cut(text, n).rest \in Texts
           /\ Cut(text, n).got \o Cut(text, n).rest = text
           /\ Len(Cut(text, n).got) = n /\ \A m \in 1 .. n : Cut(text, n).got[m] = text[m]
           /\ Len(Cut(text, n).rest) = Len(text) - n
           /\ \A m \in 1 .. Len(text) - n : Cut(text, n).rest[m] = text[n + m]
<1>1. n \in Nat /\ Len(text) \in Nat /\ n <= Len(text) /\ text \in Seq(Chars)
  BY DEF Texts
<1>2. \A m \in 1 .. Len(text) : text[m] \in Chars
  BY <1>1, ElementOfSeq
<1> DEFINE got == SubSeq(text, 1, n)
           rest == SubSeq(text, n + 1, Len(text))
<1>3. got \in Seq(Chars) /\ Len(got) = n /\ \A m \in 1 .. n : got[m] = text[m]
  <2>1. \A m \in 1 .. n : text[m] \in Chars /\ 1 + m - 1 = m
    BY <1>1, <1>2
  <2>2. Len(got) = IF 1 <= n THEN n - 1 + 1 ELSE 0
    BY <1>1, <2>1, SubSeqProperties
  <2>3. got \in Seq(Chars) /\ \A m \in 1 .. n - 1 + 1 : got[m] = text[1 + m - 1]
    BY <1>1, <2>1, SubSeqProperties
  <2>4. n - 1 + 1 = n
    BY <1>1
  <2> HIDE DEF got
  <2> QED
    BY <1>1, <2>1, <2>2, <2>3, <2>4
<1>4. rest \in Seq(Chars) /\ Len(rest) = Len(text) - n /\ \A m \in 1 .. Len(text) - n : rest[m] = text[n + m]
  <2>1. \A m \in n + 1 .. Len(text) : text[m] \in Chars
    BY <1>1, <1>2
  <2>2. Len(rest) = IF n + 1 <= Len(text) THEN Len(text) - (n + 1) + 1 ELSE 0
    BY <1>1, <2>1, SubSeqProperties
  <2>3. rest \in Seq(Chars) /\ \A m \in 1 .. Len(text) - (n + 1) + 1 : rest[m] = text[(n + 1) + m - 1]
    BY <1>1, <2>1, SubSeqProperties
  <2>4. Len(text) - (n + 1) + 1 = Len(text) - n /\ \A m \in 1 .. Len(text) - n : (n + 1) + m - 1 = n + m
    BY <1>1
  <2> HIDE DEF rest
  <2>5. Len(rest) = Len(text) - n
    <3> DEFINE l == Len(text)
    <3>1. Len(rest) = IF n + 1 <= l THEN l - (n + 1) + 1 ELSE 0
      BY <2>2
    <3>2. n \in Nat /\ l \in Nat /\ n <= l
      BY <1>1
    <3> HIDE DEF l
    <3>3. Len(rest) = l - n
      BY <3>1, <3>2
    <3> QED
      BY <3>3 DEF l
  <2>6. ASSUME NEW m \in 1 .. Len(text) - n PROVE rest[m] = text[n + m]
    BY <2>3, <2>4
  <2> QED
    BY <2>3, <2>5, <2>6
<1>5. got \o rest = text
  <2>1. 1 \in 1 .. Len(text) + 1 /\ n \in 1 - 1 .. Len(text) /\ Len(text) \in n .. Len(text)
    BY <1>1
  <2>2. got \o rest = SubSeq(text, 1, Len(text))
    BY <1>1, <2>1, ConcatAdjacentSubSeq
  <2> QED
    BY <1>1, <2>2, SubSeqFull
<1>6. Cut(text, n).got = got /\ Cut(text, n).rest = rest
  BY DEF Cut
<1> HIDE DEF got, rest
<1> QED
  BY <1>3, <1>4, <1>5, <1>6 DEF Texts

LEMMA SplitIs ==
    ASSUME NEW text \in Texts, NEW n \in 0 .. Len(text)
    PROVE  Split(text, n) = Cut(text, n)
<1>1. Len(text) \in Nat /\ n \in Nat /\ n <= Len(text)
  BY DEF Texts
<1> QED
  BY <1>1 DEF Split

\* Every text begins with some characters of a set, none at least, and then another.
LEMMA LeadingIs ==
    ASSUME NEW text \in Texts, NEW set
    PROVE  /\ Leading(text, set) \in 0 .. Len(text)
           /\ \A m \in 1 .. Leading(text, set) : text[m] \in set
           /\ Leading(text, set) < Len(text) => text[Leading(text, set) + 1] \notin set
<1> DEFINE Leads(n) == /\ \A m \in 1 .. n : text[m] \in set
                       /\ n < Len(text) => text[n + 1] \notin set
<1>1. Len(text) \in Nat
  BY DEF Texts
<1>2. \E n \in 0 .. Len(text) : Leads(n)
  <2> SUFFICES ASSUME ~ \E n \in 0 .. Len(text) : Leads(n) PROVE FALSE
    OBVIOUS
  <2> DEFINE S == {n \in Nat : n <= Len(text) => \A m \in 1 .. n : text[m] \in set}
  <2>1. 0 \in S
    OBVIOUS
  <2>2. ASSUME NEW n \in Nat, n \in S PROVE n + 1 \in S
    <3> SUFFICES ASSUME n + 1 <= Len(text), NEW m \in 1 .. n + 1 PROVE text[m] \in set
      OBVIOUS
    <3>1. n \in 0 .. Len(text) /\ n < Len(text) /\ \A p \in 1 .. n : text[p] \in set
      BY <1>1, <2>2
    <3>2. text[n + 1] \in set
      BY <3>1
    <3> QED
      BY <3>1, <3>2
  <2>3. \A n \in Nat : n \in S
    <3> HIDE DEF S
    <3> QED
      BY <2>1, <2>2, SetInduction
  <2>4. Leads(Len(text))
    BY <1>1, <2>3
  <2> QED
    BY <1>1, <2>4
<1> DEFINE l == CHOOSE n \in 0 .. Len(text) : Leads(n)
<1>3. l \in 0 .. Len(text) /\ Leads(l)
  <2> HIDE DEF Leads
  <2> QED
    BY <1>2
<1>4. Leading(text, set) = l
  BY DEF Leading
<1> HIDE DEF l
<1> QED
  BY <1>3, <1>4

\* str_cspan takes what is free of the delimiters, up to the first of them.
LEMMA CSpanIs ==
    ASSUME NEW text \in Texts, NEW set
    PROVE  LET span == CSpan(text, set)
           IN  /\ span.got \in Texts /\ span.rest \in Texts /\ span.got \o span.rest = text
               /\ Free(span.got, set)
               /\ span.rest # <<>> => span.rest[1] \in set \cup {NUL}
<1> DEFINE other == {text[n] : n \in DOMAIN text} \ (set \cup {NUL})
           n == Leading(text, other)
           span == CSpan(text, set)
<1>1. Len(text) \in Nat /\ DOMAIN text = 1 .. Len(text)
  BY DEF Texts
<1>2. n \in 0 .. Len(text) /\ (\A m \in 1 .. n : text[m] \in other) /\ (n < Len(text) => text[n + 1] \notin other)
  BY LeadingIs
<1>3. span = Cut(text, n)
  BY <1>2, SplitIs DEF CSpan
<1> HIDE DEF n, other
<1> HIDE DEF span
<1>4. /\ span.got \in Texts /\ span.rest \in Texts /\ span.got \o span.rest = text
      /\ Len(span.got) = n /\ \A m \in 1 .. n : span.got[m] = text[m]
  BY <1>2, <1>3, CutIs
<1>5. Len(span.rest) = Len(text) - n /\ \A m \in 1 .. Len(text) - n : span.rest[m] = text[n + m]
  BY <1>2, <1>3, CutIs
<1>6. Free(span.got, set)
  <2>1. DOMAIN span.got = 1 .. n
    BY <1>4 DEF Texts
  <2> QED
    BY <1>2, <1>4, <2>1 DEF Free, other
<1>7. ASSUME span.rest # <<>> PROVE span.rest[1] \in set \cup {NUL}
  <2>1. Len(span.rest) # 0
    BY <1>4, <1>7, EmptySeq DEF Texts
  <2>2. 1 \in 1 .. Len(text) - n /\ n < Len(text) /\ n + 1 \in 1 .. Len(text)
    <3> DEFINE l == Len(text)
    <3>1. l - n # 0
      BY <1>5, <2>1
    <3>2. n \in 0 .. l /\ l \in Nat
      BY <1>1, <1>2
    <3> HIDE DEF l
    <3>3. 1 \in 1 .. l - n /\ n < l /\ n + 1 \in 1 .. l
      BY <3>1, <3>2
    <3> QED
      BY <3>3 DEF l
  <2>3. span.rest[1] = text[n + 1] /\ text[n + 1] \notin other
    BY <1>2, <1>5, <2>2
  <2> QED
    BY <1>1, <2>2, <2>3 DEF other
<1> QED
  BY <1>4, <1>6, <1>7 DEF span

LEMMA FirstOf ==
    ASSUME NEW a \in Texts, NEW b \in Texts
    PROVE  /\ a \o b \in Texts /\ Len(a \o b) = Len(a) + Len(b)
           /\ \A m \in 1 .. Len(a) : (a \o b)[m] = a[m]
           /\ \A m \in 1 .. Len(b) : (a \o b)[Len(a) + m] = b[m]
<1>1. Len(a) \in Nat /\ Len(b) \in Nat /\ a \in Seq(Chars) /\ b \in Seq(Chars)
  BY DEF Texts
<1>2. /\ a \o b \in Seq(Chars) /\ Len(a \o b) = Len(a) + Len(b)
      /\ \A m \in 1 .. Len(a) + Len(b) : (a \o b)[m] = IF m <= Len(a) THEN a[m] ELSE b[m - Len(a)]
  BY <1>1, ConcatProperties
<1> DEFINE ab == a \o b  la == Len(a)  lb == Len(b)
<1>3. la \in Nat /\ lb \in Nat /\ \A m \in 1 .. la + lb : ab[m] = IF m <= la THEN a[m] ELSE b[m - la]
  BY <1>1, <1>2
<1> HIDE DEF ab, la, lb
<1>4. ASSUME NEW m \in 1 .. la PROVE ab[m] = a[m]
  BY <1>3
<1>5. ASSUME NEW m \in 1 .. lb PROVE ab[la + m] = b[m]
  <2>1. la + m \in 1 .. la + lb /\ ~(la + m <= la) /\ (la + m) - la = m
    BY <1>3
  <2> QED
    BY <1>3, <2>1
<1> QED
  BY <1>2, <1>4, <1>5 DEF ab, la, lb, Texts

LEMMA Cancel ==
    ASSUME NEW a \in Texts, NEW b \in Texts, NEW c \in Texts, a \o b = a \o c
    PROVE  b = c
BY ConcatSimplifications DEF Texts

\* Three texts, the first two put together first; left as it is so that a prover
\* regroups only what it is told to.
Joined(a, b, c) == (a \o b) \o c

LEMMA Regroup ==
    ASSUME NEW a \in Texts, NEW b \in Texts, NEW c \in Texts
    PROVE  Joined(a, b, c) = a \o (b \o c)
BY ConcatAssociative DEF Texts, Joined

LEMMA NoText == <<>> \in Texts /\ \A a \in Texts : <<>> \o a = a /\ a \o <<>> = a
BY ConcatEmptySeq DEF Texts

\* str_cspan takes what is free of the delimiters, when one follows or nothing does.
LEMMA CSpanOf ==
    ASSUME NEW a \in Texts, NEW b \in Texts, NEW set, Free(a, set), b # <<>> => b[1] \in set \cup {NUL}
    PROVE  CSpan(a \o b, set).got = a /\ CSpan(a \o b, set).rest = b
<1> DEFINE got == CSpan(a \o b, set).got
           rest == CSpan(a \o b, set).rest
<1>1. a \o b \in Texts
  BY FirstOf
<1>2. /\ got \in Texts /\ rest \in Texts /\ got \o rest = a \o b /\ Free(got, set)
      /\ rest # <<>> => rest[1] \in set \cup {NUL}
  BY <1>1, CSpanIs
<1> HIDE DEF got, rest
<1>3. /\ Len(a) \in Nat /\ Len(b) \in Nat /\ Len(got) \in Nat /\ Len(rest) \in Nat
      /\ Len(got) + Len(rest) = Len(a) + Len(b)
  <2>1. Len(got) + Len(rest) = Len(a) + Len(b)
    BY <1>2, FirstOf
  <2> QED
    BY <1>2, <2>1 DEF Texts
<1>4. DOMAIN a = 1 .. Len(a) /\ DOMAIN got = 1 .. Len(got)
  BY <1>2 DEF Texts
<1>5. /\ \A m \in 1 .. Len(got) : (a \o b)[m] = got[m]
      /\ \A m \in 1 .. Len(rest) : (a \o b)[Len(got) + m] = rest[m]
  <2>1. /\ \A m \in 1 .. Len(got) : (got \o rest)[m] = got[m]
        /\ \A m \in 1 .. Len(rest) : (got \o rest)[Len(got) + m] = rest[m]
    BY <1>2, FirstOf
  <2> QED
    BY <1>2, <2>1
<1>6. /\ \A m \in 1 .. Len(a) : (a \o b)[m] = a[m]
      /\ \A m \in 1 .. Len(b) : (a \o b)[Len(a) + m] = b[m]
  BY FirstOf
<1>7. ~(Len(got) < Len(a))
  <2> SUFFICES ASSUME Len(got) < Len(a) PROVE FALSE
    OBVIOUS
  <2>1. Len(rest) # 0 /\ 1 \in 1 .. Len(rest) /\ Len(got) + 1 \in 1 .. Len(a)
    BY <1>3
  <2>2. rest # <<>>
    BY <2>1
  <2>3. rest[1] = a[Len(got) + 1]
    BY <1>5, <1>6, <2>1
  <2>4. a[Len(got) + 1] \notin set \cup {NUL}
    BY <1>4, <2>1 DEF Free
  <2> QED
    BY <1>2, <2>2, <2>3, <2>4
<1>8. ~(Len(a) < Len(got))
  <2> SUFFICES ASSUME Len(a) < Len(got) PROVE FALSE
    OBVIOUS
  <2>1. Len(b) # 0 /\ 1 \in 1 .. Len(b) /\ Len(a) + 1 \in 1 .. Len(got)
    BY <1>3
  <2>2. b # <<>>
    BY <2>1
  <2>3. b[1] = got[Len(a) + 1]
    BY <1>5, <1>6, <2>1
  <2>4. got[Len(a) + 1] \notin set \cup {NUL}
    BY <1>2, <1>4, <2>1 DEF Free
  <2> QED
    BY <2>2, <2>3, <2>4
<1>9. Len(got) = Len(a)
  BY <1>3, <1>7, <1>8
<1>10. got = a
  <2>1. \A m \in 1 .. Len(a) : got[m] = a[m]
    BY <1>5, <1>6, <1>9
  <2>2. got \in Seq(Chars) /\ a \in Seq(Chars)
    BY <1>2 DEF Texts
  <2> QED
    BY <1>9, <2>1, <2>2, SeqEqual
<1>11. rest = b
  BY <1>2, <1>10, Cancel
<1> QED
  BY <1>10, <1>11 DEF got, rest

\* str_accept takes a prefix from a text, or nothing.
LEMMA AcceptIs ==
    ASSUME NEW text \in Texts, NEW p \in Texts
    PROVE  LET taken == Accept(text, p)
           IN  /\ taken.ok \in BOOLEAN /\ taken.rest \in Texts
               /\ taken.ok <=> IsPrefix(p, text)
               /\ taken.ok => p \o taken.rest = text
               /\ ~taken.ok => taken.rest = text
<1>1. Len(text) \in Nat /\ Len(p) \in Nat
  BY DEF Texts
<1>2. IsPrefix(p, text) \in BOOLEAN
  BY DEF IsPrefix
<1>3. CASE IsPrefix(p, text)
  <2>1. Len(p) \in 0 .. Len(text) /\ SubSeq(p, 1, Len(p)) = SubSeq(text, 1, Len(p))
    BY <1>1, <1>3 DEF IsPrefix
  <2>2. SubSeq(p, 1, Len(p)) = p
    BY SubSeqFull DEF Texts
  <2>3. Cut(text, Len(p)).got = p
    BY <2>1, <2>2 DEF Cut
  <2>4. Accept(text, p).ok = TRUE /\ Accept(text, p).rest = Cut(text, Len(p)).rest
    BY <1>3, <2>1, SplitIs DEF Accept
  <2>5. Cut(text, Len(p)).rest \in Texts /\ Cut(text, Len(p)).got \o Cut(text, Len(p)).rest = text
    BY <2>1, CutIs
  <2> QED
    BY <1>3, <2>3, <2>4, <2>5
<1>4. CASE ~IsPrefix(p, text)
  <2>1. Accept(text, p).ok = FALSE /\ Accept(text, p).rest = text
    BY <1>4 DEF Accept
  <2> QED
    BY <1>4, <2>1
<1> QED
  BY <1>3, <1>4

LEMMA PrefixOf ==
    ASSUME NEW p \in Texts, NEW b \in Texts
    PROVE  IsPrefix(p, p \o b)
<1>1. Len(p) \in Nat /\ Len(b) \in Nat /\ Len(p \o b) = Len(p) + Len(b)
  BY FirstOf DEF Texts
<1>2. SubSeq(p, 1, Len(p)) = SubSeq(p \o b, 1, Len(p))
  <2>1. CASE Len(p) = 0
    BY <2>1, SubSeqEmpty
  <2>2. CASE Len(p) # 0
    <3>1. 1 \in 1 .. Len(p) /\ Len(p) \in 1 .. Len(p)
      BY <1>1, <2>2
    <3> QED
      BY <3>1, SubSeqOfConcat1 DEF Texts
  <2> QED
    BY <2>1, <2>2
<1> QED
  BY <1>1, <1>2 DEF IsPrefix

LEMMA AcceptOf ==
    ASSUME NEW p \in Texts, NEW b \in Texts
    PROVE  Accept(p \o b, p).ok /\ Accept(p \o b, p).rest = b
<1>1. p \o b \in Texts /\ IsPrefix(p, p \o b)
  BY FirstOf, PrefixOf
<1>2. Accept(p \o b, p).ok /\ Accept(p \o b, p).rest \in Texts /\ p \o Accept(p \o b, p).rest = p \o b
  BY <1>1, AcceptIs
<1> QED
  BY <1>2, Cancel

LEMMA OneIsSeq == ASSUME NEW S, NEW x \in S PROVE <<x>> \in Seq(S)
OBVIOUS

\* One character is accepted where the text begins with it.
LEMMA BeginsWith ==
    ASSUME NEW text \in Texts, NEW ch \in Chars
    PROVE  <<ch>> \in Texts /\ (IsPrefix(<<ch>>, text) <=> text # <<>> /\ text[1] = ch)
<1> DEFINE one == <<ch>>
<1>1. one \in Texts /\ Len(one) = 1 /\ one[1] = ch
  <2>1. Len(one) = 1 /\ one[1] = ch
    OBVIOUS
  <2>2. one \in Seq(Chars)
    BY OneIsSeq
  <2> QED
    BY <2>1, <2>2 DEF Texts
<1>2. Len(text) \in Nat /\ text \in Seq(Chars) /\ (Len(text) = 0 <=> text = <<>>)
  BY EmptySeq DEF Texts
<1> HIDE DEF one
<1>3. SubSeq(one, 1, 1) = one
  BY <1>1, SubSeqFull DEF Texts
<1>4. ASSUME Len(text) # 0
      PROVE  one = SubSeq(text, 1, 1) <=> text[1] = ch
  <2>1. 1 \in 0 .. Len(text)
    BY <1>2, <1>4
  <2> DEFINE first == SubSeq(text, 1, 1)
  <2>2. Cut(text, 1).got = first
    BY DEF Cut
  <2> HIDE DEF first
  <2>3. first \in Texts /\ Len(first) = 1 /\ first[1] = text[1]
    <3>1. first \in Texts /\ Len(first) = 1 /\ \A m \in 1 .. 1 : first[m] = text[m]
      BY <2>1, <2>2, CutIs
    <3> QED
      BY <3>1
  <2>4. one = first <=> one[1] = first[1]
    <3>1. first \in Seq(Chars) /\ one \in Seq(Chars)
      BY <1>1, <2>3 DEF Texts
    <3>2. (\A m \in 1 .. 1 : one[m] = first[m]) => one = first
      BY <1>1, <2>3, <3>1, SeqEqual
    <3>3. 1 .. 1 = {1}
      OBVIOUS
    <3> QED
      BY <3>2, <3>3
  <2> QED
    BY <1>1, <2>3, <2>4 DEF first
<1>5. one \in Texts /\ (IsPrefix(one, text) <=> text # <<>> /\ text[1] = ch)
  <2>1. IsPrefix(one, text) <=> 1 <= Len(text) /\ SubSeq(one, 1, 1) = SubSeq(text, 1, 1)
    BY <1>1 DEF IsPrefix
  <2>2. Len(text) # 0 <=> 1 <= Len(text)
    BY <1>2
  <2> QED
    BY <1>1, <1>2, <1>3, <1>4, <2>1, <2>2
<1> QED
  BY <1>5 DEF one

-----------------------------------------------------------------------------
(* Uri: nothing of a text is lost *)

NoZero(text) == \A n \in DOMAIN text : text[n] # NUL

LEMMA NoZeroBehind ==
    ASSUME NEW a \in Texts, NEW b \in Texts, NoZero(a \o b)
    PROVE  NoZero(b) /\ (b # <<>> => b[1] # NUL)
<1>1. a \o b \in Texts /\ Len(a) \in Nat /\ Len(b) \in Nat /\ Len(a \o b) = Len(a) + Len(b)
  BY FirstOf DEF Texts
<1>2. DOMAIN b = 1 .. Len(b) /\ DOMAIN (a \o b) = 1 .. Len(a) + Len(b)
  BY <1>1 DEF Texts
<1>3. ASSUME NEW n \in DOMAIN b PROVE b[n] # NUL
  <2>1. n \in 1 .. Len(b) /\ Len(a) + n \in 1 .. Len(a) + Len(b)
    BY <1>1, <1>2
  <2>2. (a \o b)[Len(a) + n] = b[n]
    BY <2>1, FirstOf
  <2> QED
    BY <1>2, <2>1, <2>2 DEF NoZero
<1>4. ASSUME b # <<>> PROVE 1 \in DOMAIN b
  <2>1. Len(b) # 0
    BY <1>1, <1>4, EmptySeq DEF Texts
  <2> QED
    BY <1>1, <1>2, <2>1
<1> QED
  BY <1>3, <1>4 DEF NoZero

\* The characters uris are made of.
LEMMA Marks ==
    /\ <<":">> \in Texts /\ <<"/">> \in Texts /\ <<"?">> \in Texts /\ <<"#">> \in Texts
    /\ <<"@">> \in Texts /\ <<"[">> \in Texts /\ <<"]">> \in Texts /\ <<"/", "/">> \in Texts
<1>1. ":" \in Chars /\ "/" \in Chars /\ "?" \in Chars /\ "#" \in Chars /\ "@" \in Chars /\ "[" \in Chars /\ "]" \in Chars
  BY CharsAssumption
<1>2. \A S : \A x \in S : <<x>> \in Seq(S) /\ <<x, x>> \in Seq(S)
  OBVIOUS
<1>3. \A x \in Chars : <<x>> \in Texts /\ <<x, x>> \in Texts
  BY <1>2 DEF Texts
<1> QED
  BY <1>1, <1>3

LEMMA PartIs ==
    ASSUME NEW before \in Texts, NEW t \in Texts, NEW behind \in Texts
    PROVE  Part(before, <<>>, behind) = <<>> /\ Part(before, <<t>>, behind) = before \o t \o behind
BY DEF Part

\* A part that str_accept finds at the head of text, and str_cspan the end of, written
\* again: a query or, with no delimiters, a fragment.
LEMMA MarkedPart ==
    ASSUME NEW text \in Texts, NEW ch \in Chars, NEW set, NoZero(text)
    PROVE  LET mark == Accept(text, <<ch>>)
               part == IF mark.ok THEN CSpan(mark.rest, set) ELSE Split(text, 0)
               written == Part(<<ch>>, IF mark.ok THEN <<part.got>> ELSE <<>>, <<>>)
           IN  /\ part.rest \in Texts /\ written \in Texts /\ written \o part.rest = text
               /\ mark.ok => part.rest = <<>> \/ part.rest[1] \in set
               /\ ~mark.ok => part.rest = text /\ (text = <<>> \/ text[1] # ch)
<1> DEFINE mark == Accept(text, <<ch>>)
           part == IF mark.ok THEN CSpan(mark.rest, set) ELSE Split(text, 0)
<1>1. <<ch>> \in Texts /\ (IsPrefix(<<ch>>, text) <=> text # <<>> /\ text[1] = ch)
  BY BeginsWith
<1>2. /\ mark.ok \in BOOLEAN /\ mark.rest \in Texts
      /\ mark.ok <=> text # <<>> /\ text[1] = ch
      /\ mark.ok => <<ch>> \o mark.rest = text
      /\ ~mark.ok => mark.rest = text
  BY <1>1, AcceptIs
<1> HIDE DEF mark
<1>3. CASE mark.ok
  <2>1. part = CSpan(mark.rest, set)
    BY <1>3
  <2> HIDE DEF part
  <2>2. /\ part.got \in Texts /\ part.rest \in Texts /\ part.got \o part.rest = mark.rest
        /\ part.rest # <<>> => part.rest[1] \in set \cup {NUL}
    BY <1>2, <2>1, CSpanIs
  <2>3. NoZero(mark.rest)
    BY <1>1, <1>2, <1>3, NoZeroBehind
  <2>4. NoZero(part.rest) /\ (part.rest # <<>> => part.rest[1] # NUL)
    BY <2>2, <2>3, NoZeroBehind
  <2>5. Part(<<ch>>, <<part.got>>, <<>>) = (<<ch>> \o part.got) \o <<>>
    BY <1>1, <2>2, PartIs, NoText
  <2>6. (<<ch>> \o part.got) \o <<>> = <<ch>> \o part.got
    BY <1>1, <2>2, FirstOf, NoText
  <2>8. <<ch>> \o part.got \in Texts
    BY <1>1, <2>2, FirstOf
  <2>7. (<<ch>> \o part.got) \o part.rest = text
    <3>1. Joined(<<ch>>, part.got, part.rest) = <<ch>> \o (part.got \o part.rest)
      BY <1>1, <2>2, Regroup
    <3>2. Joined(<<ch>>, part.got, part.rest) = text
      BY <1>2, <1>3, <2>2, <3>1
    <3> QED
      BY <3>2 DEF Joined
  <2> QED
    BY <1>3, <2>2, <2>4, <2>5, <2>6, <2>7, <2>8 DEF part, mark
<1>4. CASE ~mark.ok
  <2>1. 0 \in 0 .. Len(text) /\ Len(text) \in Nat
    BY DEF Texts
  <2>2. part = Cut(text, 0)
    BY <1>4, <2>1, SplitIs
  <2> HIDE DEF part
  <2>3. part.got \in Texts /\ part.rest \in Texts /\ part.got \o part.rest = text /\ Len(part.got) = 0
    BY <2>1, <2>2, CutIs
  <2>4. part.got = <<>>
    BY <2>3, EmptySeq DEF Texts
  <2>5. part.rest = text
    BY <2>3, <2>4, NoText
  <2>6. Part(<<ch>>, <<>>, <<>>) = <<>>
    BY DEF Part
  <2> QED
    BY <1>2, <1>4, <2>3, <2>5, <2>6, NoText DEF part, mark
<1> QED
  BY <1>2, <1>3, <1>4

LEMMA SchemeIs ==
    ASSUME NEW text \in Texts, NoZero(text)
    PROVE  LET part  == CSpan(text, {":", "/", "?", "#"})
               colon == Accept(part.rest, <<":">>)
               written == Part(<<>>, IF colon.ok THEN <<part.got>> ELSE <<>>, <<":">>)
           IN  /\ BehindScheme(text) \in Texts /\ NoZero(BehindScheme(text)) /\ written \in Texts
               /\ written \o BehindScheme(text) = text
<1> DEFINE sign  == <<":">>
           part  == CSpan(text, {":", "/", "?", "#"})
           colon == Accept(part.rest, sign)
<1>1. part.got \in Texts /\ part.rest \in Texts /\ part.got \o part.rest = text
  BY CSpanIs
<1>2. BehindScheme(text) = IF colon.ok THEN colon.rest ELSE text
  BY DEF BehindScheme
<1>0. sign \in Texts
  BY Marks
<1> HIDE DEF part, sign
<1>3. colon.ok \in BOOLEAN /\ colon.rest \in Texts /\ (colon.ok => sign \o colon.rest = part.rest)
  BY <1>0, <1>1, AcceptIs
<1> HIDE DEF colon
<1>4. CASE colon.ok
  <2>1. NoZero(part.rest)
    BY <1>1, NoZeroBehind
  <2>2. NoZero(colon.rest)
    BY <1>0, <1>3, <1>4, <2>1, NoZeroBehind
  <2>3. Part(<<>>, <<part.got>>, sign) = part.got \o sign
    BY <1>1, NoText DEF Part
  <2>4. (part.got \o sign) \o colon.rest = part.got \o (sign \o colon.rest)
    <3>1. part.got \in Texts /\ colon.rest \in Texts
      BY <1>1, <1>3
    <3>2. Joined(part.got, sign, colon.rest) = part.got \o (sign \o colon.rest)
      BY <1>0, <3>1, Regroup
    <3> QED
      BY <3>2 DEF Joined
  <2>5. part.got \o sign \in Texts
    BY <1>0, <1>1, FirstOf
  <2> QED
    BY <1>1, <1>2, <1>3, <1>4, <2>2, <2>3, <2>4, <2>5 DEF part, colon, sign
<1>5. CASE ~colon.ok
  <2>1. Part(<<>>, <<>>, sign) = <<>>
    BY DEF Part
  <2> QED
    BY <1>2, <1>5, <2>1, NoText DEF part, colon, sign
<1> QED
  BY <1>3, <1>4, <1>5

LEMMA AuthorityIs ==
    ASSUME NEW text \in Texts, NoZero(text)
    PROVE  LET slashes == Accept(text, <<"/", "/">>)
               auth    == IF slashes.ok THEN CSpan(slashes.rest, {"/"}) ELSE Split(slashes.rest, 0)
               written == Part(<<"/", "/">>, IF slashes.ok THEN <<auth.got>> ELSE <<>>, <<>>)
           IN  /\ auth.rest \in Texts /\ NoZero(auth.rest) /\ written \in Texts
               /\ written \o auth.rest = text
<1> DEFINE two == <<"/", "/">>
           slashes == Accept(text, two)
           auth    == IF slashes.ok THEN CSpan(slashes.rest, {"/"}) ELSE Split(slashes.rest, 0)
<1>1. two \in Texts
  BY Marks
<1> HIDE DEF two
<1>2. /\ slashes.ok \in BOOLEAN /\ slashes.rest \in Texts
      /\ slashes.ok => two \o slashes.rest = text
      /\ ~slashes.ok => slashes.rest = text
  BY <1>1, AcceptIs
<1> HIDE DEF slashes
<1>3. CASE slashes.ok
  <2>1. auth = CSpan(slashes.rest, {"/"})
    BY <1>3
  <2> HIDE DEF auth
  <2>2. auth.got \in Texts /\ auth.rest \in Texts /\ auth.got \o auth.rest = slashes.rest
    BY <1>2, <2>1, CSpanIs
  <2>3. NoZero(slashes.rest)
    BY <1>1, <1>2, <1>3, NoZeroBehind
  <2>4. NoZero(auth.rest)
    BY <2>2, <2>3, NoZeroBehind
  <2>5. Part(two, <<auth.got>>, <<>>) = two \o auth.got
    BY <1>1, <2>2, FirstOf, NoText, PartIs
  <2>6. (two \o auth.got) \o auth.rest = two \o (auth.got \o auth.rest)
    <3>1. Joined(two, auth.got, auth.rest) = two \o (auth.got \o auth.rest)
      BY <1>1, <2>2, Regroup
    <3> QED
      BY <3>1 DEF Joined
  <2>7. two \o auth.got \in Texts
    BY <1>1, <2>2, FirstOf
  <2> QED
    BY <1>2, <1>3, <2>2, <2>4, <2>5, <2>6, <2>7 DEF auth, slashes, two
<1>4. CASE ~slashes.ok
  <2>1. 0 \in 0 .. Len(text) /\ Len(text) \in Nat
    BY DEF Texts
  <2>2. auth = Cut(text, 0)
    BY <1>2, <1>4, <2>1, SplitIs
  <2> HIDE DEF auth
  <2>3. auth.got \in Texts /\ auth.rest \in Texts /\ auth.got \o auth.rest = text /\ Len(auth.got) = 0
    BY <2>1, <2>2, CutIs
  <2>4. auth.got = <<>>
    BY <2>3, EmptySeq DEF Texts
  <2>5. auth.rest = text
    BY <2>3, <2>4, NoText
  <2>6. Part(two, <<>>, <<>>) = <<>>
    BY DEF Part
  <2> QED
    BY <1>2, <1>4, <2>3, <2>5, <2>6, NoText DEF auth, slashes, two
<1> QED
  BY <1>2, <1>3, <1>4

LEMMA FragmentIs ==
    ASSUME NEW text \in Texts, text = <<>> \/ text[1] = "#"
    PROVE  LET hash == Accept(text, <<"#">>)
           IN  Part(<<"#">>, IF hash.ok THEN <<hash.rest>> ELSE <<>>, <<>>) = text
<1> DEFINE sign == <<"#">>
           hash == Accept(text, sign)
<1>1. sign \in Texts /\ (IsPrefix(sign, text) <=> text # <<>>)
  <2>1. "#" \in Chars
    BY CharsAssumption
  <2> QED
    BY <2>1, BeginsWith
<1> HIDE DEF sign
<1>2. /\ hash.ok \in BOOLEAN /\ hash.rest \in Texts /\ (hash.ok <=> text # <<>>)
      /\ hash.ok => sign \o hash.rest = text
  BY <1>1, AcceptIs
<1> HIDE DEF hash
<1>3. CASE hash.ok
  <2>1. sign \o hash.rest \in Texts
    BY <1>1, <1>2, FirstOf
  <2>2. Part(sign, <<hash.rest>>, <<>>) = sign \o hash.rest
    BY <2>1, NoText DEF Part
  <2> QED
    BY <1>2, <1>3, <2>2 DEF hash, sign
<1>4. CASE ~hash.ok
  BY <1>2, <1>4 DEF hash, sign, Part
<1> QED
  BY <1>2, <1>3, <1>4

\* Put together again, what uri_parse found is the text.
LEMMA NothingIsLost ==
    ASSUME NEW text \in Texts, NoZero(text)
    PROVE  Written(UriParse(text)) = text
<1> DEFINE part     == CSpan(text, {":", "/", "?", "#"})
           colon    == Accept(part.rest, <<":">>)
           tail     == BehindScheme(text)
           slashes  == Accept(tail, <<"/", "/">>)
           auth     == IF slashes.ok THEN CSpan(slashes.rest, {"/"}) ELSE Split(slashes.rest, 0)
           path     == CSpan(auth.rest, {"?", "#"})
           question == Accept(path.rest, <<"?">>)
           query    == IF question.ok THEN CSpan(question.rest, {"#"}) ELSE Split(path.rest, 0)
           hash     == Accept(query.rest, <<"#">>)
           scheme1  == Part(<<>>, IF colon.ok THEN <<part.got>> ELSE <<>>, <<":">>)
           auth1    == Part(<<"/", "/">>, IF slashes.ok THEN <<auth.got>> ELSE <<>>, <<>>)
           query1   == Part(<<"?">>, IF question.ok THEN <<query.got>> ELSE <<>>, <<>>)
           hash1    == Part(<<"#">>, IF hash.ok THEN <<hash.rest>> ELSE <<>>, <<>>)
           uri      == UriParse(text)
<1>1. /\ uri.scheme = IF colon.ok THEN <<part.got>> ELSE <<>>
      /\ uri.authority = IF slashes.ok THEN <<auth.got>> ELSE <<>>
      /\ uri.path = path.got
      /\ uri.query = IF question.ok THEN <<query.got>> ELSE <<>>
      /\ uri.fragment = IF hash.ok THEN <<hash.rest>> ELSE <<>>
  BY DEF UriParse
<1>2. Written(uri) = scheme1 \o auth1 \o path.got \o query1 \o hash1
  <2> HIDE DEF part, colon, tail, slashes, auth, path, question, query, hash, uri
  <2> QED
    BY <1>1 DEF Written
<1>3. tail \in Texts /\ NoZero(tail) /\ scheme1 \in Texts /\ scheme1 \o tail = text
  BY SchemeIs
<1> HIDE DEF part, colon, scheme1, tail, uri
<1>4. auth.rest \in Texts /\ NoZero(auth.rest) /\ auth1 \in Texts /\ auth1 \o auth.rest = tail
  BY <1>3, AuthorityIs
<1> HIDE DEF slashes, auth, auth1
<1>5. /\ path.got \in Texts /\ path.rest \in Texts /\ path.got \o path.rest = auth.rest
      /\ path.rest # <<>> => path.rest[1] \in {"?", "#"} \cup {NUL}
  BY <1>4, CSpanIs
<1> HIDE DEF path
<1>6. NoZero(path.rest) /\ (path.rest # <<>> => path.rest[1] \in {"?", "#"})
  BY <1>4, <1>5, NoZeroBehind
<1>7. /\ query.rest \in Texts /\ query1 \in Texts /\ query1 \o query.rest = path.rest
      /\ question.ok => query.rest = <<>> \/ query.rest[1] \in {"#"}
      /\ ~question.ok => query.rest = path.rest /\ (path.rest = <<>> \/ path.rest[1] # "?")
  <2> DEFINE t == path.rest
  <2>1. "?" \in Chars /\ t \in Texts /\ NoZero(t)
    BY <1>5, <1>6, CharsAssumption
  <2> HIDE DEF t
  <2>2. LET mark == Accept(t, <<"?">>)
            span == IF mark.ok THEN CSpan(mark.rest, {"#"}) ELSE Split(t, 0)
            written == Part(<<"?">>, IF mark.ok THEN <<span.got>> ELSE <<>>, <<>>)
        IN  /\ span.rest \in Texts /\ written \in Texts /\ written \o span.rest = t
            /\ mark.ok => span.rest = <<>> \/ span.rest[1] \in {"#"}
            /\ ~mark.ok => span.rest = t /\ (t = <<>> \/ t[1] # "?")
    BY <2>1, MarkedPart
  <2> QED
    BY <2>2 DEF t
<1> HIDE DEF question, query, query1
<1>8. query.rest = <<>> \/ query.rest[1] = "#"
  BY <1>6, <1>7
<1>9. hash1 = query.rest
  BY <1>7, <1>8, FragmentIs
<1> HIDE DEF hash, hash1
<1>11. scheme1 \o auth1 \o path.got \o query1 \o query.rest = text
  <2> DEFINE t == path.got
             p == path.rest
             q == auth.rest
             r == query.rest
  <2>1. t \in Texts /\ p \in Texts /\ q \in Texts /\ r \in Texts /\ query1 \o r = p /\ t \o p = q
    BY <1>4, <1>5, <1>7
  <2>2. scheme1 \in Texts /\ auth1 \in Texts /\ query1 \in Texts /\ auth1 \o q = tail
    BY <1>3, <1>4, <1>7
  <2> HIDE DEF t, p, q, r
  <2> DEFINE two == scheme1 \o auth1
             three == two \o t
  <2>3. two \in Texts /\ two \o q = text
    <3>1. Joined(scheme1, auth1, q) = scheme1 \o (auth1 \o q)
      <4>1. scheme1 \in Texts /\ auth1 \in Texts /\ q \in Texts
        BY <2>1, <2>2
      <4>2. \A a, b \in Texts : Joined(scheme1, a, b) = scheme1 \o (a \o b)
        BY <4>1, Regroup
      <4> QED
        BY <4>1, <4>2
    <3>2. Joined(scheme1, auth1, q) = text
      BY <1>3, <2>2, <3>1
    <3>3. two \in Texts
      BY <2>2, FirstOf
    <3> QED
      BY <3>2, <3>3 DEF Joined
  <2> HIDE DEF two
  <2>4. three \in Texts /\ three \o p = text
    <3>1. Joined(two, t, p) = two \o (t \o p)
      <4>1. two \in Texts /\ t \in Texts /\ p \in Texts
        BY <2>1, <2>3
      <4>2. \A a, b \in Texts : Joined(two, a, b) = two \o (a \o b)
        BY <4>1, Regroup
      <4> QED
        BY <4>1, <4>2
    <3>2. Joined(two, t, p) = text
      BY <2>1, <2>3, <3>1
    <3>3. three \in Texts
      BY <2>1, <2>3, FirstOf
    <3> QED
      BY <3>2, <3>3 DEF Joined
  <2> HIDE DEF three
  <2>5. (three \o query1) \o r = text
    <3>1. Joined(three, query1, r) = three \o (query1 \o r)
      <4>1. three \in Texts /\ query1 \in Texts /\ r \in Texts
        BY <2>1, <2>2, <2>4
      <4>2. \A a, b \in Texts : Joined(three, a, b) = three \o (a \o b)
        BY <4>1, Regroup
      <4> QED
        BY <4>1, <4>2
    <3>2. Joined(three, query1, r) = text
      BY <2>1, <2>4, <3>1
    <3> QED
      BY <3>2 DEF Joined
  <2> QED
    BY <2>5 DEF two, three, t, r
<1> QED
  BY <1>2, <1>9, <1>11 DEF uri

-----------------------------------------------------------------------------
(* Numbers: what the digits of a text spell *)

Radices == {10, 16}
Signs(radix) == {d[1] : d \in Digits(radix)}

LEMMA ModKeeps ==
    ASSUME NEW m \in Nat \ {0}, NEW a \in Nat
    PROVE  a % m \in 0 .. m - 1 /\ (a < m => a % m = a)
OBVIOUS

LEMMA Multiples ==
    ASSUME NEW m \in Nat \ {0}, NEW x \in Int, -m < x * m, x * m < m
    PROVE  x = 0
<1>1. ASSUME x >= 1 PROVE FALSE
  <2>1. x - 1 \in Nat
    BY <1>1
  <2>2. \A b, c \in Nat : b * c \in Nat
    OBVIOUS
  <2>3. (x - 1) * m \in Nat
    BY <2>1, <2>2
  <2>4. (x - 1) * m = x * m - m
    OBVIOUS
  <2> QED
    BY <2>3, <2>4
<1>2. ASSUME x <= -1 PROVE FALSE
  <2>1. -1 - x \in Nat
    BY <1>2
  <2>2. \A b, c \in Nat : b * c \in Nat
    OBVIOUS
  <2>3. (-1 - x) * m \in Nat
    BY <2>1, <2>2
  <2>4. (-1 - x) * m = -(x * m) - m
    OBVIOUS
  <2> QED
    BY <2>3, <2>4
<1> QED
  BY <1>1, <1>2

\* A remainder does not tell how often the modulus went into a number.
LEMMA ModOne ==
    ASSUME NEW m \in Nat \ {0}, NEW a \in Nat
    PROVE  (a + m) % m = a % m
<1> DEFINE q == a \div m
           r == a % m
           q2 == (a + m) \div m
           r2 == (a + m) % m
<1>1. q \in Nat /\ r \in 0 .. m - 1 /\ a = q * m + r
  OBVIOUS
<1>2. a + m \in Nat
  OBVIOUS
<1>3. q2 \in Nat /\ r2 \in 0 .. m - 1 /\ a + m = q2 * m + r2
  BY <1>2
<1> HIDE DEF q, r, q2, r2
<1> DEFINE x == q2 - q - 1
<1>4. x \in Int /\ x * m = r - r2
  BY <1>1, <1>3
<1> HIDE DEF x
<1>5. -m < x * m /\ x * m < m
  BY <1>1, <1>3, <1>4
<1>6. x = 0
  BY <1>4, <1>5, Multiples
<1>7. r = r2
  BY <1>1, <1>3, <1>4, <1>6
<1> QED
  BY <1>7 DEF r, r2

LEMMA ModMany ==
    ASSUME NEW m \in Nat \ {0}, NEW a \in Nat, NEW times \in Nat
    PROVE  (a + times * m) % m = a % m
<1> DEFINE S == {n \in Nat : (a + n * m) % m = a % m}
<1>1. 0 \in S
  OBVIOUS
<1>2. ASSUME NEW n \in Nat, n \in S PROVE n + 1 \in S
  <2> DEFINE b == a + n * m
  <2>1. b \in Nat /\ a + (n + 1) * m = b + m /\ b % m = a % m
    <3>1. n * m \in Nat /\ (n + 1) * m = n * m + m
      OBVIOUS
    <3> QED
      BY <1>2, <3>1
  <2> HIDE DEF b
  <2>2. (b + m) % m = b % m
    BY <2>1, ModOne
  <2> QED
    BY <2>1, <2>2
<1>3. \A n \in Nat : n \in S
  <2> HIDE DEF S
  <2> QED
    BY <1>1, <1>2, SetInduction
<1> QED
  BY <1>3

LEMMA ModStep ==
    ASSUME NEW m \in Nat \ {0}, NEW a \in Nat, NEW radix \in Nat, NEW d \in Nat
    PROVE  ((a % m) * radix + d) % m = (a * radix + d) % m
<1> DEFINE q == a \div m
           r == a % m
<1>1. q \in Nat /\ r \in Nat /\ a = q * m + r
  OBVIOUS
<1> HIDE DEF q, r
<1>2. r * radix + d \in Nat /\ q * radix \in Nat
  BY <1>1
<1>3. a * radix + d = (r * radix + d) + (q * radix) * m
  BY <1>1
<1>4. ((r * radix + d) + (q * radix) * m) % m = (r * radix + d) % m
  BY <1>2, ModMany
<1> QED
  BY <1>3, <1>4 DEF r

\* Every digit has a value.
LEMMA DigitIs ==
    ASSUME NEW radix \in Radices, NEW ch \in Signs(radix)
    PROVE  DigitOf(ch, radix) \in 0 .. radix - 1 /\ ch \in Chars
<1>1. PICK d \in Digits(radix) : d[1] = ch
  BY DEF Signs
<1> DEFINE e == CHOOSE e \in Digits(radix) : e[1] = ch
<1>2. e \in Digits(radix) /\ e[1] = ch
  BY <1>1
<1> HIDE DEF e
<1>3. \A f \in Digits(radix) : f[2] \in 0 .. radix - 1
  BY DEF Digits, Numerals, Letters, Capitals, Radices
<1>4. \A f \in Digits(radix) : f \in Digits(16)
  BY <1>3 DEF Digits, Radices
<1>5. ch \in Chars
  BY <1>2, <1>4, CharsAssumption
<1> QED
  BY <1>2, <1>3, <1>5 DEF DigitOf, e

\* The number that the digits before the m-th spell, and their remainder.
Counts(digits, radix, f) ==
    /\ f \in [0 .. Len(digits) -> Nat] /\ f[0] = 0
    /\ \A m \in 1 .. Len(digits) : f[m] = f[m - 1] * radix + DigitOf(digits[m], radix)

CountsModulo(digits, radix, modulus, f) ==
    /\ f \in [0 .. Len(digits) -> Nat] /\ f[0] = 0
    /\ \A m \in 1 .. Len(digits) : f[m] = (f[m - 1] * radix + DigitOf(digits[m], radix)) % modulus

LEMMA NumberCounts ==
    ASSUME NEW radix \in Radices, NEW digits \in Seq(Signs(radix))
    PROVE  \E f : Counts(digits, radix, f) /\ Number(digits, radix) = f[Len(digits)]
<1> DEFINE n == Len(digits)
           Loop(f) == f = [m \in 0 .. n |-> IF m = 0 THEN 0 ELSE f[m - 1] * radix + DigitOf(digits[m], radix)]
           f == CHOOSE f : Loop(f)
           step == [m \in 1 .. n |-> [v \in Nat |-> v * radix + DigitOf(digits[m], radix)]]
<1>1. n \in Nat /\ \A m \in 1 .. n : digits[m] \in Signs(radix)
  OBVIOUS
<1>2. Number(digits, radix) = f[n]
  BY DEF Number
<1> HIDE DEF n
<1>3. \A m \in 1 .. n : DigitOf(digits[m], radix) \in Nat
  BY <1>1, DigitIs DEF Radices
<1>4. \A m \in 1 .. n, v \in Nat : v * radix + DigitOf(digits[m], radix) \in Nat
  <2>1. radix \in Nat
    BY DEF Radices
  <2>2. \A v, d \in Nat : v * radix + d \in Nat
    BY <2>1
  <2> QED
    BY <1>3, <2>2
<1>5. step \in [1 .. n -> [Nat -> Nat]]
  BY <1>4
<1>6. PICK h : Builds(Nat, 0, step, n, h)
  <2> HIDE DEF step
  <2> QED
    BY <1>1, <1>5, Built
<1>7. h \in [0 .. n -> Nat] /\ h[0] = 0 /\ \A m \in 1 .. n : h[m] = h[m - 1] * radix + DigitOf(digits[m], radix)
  <2>1. h \in [0 .. n -> Nat] /\ h[0] = 0 /\ \A m \in 1 .. n : h[m] = step[m][h[m - 1]]
    BY <1>6 DEF Builds
  <2>2. \A m \in 1 .. n : m - 1 \in 0 .. n
    BY <1>1
  <2> QED
    BY <2>1, <2>2
<1>8. Loop(h)
  BY <1>7
<1>9. Loop(f)
  BY <1>8
<1> HIDE DEF f
<1>10. f[0] = 0 /\ \A m \in 1 .. n : f[m] = f[m - 1] * radix + DigitOf(digits[m], radix)
  BY <1>1, <1>9
<1>11. \A m \in 0 .. n : f[m] \in Nat
  <2>1. f[0] \in Nat
    BY <1>10
  <2>2. ASSUME NEW m \in 1 .. n, f[m - 1] \in Nat PROVE f[m] \in Nat
    <3> DEFINE v == f[m - 1]
    <3>1. v \in Nat
      BY <2>2
    <3>2. f[m] = v * radix + DigitOf(digits[m], radix)
      BY <1>10
    <3> HIDE DEF v
    <3>3. v * radix + DigitOf(digits[m], radix) \in Nat
      BY <1>4, <3>1
    <3> QED
      BY <3>2, <3>3
  <2> QED
    BY <1>1, <2>1, <2>2, StaysIn
<1>12. f \in [0 .. n -> Nat]
  BY <1>9, <1>11
<1> QED
  BY <1>2, <1>10, <1>12 DEF Counts, n

LEMMA ValueCounts ==
    ASSUME NEW radix \in Radices, NEW digits \in Seq(Signs(radix)), NEW modulus \in Nat \ {0}
    PROVE  \E f : CountsModulo(digits, radix, modulus, f) /\ Value(digits, radix, modulus) = f[Len(digits)]
<1> DEFINE n == Len(digits)
           Loop(f) == f = [m \in 0 .. n |-> IF m = 0 THEN 0 ELSE (f[m - 1] * radix + DigitOf(digits[m], radix)) % modulus]
           f == CHOOSE f : Loop(f)
           step == [m \in 1 .. n |-> [v \in Nat |-> (v * radix + DigitOf(digits[m], radix)) % modulus]]
<1>1. n \in Nat /\ \A m \in 1 .. n : digits[m] \in Signs(radix)
  OBVIOUS
<1>2. Value(digits, radix, modulus) = f[n]
  BY DEF Value
<1> HIDE DEF n
<1>3. \A m \in 1 .. n : DigitOf(digits[m], radix) \in Nat
  BY <1>1, DigitIs DEF Radices
<1>4. \A m \in 1 .. n, v \in Nat : (v * radix + DigitOf(digits[m], radix)) % modulus \in Nat
  <2>1. radix \in Nat
    BY DEF Radices
  <2>2. \A v, d \in Nat : v * radix + d \in Nat
    BY <2>1
  <2>3. \A v \in Nat : v % modulus \in Nat
    BY ModKeeps
  <2> QED
    BY <1>3, <2>2, <2>3
<1>5. step \in [1 .. n -> [Nat -> Nat]]
  BY <1>4
<1>6. PICK h : Builds(Nat, 0, step, n, h)
  <2> HIDE DEF step
  <2> QED
    BY <1>1, <1>5, Built
<1>7. /\ h \in [0 .. n -> Nat] /\ h[0] = 0
      /\ \A m \in 1 .. n : h[m] = (h[m - 1] * radix + DigitOf(digits[m], radix)) % modulus
  <2>1. h \in [0 .. n -> Nat] /\ h[0] = 0 /\ \A m \in 1 .. n : h[m] = step[m][h[m - 1]]
    BY <1>6 DEF Builds
  <2>2. \A m \in 1 .. n : m - 1 \in 0 .. n
    BY <1>1
  <2> QED
    BY <2>1, <2>2
<1>8. Loop(h)
  BY <1>7
<1>9. Loop(f)
  BY <1>8
<1> HIDE DEF f
<1>10. f[0] = 0 /\ \A m \in 1 .. n : f[m] = (f[m - 1] * radix + DigitOf(digits[m], radix)) % modulus
  BY <1>1, <1>9
<1>11. \A m \in 0 .. n : f[m] \in Nat
  <2>1. f[0] \in Nat
    BY <1>10
  <2>2. ASSUME NEW m \in 1 .. n, f[m - 1] \in Nat PROVE f[m] \in Nat
    <3> DEFINE v == f[m - 1]
    <3>1. v \in Nat
      BY <2>2
    <3>2. f[m] = (v * radix + DigitOf(digits[m], radix)) % modulus
      BY <1>10
    <3> HIDE DEF v
    <3>3. (v * radix + DigitOf(digits[m], radix)) % modulus \in Nat
      BY <1>4, <3>1
    <3> QED
      BY <3>2, <3>3
  <2> QED
    BY <1>1, <2>1, <2>2, StaysIn
<1>12. f \in [0 .. n -> Nat]
  BY <1>9, <1>11
<1> QED
  BY <1>2, <1>10, <1>12 DEF CountsModulo, n

\* The value that is read is the number that is spelled, as far as the modulus lets it be.
LEMMA ValueIs ==
    ASSUME NEW radix \in Radices, NEW digits \in Seq(Signs(radix)), NEW modulus \in Nat \ {0}
    PROVE  Number(digits, radix) \in Nat /\ Value(digits, radix, modulus) = Number(digits, radix) % modulus
<1>1. PICK f : Counts(digits, radix, f) /\ Number(digits, radix) = f[Len(digits)]
  BY NumberCounts
<1>2. PICK g : CountsModulo(digits, radix, modulus, g) /\ Value(digits, radix, modulus) = g[Len(digits)]
  BY ValueCounts
<1> DEFINE n == Len(digits)
           S == {m \in Nat : m <= n => g[m] = f[m] % modulus}
<1>3. n \in Nat
  OBVIOUS
<1>4. 0 \in S
  BY <1>1, <1>2, ModKeeps DEF Counts, CountsModulo
<1>5. ASSUME NEW m \in Nat, m \in S PROVE m + 1 \in S
  <2> SUFFICES ASSUME m + 1 <= n PROVE g[m + 1] = f[m + 1] % modulus
    OBVIOUS
  <2>1. m + 1 \in 1 .. n /\ (m + 1) - 1 = m /\ m \in 0 .. n /\ g[m] = f[m] % modulus
    BY <1>3, <1>5
  <2> DEFINE d == DigitOf(digits[m + 1], radix)
  <2>2. d \in Nat /\ radix \in Nat
    <3>1. digits[m + 1] \in Signs(radix)
      BY <2>1
    <3> QED
      BY <3>1, DigitIs DEF Radices
  <2>3. f[m] \in Nat /\ f[m + 1] = f[m] * radix + d /\ g[m + 1] = (g[m] * radix + d) % modulus
    BY <1>1, <1>2, <2>1 DEF Counts, CountsModulo
  <2> HIDE DEF d
  <2> DEFINE x == f[m]
  <2>4. x \in Nat /\ f[m + 1] = x * radix + d /\ g[m + 1] = ((x % modulus) * radix + d) % modulus
    BY <2>1, <2>3
  <2> HIDE DEF x
  <2>5. ((x % modulus) * radix + d) % modulus = (x * radix + d) % modulus
    <3> HIDE DEF S, n
    <3>1. x \in Nat /\ d \in Nat /\ radix \in Nat /\ modulus \in Nat \ {0}
      BY <2>2, <2>4
    <3> QED
      BY <3>1, ModStep, ZenonT(30)
  <2> QED
    BY <2>4, <2>5
<1>6. \A m \in Nat : m \in S
  <2> HIDE DEF S
  <2> QED
    BY <1>4, <1>5, SetInduction
<1>7. f[n] \in Nat
  BY <1>1, <1>3 DEF Counts
<1> QED
  BY <1>1, <1>2, <1>3, <1>6, <1>7

LEMMA TenToIs ==
    ASSUME NEW n \in Nat
    PROVE  \E f : /\ f \in [0 .. n -> Nat] /\ f[0] = 1 /\ (\A m \in 1 .. n : f[m] = 10 * f[m - 1])
                  /\ TenTo(n) = f[n]
<1> DEFINE Loop(f) == f = [m \in 0 .. n |-> IF m = 0 THEN 1 ELSE 10 * f[m - 1]]
           f == CHOOSE f : Loop(f)
           step == [m \in 1 .. n |-> [v \in Nat |-> 10 * v]]
<1>1. TenTo(n) = f[n]
  BY DEF TenTo
<1>2. PICK h : Builds(Nat, 1, step, n, h)
  <2>1. step \in [1 .. n -> [Nat -> Nat]]
    OBVIOUS
  <2> HIDE DEF step
  <2> QED
    BY <2>1, Built
<1>3. h \in [0 .. n -> Nat] /\ h[0] = 1 /\ \A m \in 1 .. n : h[m] = 10 * h[m - 1]
  <2>1. h \in [0 .. n -> Nat] /\ h[0] = 1 /\ \A m \in 1 .. n : h[m] = step[m][h[m - 1]]
    BY <1>2 DEF Builds
  <2>2. \A m \in 1 .. n : m - 1 \in 0 .. n
    OBVIOUS
  <2> QED
    BY <2>1, <2>2
<1>4. Loop(h)
  BY <1>3
<1>5. Loop(f)
  BY <1>4
<1> HIDE DEF f
<1>6. f[0] = 1 /\ \A m \in 1 .. n : f[m] = 10 * f[m - 1]
  BY <1>5
<1>7. \A m \in 0 .. n : f[m] \in Nat
  <2>1. f[0] \in Nat /\ \A m \in 1 .. n : f[m - 1] \in Nat => f[m] \in Nat
    BY <1>6
  <2> QED
    BY <2>1, StaysIn
<1>8. f \in [0 .. n -> Nat]
  BY <1>5, <1>7
<1> QED
  BY <1>1, <1>6, <1>8

\* Digits behind others move these to the left.
LEMMA NumberBehind ==
    ASSUME NEW a \in Seq(Signs(10)), NEW b \in Seq(Signs(10))
    PROVE  Number(a \o b, 10) = Number(a, 10) * TenTo(Len(b)) + Number(b, 10)
<1> DEFINE ab == a \o b
           la == Len(a)
           lb == Len(b)
<1>0. 10 \in Radices
  BY DEF Radices
<1>1. /\ ab \in Seq(Signs(10)) /\ la \in Nat /\ lb \in Nat /\ Len(ab) = la + lb
      /\ \A m \in 1 .. la + lb : ab[m] = IF m <= la THEN a[m] ELSE b[m - la]
  BY ConcatProperties
<1>2. PICK f : Counts(a, 10, f) /\ Number(a, 10) = f[la]
  BY <1>0, NumberCounts
<1>3. PICK g : Counts(b, 10, g) /\ Number(b, 10) = g[lb]
  BY <1>0, NumberCounts
<1>4. PICK p : /\ p \in [0 .. lb -> Nat] /\ p[0] = 1 /\ (\A m \in 1 .. lb : p[m] = 10 * p[m - 1])
               /\ TenTo(lb) = p[lb]
  BY <1>1, TenToIs
<1> HIDE DEF ab
<1>5. PICK h : Counts(ab, 10, h) /\ Number(ab, 10) = h[Len(ab)]
  BY <1>0, <1>1, NumberCounts
<1>6. f \in [0 .. la -> Nat] /\ f[0] = 0 /\ \A m \in 1 .. la : f[m] = f[m - 1] * 10 + DigitOf(a[m], 10)
  BY <1>2 DEF Counts
<1>7. g \in [0 .. lb -> Nat] /\ g[0] = 0 /\ \A m \in 1 .. lb : g[m] = g[m - 1] * 10 + DigitOf(b[m], 10)
  BY <1>3 DEF Counts
<1>8. h \in [0 .. la + lb -> Nat] /\ h[0] = 0 /\ \A m \in 1 .. la + lb : h[m] = h[m - 1] * 10 + DigitOf(ab[m], 10)
  BY <1>1, <1>5 DEF Counts
<1> HIDE DEF la, lb
<1>9. \A m \in Nat : m <= la => h[m] = f[m]
  <2> DEFINE S == {m \in Nat : m <= la => h[m] = f[m]}
  <2>1. 0 \in S
    BY <1>6, <1>8
  <2>2. ASSUME NEW m \in Nat, m \in S PROVE m + 1 \in S
    <3> SUFFICES ASSUME m + 1 <= la PROVE h[m + 1] = f[m + 1]
      OBVIOUS
    <3>0. m + 1 \in 1 .. la /\ m + 1 \in 1 .. la + lb /\ (m + 1) - 1 = m /\ m <= la /\ m + 1 <= la
      <4>1. la \in Nat /\ lb \in Nat
        BY <1>1
      <4> QED
        BY <4>1
    <3>1. (m + 1) - 1 = m /\ h[m] = f[m] /\ ab[m + 1] = a[m + 1]
      BY <1>1, <2>2, <3>0
    <3>2. f[m + 1] = f[m] * 10 + DigitOf(a[m + 1], 10) /\ h[m + 1] = h[m] * 10 + DigitOf(ab[m + 1], 10)
      BY <1>6, <1>8, <3>0, <3>1
    <3> QED
      BY <3>1, <3>2
  <2>3. \A m \in Nat : m \in S
    <3> HIDE DEF S
    <3> QED
      BY <2>1, <2>2, SetInduction
  <2> QED
    BY <2>3
<1> DEFINE n == f[la]
<1>10. n \in Nat /\ h[la] = n
  BY <1>1, <1>6, <1>9
<1> HIDE DEF n
<1>11. \A m \in Nat : m <= lb => h[la + m] = n * p[m] + g[m]
  <2> DEFINE S == {m \in Nat : m <= lb => h[la + m] = n * p[m] + g[m]}
  <2>1. 0 \in S
    <3>1. la + 0 = la /\ n * 1 + 0 = n
      BY <1>1, <1>10
    <3> QED
      BY <1>4, <1>7, <1>10, <3>1
  <2>2. ASSUME NEW m \in Nat, m \in S PROVE m + 1 \in S
    <3> SUFFICES ASSUME m + 1 <= lb PROVE h[la + (m + 1)] = n * p[m + 1] + g[m + 1]
      OBVIOUS
    <3> DEFINE x == p[m]
               y == g[m]
               z == h[la + m]
               d == DigitOf(b[m + 1], 10)
    <3>1. /\ m + 1 \in 1 .. lb /\ m \in 0 .. lb /\ (m + 1) - 1 = m
          /\ la + (m + 1) \in 1 .. la + lb /\ (la + (m + 1)) - 1 = la + m /\ (la + (m + 1)) - la = m + 1
          /\ ~(la + (m + 1) <= la)
      BY <1>1
    <3>2. ab[la + (m + 1)] = b[m + 1]
      BY <1>1, <3>1
    <3>3. b[m + 1] \in Signs(10)
      BY <3>1 DEF lb
    <3>4. x \in Nat /\ y \in Nat /\ z = n * x + y /\ d \in Nat
      <4>1. d \in Nat
        BY <1>0, <3>3, DigitIs
      <4>2. z = n * x + y
        BY <2>2, <3>1
      <4> QED
        BY <1>4, <1>7, <3>1, <4>1, <4>2
    <3>5. p[m + 1] = 10 * x /\ g[m + 1] = y * 10 + d /\ h[la + (m + 1)] = z * 10 + d
      BY <1>4, <1>7, <1>8, <3>1, <3>2
    <3> HIDE DEF x, y, z, d
    <3>6. (n * x + y) * 10 + d = n * (10 * x) + (y * 10 + d)
      BY <1>10, <3>4
    <3> QED
      BY <3>4, <3>5, <3>6
  <2>3. \A m \in Nat : m \in S
    <3> HIDE DEF S
    <3> QED
      BY <2>1, <2>2, SetInduction
  <2> QED
    BY <2>3
<1>12. h[la + lb] = n * p[lb] + g[lb]
  BY <1>1, <1>11
<1> QED
  BY <1>1, <1>2, <1>3, <1>4, <1>5, <1>12 DEF ab, la, lb, n

-----------------------------------------------------------------------------
(* Numbers: what is read of a text *)

LEMMA CutOf ==
    ASSUME NEW a \in Texts, NEW b \in Texts
    PROVE  Len(a) \in 0 .. Len(a \o b) /\ Cut(a \o b, Len(a)).got = a /\ Cut(a \o b, Len(a)).rest = b
<1> DEFINE text == a \o b
           la == Len(a)
           lb == Len(b)
           got == Cut(text, la).got
           rest == Cut(text, la).rest
<1>1. /\ text \in Texts /\ Len(text) = la + lb /\ la \in Nat /\ lb \in Nat
      /\ \A m \in 1 .. la : text[m] = a[m]
  BY FirstOf DEF Texts
<1> HIDE DEF text
<1>2. la \in 0 .. Len(text)
  BY <1>1
<1>3. /\ got \in Texts /\ rest \in Texts /\ got \o rest = text /\ Len(got) = la
      /\ \A m \in 1 .. la : got[m] = text[m]
  <2> HIDE DEF la
  <2> QED
    BY <1>1, <1>2, CutIs
<1> HIDE DEF got, rest
<1>4. got = a
  <2>1. \A m \in 1 .. la : got[m] = a[m]
    BY <1>1, <1>3
  <2> QED
    BY <1>3, <2>1, SeqEqual DEF Texts
<1>5. rest = b
  <2>1. a \o rest = a \o b
    BY <1>3, <1>4 DEF text
  <2> QED
    BY <1>3, <2>1, Cancel
<1> QED
  BY <1>2, <1>4, <1>5 DEF got, rest, text

LEMMA LeadingOf ==
    ASSUME NEW a \in Texts, NEW b \in Texts, NEW set, \A m \in 1 .. Len(a) : a[m] \in set, b # <<>> => b[1] \notin set
    PROVE  Leading(a \o b, set) = Len(a)
<1> DEFINE text == a \o b
           la == Len(a)
           lb == Len(b)
           n == Leading(text, set)
<1>1. /\ text \in Texts /\ Len(text) = la + lb /\ la \in Nat /\ lb \in Nat
      /\ (\A m \in 1 .. la : text[m] = a[m]) /\ (\A m \in 1 .. lb : text[la + m] = b[m])
  BY FirstOf DEF Texts
<1> HIDE DEF text
<1>2. n \in 0 .. la + lb /\ (\A m \in 1 .. n : text[m] \in set) /\ (n < la + lb => text[n + 1] \notin set)
  BY <1>1, LeadingIs
<1>3. \A m \in 1 .. la : a[m] \in set
  OBVIOUS
<1>4. lb # 0 => b[1] \notin set
  <2>1. lb # 0 => b # <<>>
    OBVIOUS
  <2> QED
    BY <2>1
<1> HIDE DEF n, la, lb
<1>5. ASSUME n < la PROVE FALSE
  <2>1. n + 1 \in 1 .. la /\ n < la + lb
    BY <1>1, <1>2, <1>5
  <2> QED
    BY <1>1, <1>2, <1>3, <2>1
<1>6. ASSUME la < n PROVE FALSE
  <2>1. la + 1 \in 1 .. n /\ 1 \in 1 .. lb /\ lb # 0
    BY <1>1, <1>2, <1>6
  <2>2. text[la + 1] \in set /\ text[la + 1] = b[1]
    BY <1>1, <1>2, <2>1
  <2> QED
    BY <1>4, <2>1, <2>2
<1>7. n = la
  BY <1>1, <1>2, <1>5, <1>6
<1> QED
  BY <1>7 DEF n, la, text

LEMMA DigitsAreTexts == ASSUME NEW radix \in Radices, NEW a \in Seq(Signs(radix)) PROVE a \in Texts
<1>1. Signs(radix) \subseteq Chars
  BY DigitIs
<1> QED
  BY <1>1 DEF Texts

\* No digit follows.
NoDigit(rest, radix) == rest # <<>> => rest[1] \notin Signs(radix)

\* The digits a text begins with are read as the number they spell, modulo 2^64.
LEMMA ReadUIs ==
    ASSUME NEW radix \in Radices, NEW a \in Seq(Signs(radix)), NEW b \in Texts, NoDigit(b, radix), NEW max
    PROVE  LET v == Number(a, radix) % U64
           IN  ReadU(a \o b, radix, max) = [ok |-> a # <<>> /\ v <= max, value |-> v, rest |-> b]
<1> DEFINE text == a \o b
<1>1. a \in Texts
  BY DigitsAreTexts
<1>2. \A m \in 1 .. Len(a) : a[m] \in Signs(radix)
  OBVIOUS
<1>3. Leading(text, Signs(radix)) = Len(a)
  BY <1>1, <1>2, LeadingOf DEF NoDigit
<1>4. Cut(text, Len(a)).got = a /\ Cut(text, Len(a)).rest = b
  BY <1>1, CutOf
<1>5. Value(a, radix, U64) = Number(a, radix) % U64
  BY ValueIs, StrAssumption
<1> HIDE DEF text
<1>6. ReadU(text, radix, max) =
        LET digits == Cut(text, Len(a)) value == Value(digits.got, radix, U64)
        IN  [ok |-> digits.got # <<>> /\ value <= max, value |-> value, rest |-> digits.rest]
  BY <1>3 DEF ReadU, Signs
<1> QED
  BY <1>4, <1>5, <1>6 DEF text

LEMMA AcceptNot ==
    ASSUME NEW text \in Texts, NEW ch \in Chars, text # <<>> => text[1] # ch
    PROVE  Accept(text, <<ch>>).ok = FALSE /\ Accept(text, <<ch>>).rest = text
<1>1. <<ch>> \in Texts /\ ~IsPrefix(<<ch>>, text)
  BY BeginsWith
<1> QED
  BY <1>1, AcceptIs

LEMMA AcceptOne ==
    ASSUME NEW b \in Texts, NEW ch \in Chars
    PROVE  /\ <<ch>> \o b \in Texts
           /\ Accept(<<ch>> \o b, <<ch>>).ok = TRUE /\ Accept(<<ch>> \o b, <<ch>>).rest = b
           /\ (<<ch>> \o b)[1] = ch /\ <<ch>> \o b # <<>>
<1>1. <<ch>> \in Texts
  BY OneIsSeq DEF Texts
<1>2. <<ch>> \o b \in Texts /\ IsPrefix(<<ch>>, <<ch>> \o b)
  BY <1>1, FirstOf, PrefixOf
<1>3. Accept(<<ch>> \o b, <<ch>>).ok = TRUE
  BY <1>1, <1>2, AcceptIs
<1>4. Accept(<<ch>> \o b, <<ch>>).rest = b
  BY <1>1, AcceptOf
<1> QED
  BY <1>2, <1>3, <1>4, BeginsWith

\* No digit is a sign.
LEMMA NoSign == ASSUME NEW radix \in Radices PROVE {"-", "+", ".", "@", "[", "]", ":", "/"} \cap Signs(radix) = {}
BY DEF Signs, Digits, Numerals, Letters, Capitals, Radices

\* A number is a sign, if any, and digits.
LEMMA NumberParts ==
    ASSUME NEW radix \in Radices, NEW t \in Texts, IsNumber(t, radix)
    PROVE  LET mag == Magnitude(t)
           IN  /\ mag \in Seq(Signs(radix)) /\ mag \in Texts
               /\ \/ t = <<"-">> \o mag /\ t # <<>> /\ Head(t) = "-"
                  \/ t = <<"+">> \o mag /\ t # <<>> /\ Head(t) = "+"
                  \/ t = mag /\ (t # <<>> => Head(t) \notin {"-", "+"})
<1> DEFINE mag == Magnitude(t)
<1>1. mag \in Seq(Signs(radix))
  BY DEF IsNumber, Signs
<1>2. mag \in Texts
  <2> HIDE DEF mag
  <2> QED
    BY <1>1, DigitsAreTexts
<1>3. CASE t # <<>> /\ Head(t) \in {"-", "+"}
  <2>1. mag = Tail(t)
    BY <1>3 DEF Magnitude
  <2>2. t = <<Head(t)>> \o Tail(t)
    BY <1>3 DEF Texts
  <2>3. t = <<Head(t)>> \o mag
    BY <2>1, <2>2
  <2> HIDE DEF mag
  <2> QED
    BY <1>1, <1>2, <1>3, <2>3 DEF mag
<1>4. CASE ~(t # <<>> /\ Head(t) \in {"-", "+"})
  <2>1. mag = t
    BY <1>4 DEF Magnitude
  <2> HIDE DEF mag
  <2> QED
    BY <1>1, <1>2, <1>4, <2>1 DEF mag
<1> QED
  BY <1>3, <1>4

LEMMA SignedIs ==
    ASSUME NEW v \in Int, v \in Signed64
    PROVE  /\ v >= 0 => Signed(v % U64, U64) = v
           /\ v <= 0 => Signed((U64 - ((-v) % U64)) % U64, U64) = v
<1> DEFINE h == U64 \div 2
<1>1. U64 \in Nat \ {0} /\ h \in Nat /\ U64 = 2 * h /\ v >= -h /\ v <= h - 1
  BY StrAssumption DEF Signed64
<1>2. ASSUME v >= 0 PROVE Signed(v % U64, U64) = v
  <2>1. v \in Nat /\ v < U64
    BY <1>1, <1>2
  <2>2. v % U64 = v
    BY <1>1, <2>1, ModKeeps
  <2> QED
    BY <1>1, <2>2 DEF Signed
<1>3. ASSUME v <= 0 PROVE Signed((U64 - ((-v) % U64)) % U64, U64) = v
  <2>1. -v \in Nat /\ -v < U64
    BY <1>1, <1>3
  <2>2. (-v) % U64 = -v
    BY <1>1, <2>1, ModKeeps
  <2>3. CASE v = 0
    <3>1. U64 % U64 = 0 /\ 0 < h
      BY <1>1
    <3>2. U64 - ((-v) % U64) = U64
      <4>1. (-v) % U64 = 0
        BY <2>2, <2>3
      <4>2. U64 - 0 = U64
        BY <1>1
      <4> QED
        BY <4>1, <4>2
    <3> QED
      BY <1>1, <2>3, <3>1, <3>2 DEF Signed
  <2>4. CASE v # 0
    <3>1. U64 - ((-v) % U64) = U64 + v /\ U64 + v \in Nat /\ U64 + v < U64 /\ ~(U64 + v < h)
      BY <1>1, <1>3, <2>2, <2>4
    <3>2. (U64 + v) % U64 = U64 + v
      BY <1>1, <3>1, ModKeeps
    <3> QED
      BY <1>1, <3>1, <3>2 DEF Signed
  <2> QED
    BY <2>3, <2>4
<1> QED
  BY <1>2, <1>3

\* A number is read with its sign, whatever follows that is no digit.
LEMMA ReadIIs ==
    ASSUME NEW radix \in Radices, NEW t \in Texts, IsNumber(t, radix), NEW b \in Texts, NoDigit(b, radix),
           t # <<>> \/ b = <<>>, NEW max, Spelled(t, radix) \in Signed64
    PROVE  LET v == Spelled(t, radix)
           IN  /\ v \in Int
               /\ ReadI(t \o b, radix, max) =
                    [ok |-> Magnitude(t) # <<>> /\ v \in -max - 1 .. max, value |-> v, rest |-> b]
<1> DEFINE mag == Magnitude(t)
           text == t \o b
           n == Number(mag, radix)
           v == Spelled(t, radix)
           minus == Accept(text, <<"-">>)
           plus == Accept(text, <<"+">>)
           start == IF minus.ok THEN minus.rest ELSE plus.rest
           read == ReadU(start, radix, U64 - 1)
           negative == t # <<>> /\ Head(t) = "-"
<1>1. /\ mag \in Seq(Signs(radix)) /\ mag \in Texts
      /\ \/ t = <<"-">> \o mag /\ t # <<>> /\ Head(t) = "-"
         \/ t = <<"+">> \o mag /\ t # <<>> /\ Head(t) = "+"
         \/ t = mag /\ (t # <<>> => Head(t) \notin {"-", "+"})
  BY NumberParts
<1>2. v = IF negative THEN -n ELSE n
  BY DEF Spelled
<1>3. ReadI(text, radix, max) =
        LET value == Signed(IF minus.ok THEN (U64 - read.value) % U64 ELSE read.value, U64)
        IN  [ok |-> read.ok /\ value \in -max - 1 .. max, value |-> value, rest |-> read.rest]
  BY DEF ReadI
<1>4. "-" \in Chars /\ "+" \in Chars
  BY CharsAssumption
<1>5. mag \o b \in Texts
  <2> HIDE DEF mag
  <2> QED
    BY <1>1, FirstOf
<1>6. minus.ok = negative /\ start = mag \o b
  <2>1. CASE t = <<"-">> \o mag /\ t # <<>> /\ Head(t) = "-"
    <3> HIDE DEF mag
    <3>1. text = <<"-">> \o (mag \o b)
      <4>1. <<"-">> \in Texts
        BY <1>4, OneIsSeq DEF Texts
      <4>2. Joined(<<"-">>, mag, b) = <<"-">> \o (mag \o b)
        BY <1>1, <4>1, Regroup
      <4>3. Joined(<<"-">>, mag, b) = t \o b
        BY <2>1 DEF Joined
      <4> QED
        BY <4>2, <4>3
    <3> DEFINE x == mag \o b
    <3> HIDE DEF text, x
    <3>2. minus.ok = TRUE /\ minus.rest = x
      BY <1>4, <1>5, <3>1, AcceptOne DEF x
    <3> QED
      BY <2>1, <3>2 DEF x
  <2>2. CASE t = <<"+">> \o mag /\ t # <<>> /\ Head(t) = "+"
    <3> HIDE DEF mag
    <3>1. text = <<"+">> \o (mag \o b)
      <4>1. <<"+">> \in Texts
        BY <1>4, OneIsSeq DEF Texts
      <4>2. Joined(<<"+">>, mag, b) = <<"+">> \o (mag \o b)
        BY <1>1, <4>1, Regroup
      <4>3. Joined(<<"+">>, mag, b) = t \o b
        BY <2>2 DEF Joined
      <4> QED
        BY <4>2, <4>3
    <3> DEFINE x == mag \o b
    <3> HIDE DEF text, x
    <3>2. plus.ok = TRUE /\ plus.rest = x /\ text \in Texts /\ text[1] = "+" /\ text # <<>>
      BY <1>4, <1>5, <3>1, AcceptOne DEF x
    <3>3. minus.ok = FALSE
      BY <1>4, <3>2, AcceptNot
    <3> QED
      BY <2>2, <3>2, <3>3 DEF x
  <2>3. CASE t = mag /\ (t # <<>> => Head(t) \notin {"-", "+"})
    <3>1. text \in Texts
      BY FirstOf
    <3>2. text # <<>> => text[1] \notin {"-", "+"}
      <4>1. CASE t = <<>>
        <5>1. text = <<>>
          BY <4>1, NoText
        <5> QED
          BY <5>1
      <4>2. CASE t # <<>>
        <5>1. text[1] = t[1]
          <6>1. Len(t) # 0 /\ Len(t) \in Nat
            BY <4>2, EmptySeq DEF Texts
          <6>2. 1 \in 1 .. Len(t)
            BY <6>1
          <6> QED
            BY <6>2, FirstOf
        <5> QED
          BY <2>3, <4>2, <5>1
      <4> QED
        BY <4>1, <4>2
    <3> HIDE DEF text, mag
    <3>3. minus.ok = FALSE /\ plus.ok = FALSE /\ plus.rest = text
      BY <1>4, <3>1, <3>2, AcceptNot
    <3> QED
      BY <2>3, <3>3 DEF text
  <2> QED
    BY <1>1, <2>1, <2>2, <2>3
<1> HIDE DEF mag, text, minus, plus, start
<1>7. n \in Nat
  BY <1>1, ValueIs
<1>8. read = [ok |-> mag # <<>> /\ (n % U64) <= U64 - 1, value |-> n % U64, rest |-> b]
  BY <1>1, <1>6, ReadUIs
<1> HIDE DEF read, n, v
<1>9. n % U64 \in 0 .. U64 - 1
  BY <1>7, StrAssumption, ModKeeps
<1>10. read.ok = (mag # <<>>) /\ read.value = n % U64 /\ read.rest = b
  <2>1. (n % U64) <= U64 - 1
    BY <1>9, StrAssumption
  <2> QED
    BY <1>8, <2>1
<1>11. v \in Int /\ v \in Signed64 /\ (negative => v = -n /\ v <= 0 /\ n = -v) /\ (~negative => v = n /\ v >= 0)
  <2>1. v \in Signed64
    BY DEF v
  <2> HIDE DEF negative
  <2> QED
    BY <1>2, <1>7, <2>1
<1>12. Signed(IF negative THEN (U64 - (n % U64)) % U64 ELSE n % U64, U64) = v
  <2> HIDE DEF negative
  <2>1. CASE negative
    <3>1. Signed((U64 - ((-v) % U64)) % U64, U64) = v
      BY <1>11, <2>1, SignedIs
    <3> QED
      BY <1>11, <2>1, <3>1
  <2>2. CASE ~negative
    <3>1. Signed(v % U64, U64) = v
      BY <1>11, <2>2, SignedIs
    <3> QED
      BY <1>11, <2>2, <3>1
  <2> QED
    BY <2>1, <2>2
<1>13. ReadI(text, radix, max) = [ok |-> mag # <<>> /\ v \in -max - 1 .. max, value |-> v, rest |-> b]
  <2> HIDE DEF negative
  <2> DEFINE value == Signed(IF minus.ok THEN (U64 - read.value) % U64 ELSE read.value, U64)
  <2>1. value = v
    BY <1>6, <1>10, <1>12
  <2>2. ReadI(text, radix, max) = [ok |-> read.ok /\ value \in -max - 1 .. max, value |-> value, rest |-> read.rest]
    BY <1>3
  <2> HIDE DEF value
  <2> QED
    BY <1>10, <2>1, <2>2
<1> QED
  BY <1>11, <1>13 DEF v, text, mag

-----------------------------------------------------------------------------
(* Numbers, decimals and addresses *)

\* What NumberIsRead says of a call of each kind.
IntegerIsRead(text, radix, signed, found) ==
    LET v     == Spelled(text, radix)
        range == IF signed THEN -128 .. 127 ELSE 0 .. 255
    IN  (IF signed THEN v \in Signed64 ELSE v \in Unsigned64 /\ Magnitude(text) = text) =>
            /\ found.ok <=> v \in range /\ Magnitude(text) # <<>>
            /\ found.ok => found.value = v

LEMMA IntegersAreRead ==
    ASSUME NEW text \in Texts, NEW radix \in Radices, NEW signed \in BOOLEAN, IsNumber(text, radix)
    PROVE  IntegerIsRead(text, radix, signed, IF signed THEN ReadI(text, radix, 127) ELSE ReadU(text, radix, 255))
<1>1. text \o <<>> = text /\ <<>> \in Texts /\ NoDigit(<<>>, radix)
  BY NoText DEF NoDigit
<1>2. CASE signed
  <2> DEFINE v == Spelled(text, radix)
             mag == Magnitude(text)
  <2> SUFFICES ASSUME v \in Signed64
               PROVE  LET found == ReadI(text, radix, 127)
                      IN  (found.ok <=> v \in -128 .. 127 /\ mag # <<>>) /\ (found.ok => found.value = v)
    BY <1>2 DEF IntegerIsRead
  <2>1. ReadI(text \o <<>>, radix, 127) =
          [ok |-> mag # <<>> /\ v \in -127 - 1 .. 127, value |-> v, rest |-> <<>>]
    BY <1>1, ReadIIs
  <2>2. ReadI(text, radix, 127) = [ok |-> mag # <<>> /\ v \in -128 .. 127, value |-> v, rest |-> <<>>]
    <3> HIDE DEF v, mag
    <3>1. -127 - 1 = -128
      OBVIOUS
    <3> QED
      BY <1>1, <2>1, <3>1
  <2> HIDE DEF v, mag
  <2> DEFINE found == ReadI(text, radix, 127)
             good == mag # <<>> /\ v \in -128 .. 127
  <2>3. found = [ok |-> good, value |-> v, rest |-> <<>>] /\ (good <=> v \in -128 .. 127 /\ mag # <<>>)
    BY <2>2
  <2> HIDE DEF found, good
  <2>4. (found.ok <=> v \in -128 .. 127 /\ mag # <<>>) /\ (found.ok => found.value = v)
    BY <2>3
  <2> QED
    BY <2>4 DEF found
<1>3. CASE ~signed
  <2> DEFINE v == Spelled(text, radix)
             n == Number(text, radix)
  <2> SUFFICES ASSUME v \in Unsigned64, Magnitude(text) = text
               PROVE  LET found == ReadU(text, radix, 255)
                      IN  (found.ok <=> v \in 0 .. 255 /\ text # <<>>) /\ (found.ok => found.value = v)
    BY <1>3 DEF IntegerIsRead
  <2>1. text \in Seq(Signs(radix)) /\ (text # <<>> => Head(text) # "-")
    <3>1. text \in Seq(Signs(radix))
      BY DEF IsNumber, Signs
    <3>2. ASSUME text # <<>> PROVE Head(text) # "-"
      <4>1. Head(text) \in Signs(radix)
        BY <3>1, <3>2
      <4> QED
        BY <4>1, NoSign
    <3> QED
      BY <3>1, <3>2
  <2>2. v = n
    BY <2>1 DEF Spelled
  <2>3. n \in Nat /\ n < U64
    BY <2>2, StrAssumption DEF Unsigned64
  <2>4. ReadU(text \o <<>>, radix, 255) = [ok |-> text # <<>> /\ n % U64 <= 255, value |-> n % U64, rest |-> <<>>]
    BY <1>1, <2>1, ReadUIs
  <2> HIDE DEF n, v
  <2>5. n % U64 = n
    BY <2>3, StrAssumption, ModKeeps
  <2>6. ReadU(text, radix, 255) = [ok |-> text # <<>> /\ n <= 255, value |-> n, rest |-> <<>>]
    BY <1>1, <2>4, <2>5
  <2>7. n \in 0 .. 255 <=> n <= 255
    BY <2>3
  <2> DEFINE found == ReadU(text, radix, 255)
  <2>8. found.ok = (text # <<>> /\ n <= 255) /\ found.value = n
    BY <2>6
  <2> HIDE DEF found
  <2>9. (found.ok <=> v \in 0 .. 255 /\ text # <<>>) /\ (found.ok => found.value = v)
    BY <2>2, <2>7, <2>8
  <2> QED
    BY <2>9 DEF found
<1> QED
  BY <1>2, <1>3

\* The text behind the point, and behind the letter of the exponent.
Behind1(ch, text) == IF text = <<>> THEN <<>> ELSE <<ch>> \o text

LEMMA Behind1Is ==
    ASSUME NEW ch \in Chars, NEW text \in Texts
    PROVE  /\ Behind1(ch, text) \in Texts
           /\ text # <<>> => Behind1(ch, text)[1] = ch /\ Behind1(ch, text) # <<>> /\ Behind1(ch, text) = <<ch>> \o text
           /\ text = <<>> => Behind1(ch, text) = <<>>
BY AcceptOne, NoText DEF Behind1

LEMMA FractionIs ==
    ASSUME NEW fraction \in Seq(Signs(10)), Number(fraction, 10) \in Unsigned64, NEW behind \in Texts,
           behind # <<>> => behind[1] = "e"
    PROVE  LET text == Behind1(".", fraction) \o behind
               dot  == Accept(text, <<".">>)
               read == IF dot.ok THEN ReadU(dot.rest, 10, U64 - 1) ELSE [value |-> 0, rest |-> text]
           IN  /\ text \in Texts /\ NoDigit(text, 10)
               /\ read.value = Number(fraction, 10) /\ read.rest = behind
               /\ Len(dot.rest) - Len(read.rest) = Len(fraction)
<1> DEFINE before == Behind1(".", fraction)
           text == before \o behind
           dot  == Accept(text, <<".">>)
           read == IF dot.ok THEN ReadU(dot.rest, 10, U64 - 1) ELSE [value |-> 0, rest |-> text]
           number == Number(fraction, 10)
<1>1. /\ "." \in Chars /\ <<".">> \in Texts /\ fraction \in Texts /\ 10 \in Radices
      /\ "." \notin Signs(10) /\ "e" \notin Signs(10)
  <2>1. "." \in Chars /\ <<".">> \in Texts
    BY CharsAssumption, OneIsSeq DEF Texts
  <2>2. 10 \in Radices
    BY DEF Radices
  <2>3. fraction \in Texts
    BY <2>2, DigitsAreTexts
  <2>4. "." \notin Signs(10) /\ "e" \notin Signs(10)
    BY DEF Signs, Digits, Numerals, Letters, Capitals
  <2> QED
    BY <2>1, <2>2, <2>3, <2>4
<1>2. before \in Texts
  BY <1>1, Behind1Is
<1>3. text \in Texts
  <2> HIDE DEF before
  <2> QED
    BY <1>2, FirstOf
<1>4. number \in Nat /\ number % U64 = number
  <2>1. number \in Nat
    BY <1>1, ValueIs
  <2>2. number < U64
    BY <2>1, StrAssumption DEF Unsigned64
  <2> HIDE DEF number
  <2>3. U64 \in Nat \ {0}
    BY StrAssumption
  <2>4. number % U64 = number
    BY <2>1, <2>2, <2>3, ModKeeps
  <2> QED
    BY <2>1, <2>4
<1>5. NoDigit(behind, 10)
  BY <1>1 DEF NoDigit
<1>6. CASE fraction = <<>>
  <2>1. text = behind /\ number = 0
    <3>1. before = <<>>
      BY <1>1, <1>6, Behind1Is
    <3>2. <<>> \in Seq(Signs(10)) /\ Len(<<>>) = 0
      OBVIOUS
    <3>3. \E f : Counts(<<>>, 10, f) /\ Number(<<>>, 10) = f[Len(<<>>)]
      BY <1>1, <3>2, NumberCounts
    <3>4. Number(<<>>, 10) = 0
      BY <3>2, <3>3 DEF Counts
    <3> QED
      BY <1>6, <3>1, <3>4, NoText
  <2> HIDE DEF text, number
  <2>2. text # <<>> => text[1] # "."
    BY <2>1
  <2>3. dot.ok = FALSE /\ dot.rest = text
    BY <1>1, <1>3, <2>2, AcceptNot
  <2> HIDE DEF dot
  <2>4. read.value = 0 /\ read.rest = text
    BY <2>3
  <2> HIDE DEF read
  <2>5. Len(text) \in Nat /\ Len(<<>>) = 0
    BY <1>3 DEF Texts
  <2>6. Len(dot.rest) - Len(read.rest) = Len(fraction)
    <3> DEFINE l == Len(text)
    <3>1. Len(dot.rest) = l /\ Len(read.rest) = l /\ Len(fraction) = 0 /\ l \in Nat
      BY <1>6, <2>3, <2>4, <2>5
    <3> HIDE DEF l
    <3>2. l - l = 0
      BY <3>1
    <3> QED
      BY <3>1, <3>2
  <2>7. NoDigit(text, 10)
    BY <1>5, <2>1
  <2> QED
    BY <1>3, <2>1, <2>4, <2>6, <2>7 DEF text, number, dot, read
<1>7. CASE fraction # <<>>
  <2> DEFINE x == fraction \o behind
  <2>1. x \in Texts
    BY <1>1, FirstOf
  <2>2. text = <<".">> \o x
    <3>1. before = <<".">> \o fraction
      BY <1>1, <1>7, Behind1Is
    <3>2. Joined(<<".">>, fraction, behind) = <<".">> \o (fraction \o behind)
      BY <1>1, Regroup
    <3>3. Joined(<<".">>, fraction, behind) = before \o behind
      BY <3>1 DEF Joined
    <3> HIDE DEF before
    <3> QED
      BY <3>2, <3>3
  <2> HIDE DEF x
  <2> HIDE DEF text
  <2>3. dot.ok = TRUE /\ dot.rest = x /\ text[1] = "."
    BY <1>1, <2>1, <2>2, AcceptOne
  <2> HIDE DEF dot
  <2>4. ReadU(fraction \o behind, 10, U64 - 1) =
          [ok |-> fraction # <<>> /\ number % U64 <= U64 - 1, value |-> number % U64, rest |-> behind]
    BY <1>1, <1>5, ReadUIs
  <2>5. read.value = number % U64 /\ read.rest = behind
    <3>1. read = ReadU(fraction \o behind, 10, U64 - 1)
      BY <2>3 DEF x
    <3> HIDE DEF read
    <3> QED
      BY <2>4, <3>1
  <2> HIDE DEF read, number
  <2>6. Len(dot.rest) - Len(read.rest) = Len(fraction)
    <3> DEFINE l == Len(behind)
               lf == Len(fraction)
    <3>1. Len(dot.rest) = lf + l /\ Len(read.rest) = l /\ lf \in Nat /\ l \in Nat
      <4>1. Len(x) = lf + l
        BY <1>1, FirstOf DEF x
      <4>2. lf \in Nat /\ l \in Nat
        BY <1>1 DEF Texts
      <4> QED
        BY <2>3, <2>5, <4>1, <4>2
    <3> HIDE DEF l, lf
    <3>2. (lf + l) - l = lf
      BY <3>1
    <3> QED
      BY <3>1, <3>2 DEF lf
  <2>7. NoDigit(text, 10)
    BY <1>1, <2>3 DEF NoDigit
  <2> QED
    BY <1>3, <1>4, <2>5, <2>6, <2>7 DEF text, dot, read, number
<1> QED
  BY <1>6, <1>7

LEMMA TailBehind == ASSUME NEW ch \in Chars, NEW b \in Texts PROVE Tail(<<ch>> \o b) = b /\ Head(<<ch>> \o b) = ch
BY DEF Texts

LEMMA BeginsAndGoesOn ==
    ASSUME NEW a \in Texts, NEW b \in Texts, a # <<>>
    PROVE  Head(a \o b) = Head(a) /\ Tail(a \o b) = Tail(a) \o b
<1> DEFINE h == Head(a)
           t == Tail(a)
<1>1. a = <<h>> \o t /\ h \in Chars /\ t \in Texts
  BY DEF Texts
<1> HIDE DEF h, t
<1>2. <<h>> \in Texts
  BY <1>1, OneIsSeq DEF Texts
<1>3. Joined(<<h>>, t, b) = <<h>> \o (t \o b)
  BY <1>1, <1>2, Regroup
<1>4. a \o b = <<h>> \o (t \o b)
  BY <1>1, <1>3 DEF Joined
<1> DEFINE x == t \o b
<1>5. x \in Texts
  BY <1>1, FirstOf
<1>6. a \o b = <<h>> \o x
  BY <1>4
<1> HIDE DEF x
<1>7. Head(a \o b) = h /\ Tail(a \o b) = x
  BY <1>1, <1>5, <1>6, TailBehind
<1> QED
  BY <1>7 DEF h, t, x

DecimalIsRead(d, found) ==
    (/\ Spelled(d.whole, 10) \in Signed64 /\ Number(d.fraction, 10) \in Unsigned64
     /\ Spelled(d.exponent, 10) \in Signed64
     /\ Head(d.whole) # "-" \/ Number(d.fraction, 10) = 0) =>
        /\ found.ok /\ found.mantissa = Spelled(d.whole \o d.fraction, 10)
        /\ found.exponent = Spelled(d.exponent, 10) - Len(d.fraction)

\* A whole number with the digits behind its point, as one number.
LEMMA MantissaIs ==
    ASSUME NEW whole \in Texts, IsNumber(whole, 10), Magnitude(whole) # <<>>, NEW fraction \in Seq(Signs(10)),
           Head(whole) # "-" \/ Number(fraction, 10) = 0
    PROVE  Spelled(whole \o fraction, 10) = Spelled(whole, 10) * TenTo(Len(fraction)) + Number(fraction, 10)
<1> DEFINE mag == Magnitude(whole)
           all == whole \o fraction
           n == Number(mag, 10)
           b == Number(fraction, 10)
           ten == TenTo(Len(fraction))
<1>0. 10 \in Radices
  BY DEF Radices
<1>1. /\ mag \in Seq(Signs(10)) /\ mag \in Texts /\ mag # <<>> /\ fraction \in Texts
      /\ \/ whole = <<"-">> \o mag /\ whole # <<>> /\ Head(whole) = "-"
         \/ whole = <<"+">> \o mag /\ whole # <<>> /\ Head(whole) = "+"
         \/ whole = mag /\ (whole # <<>> => Head(whole) \notin {"-", "+"})
  BY <1>0, NumberParts, DigitsAreTexts
<1>2. whole # <<>> /\ all # <<>> /\ Head(all) = Head(whole) /\ Tail(all) = Tail(whole) \o fraction
  <2>1. whole # <<>> /\ whole \in Seq(Chars) /\ fraction \in Seq(Chars)
    BY <1>1 DEF Texts
  <2>2. Len(whole) \in Nat \ {0} /\ Len(all) = Len(whole) + Len(fraction) /\ Len(fraction) \in Nat
    BY <2>1, EmptySeq
  <2>3. all # <<>>
    <3>1. Len(all) # 0
      BY <2>2
    <3> QED
      BY <3>1
  <2>4. Head(all) = Head(whole) /\ Tail(all) = Tail(whole) \o fraction
    BY <2>1, BeginsAndGoesOn DEF Texts
  <2> QED
    BY <2>1, <2>3, <2>4
<1>3. Magnitude(all) = mag \o fraction
  <2> HIDE DEF all
  <2>1. CASE Head(whole) \in {"-", "+"}
    BY <1>2, <2>1 DEF Magnitude
  <2>2. CASE Head(whole) \notin {"-", "+"}
    BY <1>2, <2>2 DEF Magnitude, all
  <2> QED
    BY <2>1, <2>2
<1>4. Number(mag \o fraction, 10) = n * ten + b
  <2> HIDE DEF mag
  <2> QED
    BY <1>1, NumberBehind
<1>5. n \in Nat /\ b \in Nat /\ ten \in Nat
  <2>1. n \in Nat /\ b \in Nat
    <3> HIDE DEF mag
    <3> QED
      BY <1>0, <1>1, ValueIs, StrAssumption
  <2>2. Len(fraction) \in Nat
    OBVIOUS
  <2>3. \E f : f \in [0 .. Len(fraction) -> Nat] /\ ten = f[Len(fraction)]
    BY <2>2, TenToIs
  <2> QED
    BY <2>1, <2>2, <2>3
<1>6. Spelled(all, 10) = IF Head(whole) = "-" THEN -(n * ten + b) ELSE n * ten + b
  <2> HIDE DEF all, mag, b, ten
  <2> QED
    BY <1>2, <1>3, <1>4 DEF Spelled
<1>7. Spelled(whole, 10) = IF Head(whole) = "-" THEN -n ELSE n
  <2> HIDE DEF all
  <2> QED
    BY <1>2 DEF Spelled
<1>8. Head(whole) # "-" \/ b = 0
  OBVIOUS
<1> HIDE DEF all, n, b, ten, mag
<1>9. CASE Head(whole) = "-"
  <2>1. -(n * ten + b) = (-n) * ten + b
    BY <1>5, <1>8, <1>9
  <2> QED
    BY <1>6, <1>7, <1>9, <2>1 DEF all, b, ten
<1>10. CASE Head(whole) # "-"
  BY <1>6, <1>7, <1>10 DEF all, b, ten
<1> QED
  BY <1>9, <1>10

\* The exponent behind its letter, or none.
LEMMA ExponentIs ==
    ASSUME NEW exponent \in Texts, IsNumber(exponent, 10), exponent # <<>> => Magnitude(exponent) # <<>>,
           Spelled(exponent, 10) \in Signed64
    PROVE  LET text    == Behind1("e", exponent)
               small   == Accept(text, <<"e">>)
               capital == Accept(text, <<"E">>)
               read    == ReadI(IF small.ok THEN small.rest ELSE capital.rest, 10, U64 \div 2 - 1)
           IN  /\ small.ok \/ capital.ok => read.ok /\ read.value = Spelled(exponent, 10)
               /\ ~(small.ok \/ capital.ok) => Spelled(exponent, 10) = 0
<1> DEFINE text    == Behind1("e", exponent)
           small   == Accept(text, <<"e">>)
           capital == Accept(text, <<"E">>)
           read    == ReadI(IF small.ok THEN small.rest ELSE capital.rest, 10, U64 \div 2 - 1)
           v       == Spelled(exponent, 10)
<1>0. "e" \in Chars /\ "E" \in Chars /\ 10 \in Radices /\ <<>> \in Texts
  <2>1. <<"e", 14>> \in Digits(16)
    BY DEF Digits, Letters
  <2>2. "e" \in {d[1] : d \in Digits(16)}
    BY <2>1
  <2>3. "e" \in Chars
    BY <2>2, CharsAssumption
  <2>4. "E" \in Chars
    BY CharsAssumption
  <2> QED
    BY <2>3, <2>4, NoText DEF Radices
<1>1. CASE exponent = <<>>
  <2>1. text = <<>>
    BY <1>0, <1>1, Behind1Is
  <2>2. small.ok = FALSE /\ capital.ok = FALSE
    <3>1. small.ok = FALSE
      BY <1>0, <2>1, AcceptNot
    <3>2. capital.ok = FALSE
      BY <1>0, <2>1, AcceptNot
    <3> QED
      BY <3>1, <3>2
  <2>3. v = 0
    <3>2. <<>> \in Seq(Signs(10)) /\ Len(<<>>) = 0
      OBVIOUS
    <3>3. \E f : Counts(<<>>, 10, f) /\ Number(<<>>, 10) = f[Len(<<>>)]
      BY <1>0, <3>2, NumberCounts
    <3>4. Number(<<>>, 10) = 0
      BY <3>2, <3>3 DEF Counts
    <3>5. Magnitude(<<>>) = <<>>
      BY DEF Magnitude
    <3> QED
      BY <1>1, <3>4, <3>5 DEF Spelled
  <2> HIDE DEF text, small, capital, read, v
  <2> QED
    BY <2>2, <2>3 DEF text, small, capital, read, v
<1>2. CASE exponent # <<>>
  <2>1. small.ok = TRUE /\ small.rest = exponent
    <3>1. text = <<"e">> \o exponent
      BY <1>0, <1>2, Behind1Is
    <3> HIDE DEF text
    <3> QED
      BY <1>0, <3>1, AcceptOne
  <2> HIDE DEF text, small, capital, v
  <2>2. U64 \div 2 - 1 \in Int /\ -(U64 \div 2 - 1) - 1 .. U64 \div 2 - 1 = Signed64
    BY StrAssumption DEF Signed64
  <2> DEFINE max == U64 \div 2 - 1
  <2>3. ReadI(exponent \o <<>>, 10, max) =
          [ok |-> Magnitude(exponent) # <<>> /\ v \in -max - 1 .. max, value |-> v, rest |-> <<>>]
    <3> HIDE DEF max
    <3>1. NoDigit(<<>>, 10)
      BY DEF NoDigit
    <3> QED
      BY <1>0, <3>1, ReadIIs DEF v
  <2>4. exponent \o <<>> = exponent
    BY NoText
  <2>5. read = ReadI(exponent, 10, max)
    BY <2>1
  <2>6. Magnitude(exponent) # <<>> /\ v \in -max - 1 .. max
    BY <1>2, <2>2 DEF v
  <2> HIDE DEF read, max
  <2>7. read = [ok |-> TRUE, value |-> v, rest |-> <<>>]
    BY <2>3, <2>4, <2>5, <2>6
  <2>8. read.ok /\ read.value = v
    BY <2>7
  <2> QED
    BY <2>1, <2>8 DEF text, small, capital, read, v
<1> QED
  BY <1>1, <1>2

LEMMA DecimalsAreRead == ASSUME NEW d \in Decimals PROVE DecimalIsRead(d, ReadF(Spell(d)))
<1> SUFFICES ASSUME Spelled(d.whole, 10) \in Signed64, Number(d.fraction, 10) \in Unsigned64,
                    Spelled(d.exponent, 10) \in Signed64,
                    Head(d.whole) # "-" \/ Number(d.fraction, 10) = 0
             PROVE  /\ ReadF(Spell(d)).ok /\ ReadF(Spell(d)).mantissa = Spelled(d.whole \o d.fraction, 10)
                    /\ ReadF(Spell(d)).exponent = Spelled(d.exponent, 10) - Len(d.fraction)
  BY Zenon DEF DecimalIsRead
<1> DEFINE w == d.whole
           f == d.fraction
           e == d.exponent
           dotted == Behind1(".", f)
           scaling == Behind1("e", e)
           text == w \o (dotted \o scaling)
           max == U64 \div 2 - 1
           whole    == ReadI(text, 10, max)
           dot      == Accept(whole.rest, <<".">>)
           fraction == IF dot.ok THEN ReadU(dot.rest, 10, U64 - 1) ELSE [value |-> 0, rest |-> whole.rest]
           places   == Len(dot.rest) - Len(fraction.rest)
           small    == Accept(fraction.rest, <<"e">>)
           capital  == Accept(fraction.rest, <<"E">>)
           exponent == ReadI(IF small.ok THEN small.rest ELSE capital.rest, 10, max)
           scaled   == small.ok \/ capital.ok
           found == ReadF(text)
<1>0. /\ Spelled(w, 10) \in Signed64 /\ Number(f, 10) \in Unsigned64
      /\ Spelled(e, 10) \in Signed64 /\ (Head(w) # "-" \/ Number(f, 10) = 0)
  OBVIOUS
<1>1. /\ w \in Texts /\ IsNumber(w, 10) /\ Magnitude(w) # <<>> /\ f \in Seq(Signs(10))
      /\ e \in Texts /\ IsNumber(e, 10) /\ (e # <<>> => Magnitude(e) # <<>>)
  BY DecimalsAssumption DEF Texts, Signs
<1>2. found = [ok       |-> whole.ok /\ (scaled => exponent.ok),
               mantissa |-> whole.value * TenTo(places) + fraction.value,
               exponent |-> (IF scaled THEN exponent.value ELSE 0) - places]
  BY DEF ReadF
<1>3. w # <<>> /\ 10 \in Radices /\ f \in Texts /\ "." \in Chars /\ "e" \in Chars
  <2>1. w # <<>>
    BY <1>1 DEF Magnitude
  <2>2. 10 \in Radices
    BY DEF Radices
  <2>3. f \in Texts
    BY <1>1, <2>2, DigitsAreTexts
  <2>4. <<"e", 14>> \in Digits(16)
    BY DEF Digits, Letters
  <2>5. "e" \in {s[1] : s \in Digits(16)}
    BY <2>4
  <2>6. "e" \in Chars /\ "." \in Chars
    BY <2>5, CharsAssumption
  <2> QED
    BY <2>1, <2>2, <2>3, <2>6
<1>4. dotted \in Texts /\ scaling \in Texts /\ (scaling # <<>> => scaling[1] = "e")
  BY <1>1, <1>3, Behind1Is
<1>5. Spell(d) = text
  <2>1. Joined(w, dotted, scaling) = w \o (dotted \o scaling)
    <3> HIDE DEF w, dotted, scaling
    <3> QED
      BY <1>1, <1>4, Regroup
  <2>2. Spell(d) = Joined(w, dotted, scaling)
    BY DEF Spell, Joined, Behind1
  <2> QED
    BY <2>1, <2>2
<1> HIDE DEF w, f, e, text
<1> HIDE DEF whole, dot, fraction, places, small, capital, exponent, scaled, found
<1> DEFINE rest == dotted \o scaling
<1>6. rest \in Texts /\ NoDigit(rest, 10)
  <2> HIDE DEF dotted, scaling
  <2> QED
    BY <1>0, <1>1, <1>4, FractionIs DEF dotted
<1>7. whole.ok = TRUE /\ whole.value = Spelled(w, 10) /\ whole.rest = rest
  <2>1. Spelled(w, 10) \in -max - 1 .. max
    BY <1>0, StrAssumption DEF Signed64
  <2> HIDE DEF max
  <2> DEFINE v == Spelled(w, 10)
  <2>2. ReadI(w \o rest, 10, max) = [ok |-> Magnitude(w) # <<>> /\ v \in -max - 1 .. max, value |-> v, rest |-> rest]
    <3> HIDE DEF rest
    <3> QED
      BY <1>0, <1>1, <1>3, <1>6, ReadIIs
  <2>3. whole = ReadI(w \o rest, 10, max)
    BY DEF whole, text, max
  <2> HIDE DEF v, rest
  <2>4. whole = [ok |-> TRUE, value |-> v, rest |-> rest]
    BY <1>1, <2>1, <2>2, <2>3 DEF v
  <2> QED
    BY <2>4 DEF v
<1>8. fraction.value = Number(f, 10) /\ fraction.rest = scaling /\ places = Len(f)
  <2>1. LET mark == Accept(rest, <<".">>)
            read == IF mark.ok THEN ReadU(mark.rest, 10, U64 - 1) ELSE [value |-> 0, rest |-> rest]
        IN  read.value = Number(f, 10) /\ read.rest = scaling /\ Len(mark.rest) - Len(read.rest) = Len(f)
    <3> HIDE DEF scaling
    <3> QED
      BY <1>0, <1>1, <1>4, FractionIs DEF dotted
  <2> HIDE DEF rest
  <2> QED
    BY <1>7, <2>1 DEF fraction, dot, places
<1>9. (scaled => exponent.ok /\ exponent.value = Spelled(e, 10)) /\ (~scaled => Spelled(e, 10) = 0)
  <2>1. LET s == Accept(scaling, <<"e">>)
            c == Accept(scaling, <<"E">>)
            read == ReadI(IF s.ok THEN s.rest ELSE c.rest, 10, U64 \div 2 - 1)
        IN  /\ s.ok \/ c.ok => read.ok /\ read.value = Spelled(e, 10)
            /\ ~(s.ok \/ c.ok) => Spelled(e, 10) = 0
    BY <1>0, <1>1, ExponentIs
  <2> HIDE DEF scaling
  <2> QED
    BY <1>8, <2>1 DEF exponent, small, capital, scaled, max
<1>10. Spelled(w \o f, 10) = Spelled(w, 10) * TenTo(Len(f)) + Number(f, 10)
  BY <1>0, <1>1, MantissaIs
<1>11. found.ok /\ found.mantissa = Spelled(w \o f, 10) /\ found.exponent = Spelled(e, 10) - Len(f)
  BY <1>2, <1>7, <1>8, <1>9, <1>10
<1> QED
  BY <1>5, <1>11 DEF found, w, f, e

LEMMA NumeralIs ==
    ASSUME NEW q \in 0 .. 9
    PROVE  Numerals[q + 1] \in Signs(10) /\ DigitOf(Numerals[q + 1], 10) = q
<1> DEFINE ch == Numerals[q + 1]
           e == CHOOSE e \in Digits(10) : e[1] = ch
<1>1. <<ch, q>> \in Digits(10)
  BY DEF Digits, Numerals
<1>2. \A d \in Digits(10) : d[1] = ch => d[2] = q
  <2> SUFFICES ASSUME NEW d \in Digits(10), d[1] = ch PROVE d[2] = q
    OBVIOUS
  <2>1. d[2] < 10
    BY DEF Digits
  <2>2. ~ \E n \in DOMAIN Letters : d = <<Letters[n], n + 9>>
    BY <2>1 DEF Letters
  <2>3. ~ \E n \in DOMAIN Capitals : d = <<Capitals[n], n + 9>>
    BY <2>1 DEF Capitals
  <2>4. PICK n \in DOMAIN Numerals : d = <<Numerals[n], n - 1>>
    BY <2>2, <2>3 DEF Digits
  <2>5. \A x, y \in 1 .. 10 : Numerals[x] = Numerals[y] => x = y
    BY DEF Numerals
  <2>6. n \in 1 .. 10 /\ q + 1 \in 1 .. 10 /\ d[1] = Numerals[n] /\ d[2] = n - 1
    BY <2>4 DEF Numerals
  <2>7. n = q + 1
    BY <2>5, <2>6
  <2> QED
    BY <2>6, <2>7
<1>3. e \in Digits(10) /\ e[1] = ch
  <2>1. \E d \in Digits(10) : d[1] = ch
    BY <1>1
  <2> QED
    BY <2>1
<1>4. e[2] = q
  <2> HIDE DEF e
  <2> QED
    BY <1>2, <1>3
<1>5. ch \in Signs(10)
  BY <1>1 DEF Signs
<1> QED
  BY <1>4, <1>5 DEF DigitOf

\* Up to three digits.
LEMMA FewDigits ==
    ASSUME NEW x \in 0 .. 9, NEW y \in 0 .. 9, NEW z \in 0 .. 9
    PROVE  /\ Number(<<Numerals[x + 1]>>, 10) = x
           /\ Number(<<Numerals[x + 1], Numerals[y + 1]>>, 10) = 10 * x + y
           /\ Number(<<Numerals[x + 1], Numerals[y + 1], Numerals[z + 1]>>, 10) = 10 * (10 * x + y) + z
<1> DEFINE a == Numerals[x + 1]
           b == Numerals[y + 1]
           c == Numerals[z + 1]
<1>1. /\ a \in Signs(10) /\ b \in Signs(10) /\ c \in Signs(10) /\ 10 \in Radices
      /\ DigitOf(a, 10) = x /\ DigitOf(b, 10) = y /\ DigitOf(c, 10) = z
  BY NumeralIs DEF Radices
<1> HIDE DEF a, b, c
<1>2. <<a>> \in Seq(Signs(10)) /\ <<a, b>> \in Seq(Signs(10)) /\ <<a, b, c>> \in Seq(Signs(10))
  BY <1>1
<1>3. Number(<<a>>, 10) = x
  <2>1. PICK f : Counts(<<a>>, 10, f) /\ Number(<<a>>, 10) = f[Len(<<a>>)]
    BY <1>1, <1>2, NumberCounts
  <2>2. f[0] = 0 /\ f[1] = f[0] * 10 + DigitOf(a, 10) /\ Number(<<a>>, 10) = f[1]
    BY <2>1 DEF Counts
  <2> QED
    BY <1>1, <2>2
<1>4. Number(<<a, b>>, 10) = 10 * x + y
  <2>1. PICK f : Counts(<<a, b>>, 10, f) /\ Number(<<a, b>>, 10) = f[Len(<<a, b>>)]
    BY <1>1, <1>2, NumberCounts
  <2>2. f[0] = 0 /\ f[1] = f[0] * 10 + DigitOf(a, 10) /\ f[2] = f[1] * 10 + DigitOf(b, 10) /\ Number(<<a, b>>, 10) = f[2]
    BY <2>1 DEF Counts
  <2> QED
    BY <1>1, <2>2
<1>5. Number(<<a, b, c>>, 10) = 10 * (10 * x + y) + z
  <2>1. PICK f : Counts(<<a, b, c>>, 10, f) /\ Number(<<a, b, c>>, 10) = f[Len(<<a, b, c>>)]
    BY <1>1, <1>2, NumberCounts
  <2>2. /\ f[0] = 0 /\ f[1] = f[0] * 10 + DigitOf(a, 10) /\ f[2] = f[1] * 10 + DigitOf(b, 10)
        /\ f[3] = f[2] * 10 + DigitOf(c, 10) /\ Number(<<a, b, c>>, 10) = f[3]
    BY <2>1 DEF Counts
  <2> QED
    BY <1>1, <2>2
<1> QED
  BY <1>3, <1>4, <1>5 DEF a, b, c

LEMMA PairAndTriple ==
    ASSUME NEW S, NEW a \in S, NEW b \in S, NEW c \in S
    PROVE  <<a>> \o <<b>> = <<a, b>> /\ <<a, b>> \o <<c>> = <<a, b, c>>
<1>1. <<a>> \in Seq(S) /\ <<b>> \in Seq(S) /\ <<c>> \in Seq(S) /\ <<a, b>> \in Seq(S) /\ <<a, b, c>> \in Seq(S)
  OBVIOUS
<1>2. Len(<<a>>) = 1 /\ Len(<<b>>) = 1 /\ Len(<<c>>) = 1 /\ Len(<<a, b>>) = 2 /\ Len(<<a, b, c>>) = 3
  OBVIOUS
<1>3. <<a>> \o <<b>> = <<a, b>>
  <2>1. Len(<<a>> \o <<b>>) = 2 /\ <<a>> \o <<b>> \in Seq(S)
    BY <1>1, <1>2, ConcatProperties
  <2>2. (<<a>> \o <<b>>)[1] = a /\ (<<a>> \o <<b>>)[2] = b
    BY <1>1, <1>2, ConcatProperties
  <2>3. \A n \in 1 .. 2 : (<<a>> \o <<b>>)[n] = <<a, b>>[n]
    BY <2>2
  <2> QED
    BY <1>1, <1>2, <2>1, <2>3, SeqEqual
<1>4. <<a, b>> \o <<c>> = <<a, b, c>>
  <2>1. Len(<<a, b>> \o <<c>>) = 3 /\ <<a, b>> \o <<c>> \in Seq(S)
    BY <1>1, <1>2, ConcatProperties
  <2>2. (<<a, b>> \o <<c>>)[1] = a /\ (<<a, b>> \o <<c>>)[2] = b /\ (<<a, b>> \o <<c>>)[3] = c
    BY <1>1, <1>2, ConcatProperties
  <2>3. \A n \in 1 .. 3 : (<<a, b>> \o <<c>>)[n] = <<a, b, c>>[n]
    BY <2>2
  <2> QED
    BY <1>1, <1>2, <2>1, <2>3, SeqEqual
<1> QED
  BY <1>3, <1>4

\* A byte in decimal is read as the byte.
LEMMA DecimalIs ==
    ASSUME NEW n \in 0 .. 255
    PROVE  Decimal(n) \in Seq(Signs(10)) /\ Decimal(n) # <<>> /\ Number(Decimal(n), 10) = n
<1> DEFINE x == n \div 100
           y == (n \div 10) % 10
           z == n % 10
           a == Numerals[x + 1]
           b == Numerals[y + 1]
           c == Numerals[z + 1]
<1>1. x \in 0 .. 9 /\ y \in 0 .. 9 /\ z \in 0 .. 9 /\ n = 10 * (10 * x + y) + z
  OBVIOUS
<1>2. Decimal(n) = (IF n >= 100 THEN <<a>> ELSE <<>>) \o (IF n >= 10 THEN <<b>> ELSE <<>>) \o <<c>>
  BY DEF Decimal
<1>3. (n < 100 => x = 0) /\ (n < 10 => y = 0)
  OBVIOUS
<1> HIDE DEF x, y, z
<1>4. a \in Signs(10) /\ b \in Signs(10) /\ c \in Signs(10)
  BY <1>1, NumeralIs
<1>8. /\ <<c>> \in Seq(Signs(10)) /\ <<b, c>> \in Seq(Signs(10)) /\ <<a, b, c>> \in Seq(Signs(10))
      /\ <<b>> \o <<c>> = <<b, c>> /\ <<a>> \o <<b>> = <<a, b>> /\ <<a, b>> \o <<c>> = <<a, b, c>>
  <2> HIDE DEF a, b, c
  <2>1. <<c>> \in Seq(Signs(10)) /\ <<b, c>> \in Seq(Signs(10)) /\ <<a, b, c>> \in Seq(Signs(10))
    BY <1>4
  <2>2. <<b>> \o <<c>> = <<b, c>>
    BY <1>4, PairAndTriple
  <2>3. <<a>> \o <<b>> = <<a, b>> /\ <<a, b>> \o <<c>> = <<a, b, c>>
    BY <1>4, PairAndTriple
  <2> QED
    BY <2>1, <2>2, <2>3
<1>9. /\ Number(<<c>>, 10) = z /\ Number(<<b, c>>, 10) = 10 * y + z
      /\ Number(<<a, b, c>>, 10) = 10 * (10 * x + y) + z
  <2>1. \A s, t, u \in 0 .. 9 :
          /\ Number(<<Numerals[s + 1]>>, 10) = s
          /\ Number(<<Numerals[s + 1], Numerals[t + 1]>>, 10) = 10 * s + t
          /\ Number(<<Numerals[s + 1], Numerals[t + 1], Numerals[u + 1]>>, 10) = 10 * (10 * s + t) + u
    BY FewDigits
  <2>2. Number(<<c>>, 10) = z
    BY <1>1, <2>1
  <2>3. Number(<<b, c>>, 10) = 10 * y + z
    BY <1>1, <2>1
  <2>5. x \in 0 .. 9 /\ y \in 0 .. 9 /\ z \in 0 .. 9
    BY <1>1
  <2>6. Number(<<Numerals[x + 1], Numerals[y + 1], Numerals[z + 1]>>, 10) = 10 * (10 * x + y) + z
    BY <2>5, FewDigits
  <2>4. Number(<<a, b, c>>, 10) = 10 * (10 * x + y) + z
    BY <2>6
  <2> QED
    BY <2>2, <2>3, <2>4
<1> HIDE DEF a, b, c
<1>10. <<>> \o <<>> = <<>> /\ <<>> \o <<c>> = <<c>> /\ <<>> \o <<b>> = <<b>>
  BY <1>4, ConcatEmptySeq, OneIsSeq
<1>5. CASE n >= 100
  <2>1. n >= 10
    BY <1>5
  <2>2. Decimal(n) = <<a, b, c>>
    BY <1>2, <1>5, <1>8, <2>1
  <2>3. Number(<<a, b, c>>, 10) = n
    BY <1>1, <1>9
  <2> QED
    BY <1>8, <2>2, <2>3
<1>6. CASE n < 100 /\ n >= 10
  <2>1. ~(n >= 100) /\ x = 0
    BY <1>3, <1>6
  <2>2. Decimal(n) = <<b, c>>
    BY <1>2, <1>6, <1>8, <1>10, <2>1
  <2>3. 10 * y + z = n
    BY <1>1, <2>1
  <2> QED
    BY <1>8, <1>9, <2>2, <2>3
<1>7. CASE n < 10
  <2>1. ~(n >= 100) /\ ~(n >= 10) /\ x = 0 /\ y = 0
    BY <1>3, <1>7
  <2>2. Decimal(n) = <<c>>
    BY <1>2, <1>10, <2>1
  <2>3. z = n
    BY <1>1, <2>1
  <2> QED
    BY <1>8, <1>9, <2>2, <2>3
<1> QED
  BY <1>5, <1>6, <1>7

LEMMA AppendFirst ==
    ASSUME NEW S, NEW a \in S
    PROVE  Append(<<>>, a) = <<a>>
<1>1. <<>> \in Seq(S) /\ <<a>> \in Seq(S) /\ Len(<<>>) = 0 /\ Len(<<a>>) = 1
  OBVIOUS
<1>2. /\ Append(<<>>, a) \in Seq(S) /\ Len(Append(<<>>, a)) = 1
      /\ Append(<<>>, a)[1] = a
  BY <1>1, AppendProperties
<1>3. \A n \in 1 .. 1 : Append(<<>>, a)[n] = <<a>>[n]
  BY <1>2
<1> QED
  BY <1>1, <1>2, <1>3, SeqEqual

LEMMA AppendSecond ==
    ASSUME NEW S, NEW a \in S, NEW b \in S
    PROVE  Append(<<a>>, b) = <<a, b>>
<1>1. <<a>> \in Seq(S) /\ <<a, b>> \in Seq(S) /\ Len(<<a>>) = 1 /\ Len(<<a, b>>) = 2
  OBVIOUS
<1>2. /\ Append(<<a>>, b) \in Seq(S) /\ Len(Append(<<a>>, b)) = 2
      /\ Append(<<a>>, b)[1] = a /\ Append(<<a>>, b)[2] = b
  BY <1>1, AppendProperties
<1>3. \A n \in 1 .. 2 : Append(<<a>>, b)[n] = <<a, b>>[n]
  BY <1>2
<1> QED
  BY <1>1, <1>2, <1>3, SeqEqual

LEMMA AppendThird ==
    ASSUME NEW S, NEW a \in S, NEW b \in S, NEW c \in S
    PROVE  Append(<<a, b>>, c) = <<a, b, c>>
<1>1. <<a, b>> \in Seq(S) /\ <<a, b, c>> \in Seq(S) /\ Len(<<a, b>>) = 2 /\ Len(<<a, b, c>>) = 3
  OBVIOUS
<1>2. /\ Append(<<a, b>>, c) \in Seq(S) /\ Len(Append(<<a, b>>, c)) = 3
      /\ Append(<<a, b>>, c)[1] = a /\ Append(<<a, b>>, c)[2] = b /\ Append(<<a, b>>, c)[3] = c
  BY <1>1, AppendProperties
<1>3. \A n \in 1 .. 3 : Append(<<a, b>>, c)[n] = <<a, b, c>>[n]
  BY <1>2
<1> QED
  BY <1>1, <1>2, <1>3, SeqEqual

LEMMA AppendFourth ==
    ASSUME NEW S, NEW a \in S, NEW b \in S, NEW c \in S, NEW d \in S
    PROVE  Append(<<a, b, c>>, d) = <<a, b, c, d>>
<1>1. <<a, b, c>> \in Seq(S) /\ <<a, b, c, d>> \in Seq(S) /\ Len(<<a, b, c>>) = 3 /\ Len(<<a, b, c, d>>) = 4
  OBVIOUS
<1>2. /\ Append(<<a, b, c>>, d) \in Seq(S) /\ Len(Append(<<a, b, c>>, d)) = 4
      /\ Append(<<a, b, c>>, d)[1] = a /\ Append(<<a, b, c>>, d)[2] = b /\ Append(<<a, b, c>>, d)[3] = c /\ Append(<<a, b, c>>, d)[4] = d
  BY <1>1, AppendProperties
<1>3. \A n \in 1 .. 4 : Append(<<a, b, c>>, d)[n] = <<a, b, c, d>>[n]
  BY <1>2
<1> QED
  BY <1>1, <1>2, <1>3, SeqEqual

JoinedParts(p, d, e, r) == ((p \o d) \o e) \o r

LEMMA NextPart ==
    ASSUME NEW p \in Texts, NEW d \in Texts, NEW e \in Texts, NEW r \in Texts
    PROVE  (p \o d) \o e \in Texts /\ JoinedParts(p, d, e, r) = p \o (d \o (e \o r))
<1> DEFINE pd == p \o d
           er == e \o r
           pde == pd \o e
<1>1. pd \in Texts /\ er \in Texts
  BY FirstOf
<1> HIDE DEF pd, er
<1>2. pde \in Texts
  BY <1>1, FirstOf
<1>3. Joined(pd, e, r) = pd \o (e \o r)
  BY <1>1, Regroup
<1>4. Joined(p, d, er) = p \o (d \o er)
  BY <1>1, Regroup
<1>5. pde \o r = p \o (d \o er)
  BY <1>3, <1>4 DEF Joined, pd, er
<1> QED
  BY <1>2, <1>5 DEF pd, er, JoinedParts

\* One step of the loop of ipv4_parse.
OneByte(n, before, radix) ==
    LET dot  == IF n = 1 THEN [ok |-> TRUE, rest |-> before.rest] ELSE Accept(before.rest, <<".">>)
        part == ReadU(dot.rest, radix, 255)
    IN  IF ~before.more \/ ~dot.ok THEN [before EXCEPT !.more = FALSE]
        ELSE [ok |-> part.ok, more |-> part.ok, addr |-> Append(before.addr, part.value), rest |-> part.rest]

Got(addr, rest) == [ok |-> TRUE, more |-> TRUE, addr |-> addr, rest |-> rest]

\* A byte in decimal that is read where the loop is ready for one.
LEMMA ByteIsRead ==
    ASSUME NEW v \in 0 .. 255, NEW r \in Texts, NoDigit(r, 10), NEW addr, NEW n \in 1 .. 4, NEW text,
           text = IF n = 1 THEN Decimal(v) \o r ELSE <<".">> \o (Decimal(v) \o r)
    PROVE  OneByte(n, Got(addr, text), 10) = Got(Append(addr, v), r)
<1> DEFINE before == Got(addr, text)
           dot  == IF n = 1 THEN [ok |-> TRUE, rest |-> before.rest] ELSE Accept(before.rest, <<".">>)
           part == ReadU(dot.rest, 10, 255)
           digits == Decimal(v)
<1>1. digits \in Seq(Signs(10)) /\ digits # <<>> /\ Number(digits, 10) = v /\ 10 \in Radices
  BY DecimalIs DEF Radices
<1>2. digits \in Texts /\ "." \in Chars /\ digits \o r \in Texts
  <2>1. digits \in Texts
    BY <1>1, DigitsAreTexts
  <2>2. "." \in Chars
    BY CharsAssumption
  <2> QED
    BY <2>1, <2>2, FirstOf
<1>3. OneByte(n, before, 10) =
        IF ~before.more \/ ~dot.ok THEN [before EXCEPT !.more = FALSE]
        ELSE [ok |-> part.ok, more |-> part.ok, addr |-> Append(before.addr, part.value), rest |-> part.rest]
  BY DEF OneByte
<1>4. before.more = TRUE /\ before.addr = addr /\ before.rest = text
  BY DEF Got
<1> HIDE DEF before, digits
<1> DEFINE x == digits \o r
<1>5. dot.ok = TRUE /\ dot.rest = x
  <2>1. CASE n = 1
    BY <1>4, <2>1 DEF digits
  <2>2. CASE n # 1
    <3>1. before.rest = <<".">> \o x
      BY <1>4, <2>2 DEF digits
    <3>2. x \in Texts
      BY <1>2
    <3> HIDE DEF x
    <3>3. Accept(<<".">> \o x, <<".">>).ok = TRUE /\ Accept(<<".">> \o x, <<".">>).rest = x
      BY <1>2, <3>2, AcceptOne
    <3>4. Accept(before.rest, <<".">>).ok = TRUE /\ Accept(before.rest, <<".">>).rest = x
      BY <3>1, <3>3
    <3> QED
      BY <2>2, <3>4
  <2> QED
    BY <2>1, <2>2
<1> HIDE DEF dot
<1>6. v % U64 = v /\ v <= 255
  <2>1. U64 \in Nat \ {0} /\ v \in Nat /\ v < U64 /\ v <= 255
    BY StrAssumption
  <2> QED
    BY <2>1, ModKeeps
<1>7. part = [ok |-> TRUE, value |-> v, rest |-> r]
  <2>1. ReadU(digits \o r, 10, 255) = [ok |-> digits # <<>> /\ Number(digits, 10) % U64 <= 255,
                                       value |-> Number(digits, 10) % U64, rest |-> r]
    BY <1>1, ReadUIs
  <2>2. part = ReadU(digits \o r, 10, 255)
    BY <1>5
  <2>3. (digits # <<>> /\ Number(digits, 10) % U64 <= 255) = TRUE /\ Number(digits, 10) % U64 = v
    BY <1>1, <1>6
  <2> HIDE DEF part
  <2> QED
    BY <2>1, <2>2, <2>3
<1> HIDE DEF part
<1>8. OneByte(n, before, 10) = [ok |-> TRUE, more |-> TRUE, addr |-> Append(addr, v), rest |-> r]
  BY <1>3, <1>4, <1>5, <1>7
<1> QED
  BY <1>8 DEF before, Got

LEMMA FirstByte ==
    ASSUME NEW v \in 0 .. 255, NEW r \in Texts, NoDigit(r, 10), NEW addr
    PROVE  OneByte(1, Got(addr, Decimal(v) \o r), 10) = Got(Append(addr, v), r)
<1> DEFINE text == Decimal(v) \o r
<1>1. text = IF 1 = 1 THEN Decimal(v) \o r ELSE <<".">> \o (Decimal(v) \o r)
  OBVIOUS
<1>2. 1 \in 1 .. 4
  OBVIOUS
<1> HIDE DEF text
<1>3. OneByte(1, Got(addr, text), 10) = Got(Append(addr, v), r)
  BY <1>1, <1>2, ByteIsRead
<1> QED
  BY <1>3 DEF text

LEMMA NextByte ==
    ASSUME NEW v \in 0 .. 255, NEW r \in Texts, NoDigit(r, 10), NEW addr, NEW n \in 2 .. 4
    PROVE  OneByte(n, Got(addr, <<".">> \o (Decimal(v) \o r)), 10) = Got(Append(addr, v), r)
<1> DEFINE text == <<".">> \o (Decimal(v) \o r)
<1>1. text = IF n = 1 THEN Decimal(v) \o r ELSE <<".">> \o (Decimal(v) \o r)
  OBVIOUS
<1>2. n \in 1 .. 4
  OBVIOUS
<1> HIDE DEF text
<1>3. OneByte(n, Got(addr, text), 10) = Got(Append(addr, v), r)
  BY <1>1, <1>2, ByteIsRead
<1> QED
  BY <1>3 DEF text

LEMMA AddressesAreRead ==
    ASSUME NEW addr \in [1 .. 4 -> 0 .. 255], NEW behind \in {<<>>, <<":">>, <<".">>}
    PROVE  LET found == Dotted(Ipv4Format(addr) \o behind, 4, 10)
           IN  found.ok /\ found.addr = addr /\ found.rest = behind
<1> DEFINE a == addr[1]
           b == addr[2]
           c == addr[3]
           d == addr[4]
           dot == <<".">>
           r3 == dot \o (Decimal(d) \o behind)
           r2 == dot \o (Decimal(c) \o r3)
           r1 == dot \o (Decimal(b) \o r2)
           text == Decimal(a) \o r1
<1>1. a \in 0 .. 255 /\ b \in 0 .. 255 /\ c \in 0 .. 255 /\ d \in 0 .. 255
  OBVIOUS
<1>2. Decimal(a) \in Texts /\ Decimal(b) \in Texts /\ Decimal(c) \in Texts /\ Decimal(d) \in Texts
  <2>1. 10 \in Radices
    BY DEF Radices
  <2> QED
    BY <1>1, <2>1, DecimalIs, DigitsAreTexts
<1>3. dot \in Texts /\ "." \in Chars /\ ":" \in Chars /\ behind \in Texts
  <2>1. "." \in Chars /\ ":" \in Chars
    BY CharsAssumption
  <2>2. \A ch \in Chars : <<ch>> \in Texts
    BY OneIsSeq DEF Texts
  <2> QED
    BY <2>1, <2>2, NoText
<1>4. "." \notin Signs(10) /\ ":" \notin Signs(10)
  <2>1. 10 \in Radices
    BY DEF Radices
  <2> QED
    BY <2>1, NoSign
<1>5. NoDigit(behind, 10)
  BY <1>4 DEF NoDigit
<1> HIDE DEF a, b, c, d
<1>6. \A x \in Texts : dot \o x \in Texts /\ NoDigit(dot \o x, 10)
  <2> SUFFICES ASSUME NEW x \in Texts PROVE dot \o x \in Texts /\ NoDigit(dot \o x, 10)
    OBVIOUS
  <2> QED
    BY <1>3, <1>4, AcceptOne DEF NoDigit
<1> HIDE DEF dot
<1>7. r3 \in Texts /\ NoDigit(r3, 10)
  <2>1. Decimal(d) \o behind \in Texts
    BY <1>2, <1>3, FirstOf
  <2> QED
    BY <1>6, <2>1
<1> HIDE DEF r3
<1>8. r2 \in Texts /\ NoDigit(r2, 10)
  <2>1. Decimal(c) \o r3 \in Texts
    BY <1>2, <1>7, FirstOf
  <2> QED
    BY <1>6, <2>1
<1> HIDE DEF r2
<1>9. r1 \in Texts /\ NoDigit(r1, 10)
  <2>1. Decimal(b) \o r2 \in Texts
    BY <1>2, <1>8, FirstOf
  <2> QED
    BY <1>6, <2>1
<1> HIDE DEF r1
<1>10. Ipv4Format(addr) \o behind = text
  <2> DEFINE p1 == Decimal(a)
             p2 == (p1 \o dot) \o Decimal(b)
             p3 == (p2 \o dot) \o Decimal(c)
             p4 == (p3 \o dot) \o Decimal(d)
  <2>1. p1 \in Texts
    BY <1>2
  <2> HIDE DEF p1
  <2>2. p2 \in Texts /\ p2 \o r2 = p1 \o r1
    <3>1. \A x, y \in Texts : /\ (p1 \o dot) \o x \in Texts
                              /\ JoinedParts(p1, dot, x, y) = p1 \o (dot \o (x \o y))
      BY <1>3, <2>1, NextPart
    <3>2. (p1 \o dot) \o Decimal(b) \in Texts /\ JoinedParts(p1, dot, Decimal(b), r2) = p1 \o (dot \o (Decimal(b) \o r2))
      BY <3>1, <1>2, <1>8
    <3> QED
      BY <3>2 DEF JoinedParts, r1
  <2> HIDE DEF p2
  <2>3. p3 \in Texts /\ p3 \o r3 = p2 \o r2
    <3>1. \A x, y \in Texts : /\ (p2 \o dot) \o x \in Texts
                              /\ JoinedParts(p2, dot, x, y) = p2 \o (dot \o (x \o y))
      BY <1>3, <2>2, NextPart
    <3>2. (p2 \o dot) \o Decimal(c) \in Texts /\ JoinedParts(p2, dot, Decimal(c), r3) = p2 \o (dot \o (Decimal(c) \o r3))
      BY <3>1, <1>2, <1>7
    <3> QED
      BY <3>2 DEF JoinedParts, r2
  <2> HIDE DEF p3
  <2>4. p4 \in Texts /\ p4 \o behind = p3 \o r3
    <3>1. \A x, y \in Texts : /\ (p3 \o dot) \o x \in Texts
                              /\ JoinedParts(p3, dot, x, y) = p3 \o (dot \o (x \o y))
      BY <1>3, <2>3, NextPart
    <3>2. (p3 \o dot) \o Decimal(d) \in Texts /\ JoinedParts(p3, dot, Decimal(d), behind) = p3 \o (dot \o (Decimal(d) \o behind))
      BY <3>1, <1>2, <1>3
    <3> QED
      BY <3>2 DEF JoinedParts, r3
  <2> HIDE DEF p4
  <2>5. Ipv4Format(addr) = p4
    BY DEF Ipv4Format, p4, p3, p2, p1, a, b, c, d, dot
  <2> QED
    BY <2>2, <2>3, <2>4, <2>5 DEF p1
<1> HIDE DEF text
<1> DEFINE s0 == Got(<<>>, text)
           s1 == Got(<<a>>, r1)
           s2 == Got(<<a, b>>, r2)
           s3 == Got(<<a, b, c>>, r3)
           s4 == Got(<<a, b, c, d>>, behind)
<1>11. /\ Append(<<>>, a) = <<a>> /\ Append(<<a>>, b) = <<a, b>> /\ Append(<<a, b>>, c) = <<a, b, c>>
       /\ Append(<<a, b, c>>, d) = <<a, b, c, d>>
  <2> DEFINE S == 0 .. 255
  <2>2. a \in S /\ b \in S /\ c \in S /\ d \in S
    BY <1>1
  <2> HIDE DEF S
  <2>3. Append(<<>>, a) = <<a>>
    BY <2>2, AppendFirst
  <2>4. Append(<<a>>, b) = <<a, b>>
    BY <2>2, AppendSecond
  <2>5. Append(<<a, b>>, c) = <<a, b, c>>
    BY <2>2, AppendThird
  <2>6. Append(<<a, b, c>>, d) = <<a, b, c, d>>
    BY <2>2, AppendFourth
  <2> QED
    BY <2>3, <2>4, <2>5, <2>6
<1>12. OneByte(1, s0, 10) = s1
  <2>1. OneByte(1, Got(<<>>, Decimal(a) \o r1), 10) = Got(Append(<<>>, a), r1)
    BY <1>1, <1>9, FirstByte
  <2> QED
    BY <1>11, <2>1 DEF text
<1>13. OneByte(2, s1, 10) = s2
  <2>1. OneByte(2, Got(<<a>>, <<".">> \o (Decimal(b) \o r2)), 10) = Got(Append(<<a>>, b), r2)
    <3>1. 2 \in 2 .. 4 /\ b \in 0 .. 255 /\ r2 \in Texts /\ NoDigit(r2, 10)
      BY <1>1, <1>8
    <3>2. \A z : OneByte(2, Got(z, <<".">> \o (Decimal(b) \o r2)), 10) = Got(Append(z, b), r2)
      BY <3>1, NextByte
    <3> QED
      BY <3>2
  <2> QED
    BY <1>11, <2>1 DEF r1, dot
<1>14. OneByte(3, s2, 10) = s3
  <2>1. OneByte(3, Got(<<a, b>>, <<".">> \o (Decimal(c) \o r3)), 10) = Got(Append(<<a, b>>, c), r3)
    <3>1. 3 \in 2 .. 4 /\ c \in 0 .. 255 /\ r3 \in Texts /\ NoDigit(r3, 10)
      BY <1>1, <1>7
    <3>2. \A z : OneByte(3, Got(z, <<".">> \o (Decimal(c) \o r3)), 10) = Got(Append(z, c), r3)
      BY <3>1, NextByte
    <3> QED
      BY <3>2
  <2> QED
    BY <1>11, <2>1 DEF r2, dot
<1>15. OneByte(4, s3, 10) = s4
  <2>1. OneByte(4, Got(<<a, b, c>>, <<".">> \o (Decimal(d) \o behind)), 10) = Got(Append(<<a, b, c>>, d), behind)
    <3>1. 4 \in 2 .. 4 /\ d \in 0 .. 255 /\ behind \in Texts /\ NoDigit(behind, 10)
      BY <1>1, <1>3, <1>5
    <3>2. \A z : OneByte(4, Got(z, <<".">> \o (Decimal(d) \o behind)), 10) = Got(Append(z, d), behind)
      BY <3>1, NextByte
    <3> QED
      BY <3>2
  <2> QED
    BY <1>11, <2>1 DEF r3, dot
<1> HIDE DEF s0, s1, s2, s3
<1> DEFINE Loop(f) == f = [n \in 0 .. 4 |-> IF n = 0 THEN Got(<<>>, text) ELSE OneByte(n, f[n - 1], 10)]
           f == CHOOSE f : Loop(f)
           h == [n \in 0 .. 4 |-> IF n = 0 THEN s0 ELSE IF n = 1 THEN s1 ELSE IF n = 2 THEN s2 ELSE IF n = 3 THEN s3 ELSE s4]
<1>16. Dotted(text, 4, 10) = f[4]
  BY DEF Dotted, OneByte, Got
<1> HIDE DEF s4
<1>17. Loop(h)
  <2>1. h[0] = s0 /\ h[1] = s1 /\ h[2] = s2 /\ h[3] = s3 /\ h[4] = s4
    OBVIOUS
  <2>2. h = [n \in 0 .. 4 |-> h[n]]
    OBVIOUS
  <2> HIDE DEF h
  <2>3. \A n \in 0 .. 4 : h[n] = IF n = 0 THEN Got(<<>>, text) ELSE OneByte(n, h[n - 1], 10)
    <3> SUFFICES ASSUME NEW n \in 0 .. 4 PROVE h[n] = IF n = 0 THEN Got(<<>>, text) ELSE OneByte(n, h[n - 1], 10)
      OBVIOUS
    <3>1. n = 0 \/ n = 1 \/ n = 2 \/ n = 3 \/ n = 4
      OBVIOUS
    <3>2. CASE n = 0
      BY <2>1, <3>2 DEF s0
    <3>3. CASE n = 1
      BY <1>12, <2>1, <3>3
    <3>4. CASE n = 2
      BY <1>13, <2>1, <3>4
    <3>5. CASE n = 3
      BY <1>14, <2>1, <3>5
    <3>6. CASE n = 4
      BY <1>15, <2>1, <3>6
    <3> QED
      BY <3>1, <3>2, <3>3, <3>4, <3>5, <3>6
  <2> QED
    BY <2>2, <2>3
<1>18. Loop(f)
  BY <1>17
<1> HIDE DEF f
<1>19. f[0] = s0 /\ \A n \in 1 .. 4 : f[n] = OneByte(n, f[n - 1], 10)
  BY <1>18 DEF s0
<1>20. f[1] = s1
  BY <1>12, <1>19
<1>21. f[2] = s2
  BY <1>13, <1>19, <1>20
<1>22. f[3] = s3
  BY <1>14, <1>19, <1>21
<1>23. f[4] = s4
  BY <1>15, <1>19, <1>22
<1>24. s4.ok /\ s4.addr = addr /\ s4.rest = behind
  <2>1. <<a, b, c, d>> = addr
    BY DEF a, b, c, d
  <2> QED
    BY <2>1 DEF s4, Got
<1> QED
  BY <1>10, <1>16, <1>23, <1>24

\* Every integer that fits is read as what is written, with its sign, from a text of any
\* length; every decimal; and every address, whatever follows it.
THEOREM NumbersAreRead == TextSpec => []NumberIsRead
<1> DEFINE Answered ==
             /\ asked.kind = "number" =>
                  /\ asked.text \in Texts /\ asked.radix \in Radices /\ asked.signed \in BOOLEAN
                  /\ answer = IF asked.signed THEN ReadI(asked.text, asked.radix, 127) ELSE ReadU(asked.text, asked.radix, 255)
             /\ asked.kind = "decimal" => asked.number \in Decimals /\ answer = ReadF(Spell(asked.number))
             /\ asked.kind = "address" =>
                  /\ asked.addr \in [1 .. 4 -> 0 .. 255] /\ asked.behind \in {<<>>, <<":">>, <<".">>}
                  /\ answer = Dotted(Ipv4Format(asked.addr) \o asked.behind, 4, 10)
<1>1. TextInit => Answered
  BY DEF TextInit
<1>2. Answered /\ [TextNext]_textVars => Answered'
  <2> SUFFICES ASSUME Answered, [TextNext]_textVars PROVE Answered'
    OBVIOUS
  <2>1. CASE ReadNumber
    <3>1. PICK text \in Numbers, signed \in BOOLEAN, radix \in {10, 16} :
            /\ asked' = [kind |-> "number", text |-> text, signed |-> signed, radix |-> radix]
            /\ answer' = IF signed THEN ReadI(text, radix, 127) ELSE ReadU(text, radix, 255)
      BY <2>1 DEF ReadNumber
    <3>2. text \in Texts /\ radix \in Radices
      BY TextAssumption DEF Texts, Radices
    <3>3. asked'.kind = "number" /\ asked'.text = text /\ asked'.signed = signed /\ asked'.radix = radix
      BY <3>1
    <3> QED
      BY <3>1, <3>2, <3>3
  <2>2. CASE ReadDecimal
    <3>1. PICK d \in Decimals : asked' = [kind |-> "decimal", number |-> d] /\ answer' = ReadF(Spell(d))
      BY <2>2 DEF ReadDecimal
    <3>2. asked'.kind = "decimal" /\ asked'.number = d
      BY <3>1
    <3> QED
      BY <3>1, <3>2
  <2>3. CASE ParseAddress
    <3>1. PICK addr \in Addresses, behind \in {<<>>, <<":">>, <<".">>} :
            /\ asked' = [kind |-> "address", addr |-> addr, behind |-> behind]
            /\ answer' = Dotted(Ipv4Format(addr) \o behind, 4, 10)
      BY <2>3 DEF ParseAddress
    <3>2. asked'.kind = "address" /\ asked'.addr = addr /\ asked'.behind = behind
      BY <3>1
    <3>3. addr \in [1 .. 4 -> 0 .. 255]
      BY TextAssumption
    <3> QED
      BY <3>1, <3>2, <3>3
  <2>4. CASE ParseUri \/ SumUp
    <3>1. asked'.kind \in {"uri", "text", "crc"}
      BY <2>4 DEF ParseUri, SumUp
    <3> QED
      BY <3>1
  <2>5. CASE UNCHANGED textVars
    BY <2>5 DEF textVars
  <2> QED
    BY <2>1, <2>2, <2>3, <2>4, <2>5 DEF TextNext
<1>3. Answered => NumberIsRead
  <2> SUFFICES ASSUME Answered PROVE NumberIsRead
    OBVIOUS
  <2>1. ASSUME asked.kind = "number", IsNumber(asked.text, asked.radix)
        PROVE  IntegerIsRead(asked.text, asked.radix, asked.signed, answer)
    <3> DEFINE text == asked.text
               radix == asked.radix
               signed == asked.signed
    <3>1. /\ text \in Texts /\ radix \in Radices /\ signed \in BOOLEAN /\ IsNumber(text, radix)
          /\ answer = IF signed THEN ReadI(text, radix, 127) ELSE ReadU(text, radix, 255)
      BY <2>1
    <3> HIDE DEF text, radix, signed
    <3>2. IntegerIsRead(text, radix, signed, answer)
      BY <3>1, IntegersAreRead
    <3> QED
      BY <3>2 DEF text, radix, signed
  <2>2. ASSUME asked.kind = "decimal" PROVE DecimalIsRead(asked.number, answer)
    <3>1. asked.number \in Decimals /\ answer = ReadF(Spell(asked.number))
      BY <2>2
    <3> QED
      BY <3>1, DecimalsAreRead
  <2>3. ASSUME asked.kind = "address" PROVE answer.ok /\ answer.addr = asked.addr /\ answer.rest = asked.behind
    <3> DEFINE addr == asked.addr
               behind == asked.behind
    <3>1. /\ addr \in [1 .. 4 -> 0 .. 255] /\ behind \in {<<>>, <<":">>, <<".">>}
          /\ answer = Dotted(Ipv4Format(addr) \o behind, 4, 10)
      BY <2>3
    <3> HIDE DEF addr, behind
    <3>2. answer.ok /\ answer.addr = addr /\ answer.rest = behind
      BY <3>1, AddressesAreRead
    <3> QED
      BY <3>2 DEF addr, behind
  <2> QED
    BY <2>1, <2>2, <2>3, Zenon DEF NumberIsRead, IntegerIsRead, DecimalIsRead
<1> QED
  BY <1>1, <1>2, <1>3, PTL DEF TextSpec

-----------------------------------------------------------------------------
(* Uri: what is put together comes apart *)

LEMMA WithoutIs == ASSUME NEW text, NEW marks PROVE Without(text, marks) <=> text \in Texts /\ Free(text, marks)
BY DEF Without, Texts, Free

LEMMA CharOf == ASSUME NEW text \in Texts, NEW n \in DOMAIN text PROVE text[n] \in Chars
BY DEF Texts

\* What is free of more marks is free of fewer, and what is put together of free texts
\* is free.
LEMMA FreeOfBoth ==
    ASSUME NEW a \in Texts, NEW b \in Texts, NEW set, Free(a, set), Free(b, set)
    PROVE  a \o b \in Texts /\ Free(a \o b, set)
<1> DEFINE ab == a \o b
           la == Len(a)
           lb == Len(b)
<1>1. /\ ab \in Texts /\ Len(ab) = la + lb /\ la \in Nat /\ lb \in Nat
      /\ (\A m \in 1 .. la : ab[m] = a[m]) /\ (\A m \in 1 .. lb : ab[la + m] = b[m])
  BY FirstOf DEF Texts
<1>2. DOMAIN ab = 1 .. la + lb /\ DOMAIN a = 1 .. la /\ DOMAIN b = 1 .. lb
  BY <1>1 DEF Texts
<1> HIDE DEF ab, la, lb
<1>3. ASSUME NEW n \in 1 .. la + lb PROVE ab[n] \notin set \cup {NUL}
  <2>1. CASE n <= la
    BY <1>1, <1>2, <2>1 DEF Free
  <2>2. CASE ~(n <= la)
    <3> DEFINE m == n - la
    <3>1. m \in 1 .. lb /\ n = la + m
      BY <1>1, <2>2
    <3> HIDE DEF m
    <3>2. b[m] \notin set \cup {NUL}
      BY <1>2, <3>1 DEF Free
    <3> QED
      BY <1>1, <3>1, <3>2
  <2> QED
    BY <2>1, <2>2
<1> QED
  BY <1>1, <1>2, <1>3 DEF ab, Free

\* The first character of two texts together.
LEMMA FirstCharOf ==
    ASSUME NEW a \in Texts, NEW b \in Texts
    PROVE  /\ a # <<>> => a \o b # <<>> /\ (a \o b)[1] = a[1]
           /\ a = <<>> => a \o b = b
           /\ a \o b = <<>> => a = <<>> /\ b = <<>>
<1>1. /\ a \o b \in Texts /\ Len(a \o b) = Len(a) + Len(b) /\ Len(a) \in Nat /\ Len(b) \in Nat
      /\ (\A m \in 1 .. Len(a) : (a \o b)[m] = a[m])
  BY FirstOf DEF Texts
<1>2. (Len(a) = 0 <=> a = <<>>) /\ (Len(b) = 0 <=> b = <<>>) /\ (Len(a \o b) = 0 <=> a \o b = <<>>)
  BY <1>1, EmptySeq DEF Texts
<1>3. ASSUME a # <<>> PROVE a \o b # <<>> /\ (a \o b)[1] = a[1]
  <2>1. Len(a) # 0 /\ 1 \in 1 .. Len(a) /\ Len(a) + Len(b) # 0
    BY <1>1, <1>2, <1>3
  <2> QED
    BY <1>1, <1>2, <2>1
<1>4. a = <<>> => a \o b = b
  BY NoText
<1> QED
  BY <1>2, <1>3, <1>4

\* Two characters are accepted where the text begins with them.
LEMMA TwoBegin ==
    ASSUME NEW text \in Texts, IsPrefix(<<"/", "/">>, text)
    PROVE  Len(text) >= 2 /\ text[1] = "/" /\ text[2] = "/"
<1> DEFINE two == <<"/", "/">>
<1>1. two \in Texts /\ Len(two) = 2 /\ two[1] = "/" /\ two[2] = "/"
  BY Marks
<1> HIDE DEF two
<1>2. Len(text) \in Nat /\ 2 <= Len(text) /\ SubSeq(two, 1, 2) = SubSeq(text, 1, 2)
  BY <1>1 DEF IsPrefix, Texts, two
<1>3. SubSeq(two, 1, 2) = two
  BY <1>1, SubSeqFull DEF Texts
<1>4. 2 \in 0 .. Len(text)
  BY <1>2
<1>5. Cut(text, 2).got = SubSeq(text, 1, 2) /\ \A m \in 1 .. 2 : Cut(text, 2).got[m] = text[m]
  <2>1. \A m \in 1 .. 2 : Cut(text, 2).got[m] = text[m]
    BY <1>4, CutIs
  <2> QED
    BY <2>1 DEF Cut
<1>6. two[1] = text[1] /\ two[2] = text[2]
  BY <1>2, <1>3, <1>5
<1> QED
  BY <1>1, <1>2, <1>6

LEMMA BeginWithTwo ==
    ASSUME NEW text \in Texts, Len(text) >= 2, text[1] = "/", text[2] = "/"
    PROVE  IsPrefix(<<"/", "/">>, text)
<1> DEFINE two == <<"/", "/">>
<1>1. two \in Texts /\ Len(two) = 2 /\ two[1] = "/" /\ two[2] = "/"
  BY Marks
<1> HIDE DEF two
<1>2. Len(text) \in Nat /\ 2 \in 0 .. Len(text)
  BY DEF Texts
<1> DEFINE got == Cut(text, 2).got
<1>3. got \in Texts /\ Len(got) = 2 /\ \A m \in 1 .. 2 : got[m] = text[m]
  BY <1>2, CutIs
<1>4. got = SubSeq(text, 1, 2)
  BY DEF Cut
<1> HIDE DEF got
<1>5. \A m \in 1 .. 2 : two[m] = got[m]
  BY <1>1, <1>3
<1>6. two = got
  BY <1>1, <1>3, <1>5, SeqEqual DEF Texts
<1>7. SubSeq(two, 1, 2) = two
  BY <1>1, SubSeqFull DEF Texts
<1>8. IsPrefix(two, text)
  BY <1>1, <1>2, <1>4, <1>6, <1>7 DEF IsPrefix
<1> QED
  BY <1>8 DEF two

\* A component that is there, with its mark before it.
LEMMA ComponentIs ==
    ASSUME NEW part, NEW marks, Component(part, marks), part # <<>>
    PROVE  part = <<part[1]>> /\ part[1] \in Texts /\ Free(part[1], marks)
BY WithoutIs DEF Component

EndOfScheme == {":", "/", "?", "#"}

\* A text that is not taken for one with a scheme.
NoScheme(text) == \A n \in DOMAIN text : text[n] = ":" => \E m \in 1 .. n - 1 : text[m] \in EndOfScheme \ {":"}

LEMMA NoSchemeFound ==
    ASSUME NEW text \in Texts, NoScheme(text)
    PROVE  Accept(CSpan(text, EndOfScheme).rest, <<":">>).ok = FALSE
<1> DEFINE got == CSpan(text, EndOfScheme).got
           rest == CSpan(text, EndOfScheme).rest
<1>1. got \in Texts /\ rest \in Texts /\ got \o rest = text /\ Free(got, EndOfScheme)
  BY CSpanIs
<1> HIDE DEF got, rest
<1>2. ASSUME rest # <<>>, rest[1] = ":" PROVE FALSE
  <2>1. Len(rest) \in Nat /\ Len(got) \in Nat /\ Len(rest) # 0 /\ DOMAIN got = 1 .. Len(got)
    BY <1>1, <1>2, EmptySeq DEF Texts
  <2>2. /\ Len(text) = Len(got) + Len(rest) /\ (\A m \in 1 .. Len(got) : text[m] = got[m])
        /\ \A m \in 1 .. Len(rest) : text[Len(got) + m] = rest[m]
    BY <1>1, FirstOf
  <2> DEFINE n == Len(got) + 1
  <2>3. n \in 1 .. Len(text) /\ n - 1 = Len(got) /\ 1 \in 1 .. Len(rest)
    BY <2>1, <2>2
  <2>4. text[n] = ":" /\ n \in DOMAIN text
    BY <1>2, <2>2, <2>3 DEF Texts
  <2>5. PICK m \in 1 .. n - 1 : text[m] \in EndOfScheme \ {":"}
    BY <2>4 DEF NoScheme
  <2> HIDE DEF n
  <2>6. m \in 1 .. Len(got) /\ got[m] \in EndOfScheme
    BY <2>2, <2>3, <2>5
  <2> QED
    BY <1>1, <2>1, <2>6 DEF Free
<1>3. ":" \in Chars
  BY CharsAssumption
<1>4. Accept(rest, <<":">>).ok = FALSE
  BY <1>1, <1>2, <1>3, AcceptNot
<1> QED
  BY <1>4 DEF rest

LEMMA SchemeComes ==
    ASSUME NEW scheme, Component(scheme, EndOfScheme), NEW r \in Texts, scheme = <<>> => NoScheme(r)
    PROVE  LET text == Part(<<>>, scheme, <<":">>) \o r
               part == CSpan(text, EndOfScheme)
           IN  /\ Part(<<>>, scheme, <<":">>) \in Texts /\ BehindScheme(text) = r
               /\ (IF Accept(part.rest, <<":">>).ok THEN <<part.got>> ELSE <<>>) = scheme
<1> DEFINE sign == <<":">>
           mine == Part(<<>>, scheme, sign)
           text == mine \o r
           part == CSpan(text, EndOfScheme)
           colon == Accept(part.rest, sign)
<1>1. ":" \in Chars /\ sign \in Texts
  BY CharsAssumption, Marks
<1>2. BehindScheme(text) = IF colon.ok THEN colon.rest ELSE text
  BY DEF BehindScheme, EndOfScheme
<1>3. CASE scheme = <<>>
  <2>1. mine = <<>> /\ text = r
    BY <1>3, NoText DEF Part
  <2> HIDE DEF mine, text
  <2>2. colon.ok = FALSE
    BY <1>3, <2>1, NoSchemeFound
  <2> QED
    BY <1>2, <1>3, <2>1, <2>2, NoText DEF text, mine
<1>4. CASE scheme # <<>>
  <2> DEFINE s == scheme[1]
  <2>1. scheme = <<s>> /\ s \in Texts /\ Free(s, EndOfScheme)
    BY <1>4, ComponentIs
  <2> HIDE DEF s
  <2>2. mine = s \o sign
    <3>1. mine = <<>> \o s \o sign
      BY <1>4 DEF Part, s
    <3> QED
      BY <2>1, <3>1, NoText
  <2> DEFINE b == sign \o r
  <2>3. mine \in Texts /\ text = s \o b
    <3>1. Joined(s, sign, r) = s \o b
      BY <1>1, <2>1, Regroup
    <3>2. (s \o sign) \o r = s \o b
      BY <3>1 DEF Joined
    <3>3. s \o sign \in Texts
      BY <1>1, <2>1, FirstOf
    <3> QED
      BY <2>2, <3>2, <3>3
  <2>4. b \in Texts /\ b[1] = ":" /\ Accept(b, sign).ok = TRUE /\ Accept(b, sign).rest = r
    BY <1>1, AcceptOne
  <2> HIDE DEF mine, b, text, sign
  <2>5. part.got = s /\ part.rest = b
    <3>1. b # <<>> => b[1] \in EndOfScheme \cup {NUL}
      BY <2>4 DEF EndOfScheme
    <3> QED
      BY <2>1, <2>3, <2>4, <3>1, CSpanOf
  <2>6. colon.ok = TRUE /\ colon.rest = r
    BY <2>4, <2>5
  <2> QED
    BY <1>2, <2>1, <2>3, <2>5, <2>6 DEF text, mine, sign
<1> QED
  BY <1>3, <1>4

LEMMA CutNothing == ASSUME NEW r \in Texts PROVE Cut(r, 0).rest = r
<1>1. 0 \in 0 .. Len(r)
  BY DEF Texts
<1>2. Cut(r, 0).got \in Texts /\ Cut(r, 0).rest \in Texts /\ Cut(r, 0).got \o Cut(r, 0).rest = r /\ Len(Cut(r, 0).got) = 0
  BY <1>1, CutIs
<1>3. Cut(r, 0).got = <<>>
  BY <1>2, EmptySeq DEF Texts
<1> QED
  BY <1>2, <1>3, NoText

\* A query, which ends where a fragment begins.
LEMMA QueryComes ==
    ASSUME NEW query, Component(query, {"#"}), NEW r \in Texts, r # <<>> => r[1] = "#"
    PROVE  LET text == Part(<<"?">>, query, <<>>) \o r
               question == Accept(text, <<"?">>)
               found == IF question.ok THEN CSpan(question.rest, {"#"}) ELSE Split(text, 0)
           IN  /\ Part(<<"?">>, query, <<>>) \in Texts /\ text \in Texts
               /\ text # <<>> => text[1] \in {"?", "#"}
               /\ (IF question.ok THEN <<found.got>> ELSE <<>>) = query /\ found.rest = r
<1> DEFINE sign == <<"?">>
           mine == Part(sign, query, <<>>)
           text == mine \o r
           question == Accept(text, sign)
           found == IF question.ok THEN CSpan(question.rest, {"#"}) ELSE Split(text, 0)
<1>1. "?" \in Chars /\ sign \in Texts
  BY CharsAssumption, Marks
<1>3. CASE query = <<>>
  <2>1. mine = <<>> /\ text = r /\ <<>> \in Texts
    BY <1>3, NoText DEF Part
  <2> HIDE DEF mine, text
  <2>2. question.ok = FALSE
    BY <1>1, <2>1, AcceptNot
  <2>3. found = Cut(r, 0)
    <3>1. 0 \in 0 .. Len(r)
      BY DEF Texts
    <3> QED
      BY <2>1, <2>2, <3>1, SplitIs
  <2>4. Cut(r, 0).rest = r
    BY CutNothing
  <2> QED
    BY <1>3, <2>1, <2>2, <2>3, <2>4 DEF text, mine, sign
<1>4. CASE query # <<>>
  <2> DEFINE s == query[1]
  <2>1. query = <<s>> /\ s \in Texts /\ Free(s, {"#"})
    BY <1>4, ComponentIs
  <2> HIDE DEF s
  <2> DEFINE b == s \o r
  <2>2. b \in Texts /\ mine = sign \o s /\ mine \in Texts
    <3>1. mine = sign \o s \o <<>>
      BY <1>4 DEF Part, s
    <3>2. sign \o s \in Texts /\ b \in Texts
      BY <1>1, <2>1, FirstOf
    <3> QED
      BY <3>1, <3>2, NoText
  <2>3. text = sign \o b
    <3>1. Joined(sign, s, r) = sign \o b
      BY <1>1, <2>1, Regroup
    <3> QED
      BY <2>2, <3>1 DEF Joined
  <2> HIDE DEF mine, text
  <2>4. CSpan(b, {"#"}).got = s /\ CSpan(b, {"#"}).rest = r
    BY <2>1, CSpanOf
  <2> HIDE DEF b
  <2>5. text \in Texts /\ text[1] = "?" /\ question.ok = TRUE /\ question.rest = b
    BY <1>1, <2>2, <2>3, AcceptOne
  <2>6. found.got = s /\ found.rest = r
    BY <2>4, <2>5
  <2> QED
    BY <2>1, <2>2, <2>5, <2>6 DEF text, mine, sign
<1> QED
  BY <1>3, <1>4

LEMMA FragmentComes ==
    ASSUME NEW fragment, Component(fragment, {})
    PROVE  LET text == Part(<<"#">>, fragment, <<>>)
               hash == Accept(text, <<"#">>)
           IN  /\ text \in Texts /\ (text # <<>> => text[1] = "#")
               /\ (IF hash.ok THEN <<hash.rest>> ELSE <<>>) = fragment
<1> DEFINE sign == <<"#">>
           text == Part(sign, fragment, <<>>)
           hash == Accept(text, sign)
<1>1. "#" \in Chars /\ sign \in Texts
  BY CharsAssumption, Marks
<1>3. CASE fragment = <<>>
  <2>1. text = <<>> /\ <<>> \in Texts
    BY <1>3, NoText DEF Part
  <2> HIDE DEF text
  <2>2. hash.ok = FALSE
    BY <1>1, <2>1, AcceptNot
  <2> QED
    BY <1>3, <2>1, <2>2 DEF text, sign
<1>4. CASE fragment # <<>>
  <2> DEFINE s == fragment[1]
  <2>1. fragment = <<s>> /\ s \in Texts
    BY <1>4, ComponentIs
  <2> HIDE DEF s
  <2>2. text = sign \o s
    <3>1. text = sign \o s \o <<>>
      BY <1>4 DEF Part, s
    <3>2. sign \o s \in Texts
      BY <1>1, <2>1, FirstOf
    <3> QED
      BY <3>1, <3>2, NoText
  <2> HIDE DEF text
  <2>3. text \in Texts /\ text[1] = "#" /\ hash.ok = TRUE /\ hash.rest = s
    BY <1>1, <2>1, <2>2, AcceptOne
  <2> QED
    BY <2>1, <2>3 DEF text, sign
<1> QED
  BY <1>3, <1>4

\* An authority, which ends where a path begins.
LEMMA AuthorityComes ==
    ASSUME NEW authority, Component(authority, {"/"}), NEW r \in Texts,
           authority # <<>> => (r # <<>> => r[1] = "/"), authority = <<>> => ~IsPrefix(<<"/", "/">>, r)
    PROVE  LET text == Part(<<"/", "/">>, authority, <<>>) \o r
               slashes == Accept(text, <<"/", "/">>)
               auth == IF slashes.ok THEN CSpan(slashes.rest, {"/"}) ELSE Split(slashes.rest, 0)
           IN  /\ Part(<<"/", "/">>, authority, <<>>) \in Texts /\ text \in Texts
               /\ slashes.ok = (authority # <<>>) /\ auth.rest = r
               /\ authority # <<>> => authority = <<auth.got>>
<1> DEFINE two == <<"/", "/">>
           mine == Part(two, authority, <<>>)
           text == mine \o r
           slashes == Accept(text, two)
           auth == IF slashes.ok THEN CSpan(slashes.rest, {"/"}) ELSE Split(slashes.rest, 0)
<1>1. two \in Texts
  BY Marks
<1>3. CASE authority = <<>>
  <2>1. mine = <<>> /\ text = r /\ <<>> \in Texts
    BY <1>3, NoText DEF Part
  <2> HIDE DEF mine, text
  <2>2. ~IsPrefix(two, text)
    BY <1>3, <2>1
  <2> HIDE DEF two
  <2>3. slashes.ok = FALSE /\ slashes.rest = r
    BY <1>1, <2>1, <2>2, AcceptIs
  <2>4. auth = Cut(r, 0)
    <3>1. 0 \in 0 .. Len(r)
      BY DEF Texts
    <3> QED
      BY <2>3, <3>1, SplitIs
  <2>5. Cut(r, 0).rest = r
    BY CutNothing
  <2> QED
    BY <1>3, <2>1, <2>3, <2>4, <2>5 DEF text, mine, two
<1>4. CASE authority # <<>>
  <2> DEFINE s == authority[1]
  <2>1. authority = <<s>> /\ s \in Texts /\ Free(s, {"/"})
    BY <1>4, ComponentIs
  <2> HIDE DEF s
  <2> DEFINE b == s \o r
  <2>2. b \in Texts /\ mine = two \o s /\ mine \in Texts
    <3>1. mine = two \o s \o <<>>
      BY <1>4 DEF Part, s
    <3>2. two \o s \in Texts /\ b \in Texts
      BY <1>1, <2>1, FirstOf
    <3> QED
      BY <3>1, <3>2, NoText
  <2> HIDE DEF two
  <2>3. text = two \o b
    <3>1. Joined(two, s, r) = two \o b
      BY <1>1, <2>1, Regroup
    <3> QED
      BY <2>2, <3>1 DEF Joined
  <2> HIDE DEF mine, text
  <2>4. CSpan(b, {"/"}).got = s /\ CSpan(b, {"/"}).rest = r
    <3>1. r # <<>> => r[1] \in {"/"} \cup {NUL}
      BY <1>4
    <3> QED
      BY <2>1, <3>1, CSpanOf
  <2> HIDE DEF b
  <2>5. text \in Texts /\ slashes.ok /\ slashes.rest = b
    BY <1>1, <2>2, <2>3, AcceptOf, FirstOf
  <2>6. slashes.ok = TRUE
    <3>1. slashes.ok \in BOOLEAN
      BY <1>1, <2>5, AcceptIs
    <3> QED
      BY <2>5, <3>1
  <2>7. auth.got = s /\ auth.rest = r
    BY <2>4, <2>5
  <2> QED
    BY <1>4, <2>1, <2>2, <2>5, <2>6, <2>7 DEF text, mine, two
<1> QED
  BY <1>3, <1>4

\* A port, behind a colon or not written.
LEMMA PortComes ==
    ASSUME NEW text, NEW port, IsPort(text, port)
    PROVE  LET colon == Accept(text, <<":">>)
               read  == ReadU(colon.rest, 10, U32 - 1)
           IN  /\ text \in Texts /\ Free(text, {"@"}) /\ (text # <<>> => text[1] = ":")
               /\ (IF colon.ok /\ read.ok THEN Signed(read.value, U32) ELSE -1) = port
<1> DEFINE sign == <<":">>
           colon == Accept(text, sign)
           read == ReadU(colon.rest, 10, U32 - 1)
           v == IF colon.ok /\ read.ok THEN Signed(read.value, U32) ELSE -1
<1>1. /\ ":" \in Chars /\ sign \in Texts /\ <<>> \in Texts /\ <<>> \in Seq(Signs(10)) /\ 10 \in Radices
      /\ ":" # "@" /\ ":" # NUL
  BY CharsAssumption, Marks, NoText DEF Radices
<1>2. CASE text = <<>>
  <2>1. Free(text, {"@"})
    BY <1>2 DEF Free
  <2>2. colon.ok = FALSE
    BY <1>1, <1>2, AcceptNot
  <2>3. port = -1
    BY <1>2 DEF IsPort
  <2> QED
    BY <1>1, <1>2, <2>1, <2>2, <2>3
<1>3. CASE text = sign
  <2>1. Free(text, {"@"})
    <3>1. DOMAIN text = {1} /\ text[1] = ":"
      BY <1>3
    <3> QED
      BY <1>1, <3>1 DEF Free
  <2>2. colon.rest = <<>>
    <3>1. sign \o <<>> = text
      BY <1>1, <1>3, NoText
    <3>2. Accept(sign \o <<>>, sign).rest = <<>>
      BY <1>1, AcceptOne
    <3> QED
      BY <3>1, <3>2
  <2>3. read.ok = FALSE
    <3>1. <<>> \o <<>> = <<>>
      BY NoText
    <3>2. NoDigit(<<>>, 10)
      BY DEF NoDigit
    <3> DEFINE none == <<>>
    <3>4. none \in Texts /\ none \in Seq(Signs(10)) /\ NoDigit(none, 10) /\ none \o none = none
      BY <1>1, <3>1, <3>2
    <3> HIDE DEF none
    <3>3. ReadU(none \o none, 10, U32 - 1) =
            [ok |-> none # <<>> /\ Number(none, 10) % U64 <= U32 - 1, value |-> Number(none, 10) % U64, rest |-> none]
      BY <1>1, <3>4, ReadUIs
    <3>5. colon.rest = none
      BY <2>2 DEF none
    <3> HIDE DEF colon
    <3>6. read.ok = (none # <<>> /\ Number(none, 10) % U64 <= U32 - 1)
      BY <3>3, <3>4, <3>5
    <3> QED
      BY <3>6 DEF none
  <2>4. port = -1
    <3>1. Len(text) = 1
      BY <1>3
    <3>2. Tail(text) = <<>>
      BY <1>3
    <3> QED
      BY <3>2 DEF IsPort
  <2>5. text[1] = ":"
    BY <1>3
  <2> HIDE DEF colon, read
  <2> QED
    BY <1>1, <1>3, <2>1, <2>3, <2>4, <2>5 DEF colon, read
<1>4. CASE text \notin {<<>>, sign}
  <2> DEFINE a == Tail(text)
  <2>1. /\ text = sign \o a /\ a \in Seq(Signs(10)) /\ a # <<>> /\ port = Number(a, 10) /\ port < U32 \div 2
    BY <1>4 DEF IsPort, Signs
  <2> HIDE DEF a
  <2>2. a \in Texts /\ text \in Texts /\ text[1] = ":" /\ colon.ok = TRUE /\ colon.rest = a
    <3>1. a \in Texts
      BY <1>1, <2>1, DigitsAreTexts
    <3> HIDE DEF sign, colon
    <3>2. sign \o a \in Texts /\ Accept(sign \o a, sign).ok = TRUE /\ Accept(sign \o a, sign).rest = a /\ (sign \o a)[1] = ":"
      BY <1>1, <3>1, AcceptOne DEF sign
    <3> QED
      BY <2>1, <3>1, <3>2 DEF colon
  <2>3. Free(text, {"@"})
    <3>1. sign \in Texts /\ Free(sign, {"@"})
      <4>1. DOMAIN sign = {1} /\ sign[1] = ":"
        OBVIOUS
      <4> QED
        BY <1>1, <4>1 DEF Free
    <3>2. Free(a, {"@"})
      <4>1. \A n \in DOMAIN a : a[n] \in Signs(10)
        BY <2>1
      <4>2. Signs(10) \subseteq {d[1] : d \in Digits(16)} /\ "@" \notin Signs(10)
        <5>1. "@" \notin Signs(10)
          BY <1>1, NoSign
        <5>2. Digits(10) \subseteq Digits(16)
          <6>1. \A d \in Digits(10) : d[2] \in Int
            BY DEF Digits, Numerals, Letters, Capitals
          <6>2. \A x \in Int : x < 10 => x < 16
            OBVIOUS
          <6> QED
            BY <6>1, <6>2 DEF Digits
        <5> QED
          BY <5>1, <5>2 DEF Signs
      <4>3. NUL \notin Signs(10)
        BY <4>2, CharsAssumption
      <4> QED
        BY <4>1, <4>2, <4>3 DEF Free
    <3> QED
      BY <2>1, <2>2, <3>1, <3>2, FreeOfBoth
  <2>4. read = [ok |-> a # <<>> /\ port % U64 <= U32 - 1, value |-> port % U64, rest |-> <<>>]
    <3> DEFINE none == <<>>
    <3>1. none \in Texts /\ NoDigit(none, 10) /\ a \o none = a
      BY <1>1, <2>2, NoText DEF NoDigit
    <3> HIDE DEF none
    <3>2. ReadU(a \o none, 10, U32 - 1) = [ok |-> a # <<>> /\ Number(a, 10) % U64 <= U32 - 1, value |-> Number(a, 10) % U64, rest |-> none]
      BY <1>1, <2>1, <3>1, ReadUIs
    <3> QED
      BY <2>1, <2>2, <3>1, <3>2 DEF none
  <2>5. port \in Nat
    BY <1>1, <2>1, StrAssumption, ValueIs
  <2>6. port % U64 = port /\ port <= U32 - 1 /\ port < U32 \div 2
    <3>1. U32 \in Nat /\ U32 > 0 /\ U32 < U64 /\ U64 \in Nat /\ U64 # 0
      BY UriAssumption, StrAssumption
    <3>2. U32 \div 2 <= U32 - 1
      BY <3>1
    <3>3. U32 \div 2 \in Nat
      BY <3>1
    <3>4. port < U64 /\ port <= U32 - 1
      BY <2>1, <2>5, <3>1, <3>2, <3>3
    <3> QED
      BY <2>1, <2>5, <3>1, <3>4, ModKeeps
  <2>7. read.ok = TRUE /\ read.value = port
    <3> HIDE DEF read
    <3> QED
      BY <2>1, <2>4, <2>6
  <2>8. Signed(port, U32) = port
    BY <2>6 DEF Signed
  <2> HIDE DEF colon, read
  <2> QED
    BY <2>2, <2>3, <2>7, <2>8 DEF colon, read
<1> QED
  BY <1>2, <1>3, <1>4

\* A host, with brackets or without, which ends where a port begins.
LEMMA HostComes ==
    ASSUME NEW u, Without(u.host, {"]", "@"}), NEW host \in HostTexts(u), NEW port \in Texts,
           port # <<>> => port[1] = ":"
    PROVE  LET text == host \o port
               open == Accept(text, <<"[">>)
               span == CSpan(open.rest, IF open.ok THEN {"]"} ELSE {":"})
               behind == IF open.ok THEN Accept(span.rest, <<"]">>).rest ELSE span.rest
           IN  host \in Texts /\ Free(host, {"@"}) /\ span.got = u.host /\ behind = port
<1> DEFINE left == <<"[">>
           right == <<"]">>
           h == u.host
           text == host \o port
           open == Accept(text, left)
           span == CSpan(open.rest, IF open.ok THEN {"]"} ELSE {":"})
           behind == IF open.ok THEN Accept(span.rest, right).rest ELSE span.rest
<1>1. /\ left \in Texts /\ right \in Texts /\ "[" \in Chars /\ "]" \in Chars
      /\ h \in Texts /\ Free(h, {"]", "@"}) /\ Free(h, {"]"}) /\ Free(h, {"@"})
  <2>1. h \in Texts /\ Free(h, {"]", "@"})
    BY WithoutIs
  <2> QED
    BY <2>1, CharsAssumption, Marks DEF Free
<1>2. Free(left, {"@"}) /\ Free(right, {"@"})
  <2>1. DOMAIN left = {1} /\ left[1] = "[" /\ DOMAIN right = {1} /\ right[1] = "]"
    OBVIOUS
  <2>2. "[" \notin {"@"} \cup {NUL} /\ "]" \notin {"@"} \cup {NUL}
    BY CharsAssumption
  <2> HIDE DEF left, right
  <2> QED
    BY <2>1, <2>2 DEF Free
<1>3. CASE host = left \o h \o right
  <2> DEFINE b == h \o (right \o port)
             r == right \o port
  <2>1. host \in Texts /\ Free(host, {"@"})
    <3> HIDE DEF left, right, h
    <3>1. left \o h \in Texts /\ Free(left \o h, {"@"})
      BY <1>1, <1>2, FreeOfBoth
    <3> QED
      BY <1>1, <1>2, <1>3, <3>1, FreeOfBoth
  <2>2. r \in Texts /\ r[1] = "]" /\ Accept(r, right).rest = port
    BY <1>1, AcceptOne
  <2> HIDE DEF left, right, h, r
  <2>3. b = h \o r
    BY DEF r
  <2>4. b \in Texts
    BY <1>1, <2>2, <2>3, FirstOf
  <2>5. text = left \o b
    <3>1. \A x, y \in Texts : Joined(left, x, y) = left \o (x \o y) /\ Joined(h, x, y) = h \o (x \o y)
      BY <1>1, Regroup
    <3>2. left \o h \in Texts
      BY <1>1, FirstOf
    <3>3. \A x, y \in Texts : Joined(left \o h, x, y) = (left \o h) \o (x \o y)
      BY <3>2, Regroup
    <3>4. (left \o h \o right) \o port = (left \o h) \o r
      <4>1. Joined(left \o h, right, port) = (left \o h) \o (right \o port)
        BY <1>1, <3>3
      <4> QED
        BY <4>1 DEF Joined, r
    <3>5. (left \o h) \o r = left \o (h \o r)
      <4>1. Joined(left, h, r) = left \o (h \o r)
        BY <1>1, <2>2, <3>1
      <4> QED
        BY <4>1 DEF Joined
    <3> QED
      BY <1>3, <2>3, <3>4, <3>5
  <2> HIDE DEF b, text
  <2>6. open.ok = TRUE /\ open.rest = b
    <3>1. Accept(left \o b, left).ok = TRUE /\ Accept(left \o b, left).rest = b
      BY <1>1, <2>4, AcceptOne DEF left
    <3> QED
      BY <2>5, <3>1
  <2>7. span.got = h /\ span.rest = r
    <3>1. r # <<>> => r[1] \in {"]"} \cup {NUL}
      BY <2>2
    <3>2. CSpan(h \o r, {"]"}).got = h /\ CSpan(h \o r, {"]"}).rest = r
      BY <1>1, <2>2, <3>1, CSpanOf
    <3> QED
      BY <2>3, <2>6, <3>2
  <2>8. behind = port
    BY <2>2, <2>6, <2>7
  <2> HIDE DEF open, span, behind
  <2> QED
    BY <2>1, <2>7, <2>8 DEF behind, span, open, text, left, right, h
<1>4. CASE host # left \o h \o right
  <2>1. host = h /\ Without(h, {":"}) /\ ~IsPrefix(left, h)
    BY <1>4 DEF HostTexts
  <2>2. Free(h, {":"})
    BY <2>1, WithoutIs
  <2>3. h # <<>> => h[1] # "["
    BY <1>1, <2>1, BeginsWith
  <2> HIDE DEF left, right, h
  <2>4. text \in Texts /\ (text # <<>> => text[1] # "[") /\ text = h \o port
    <3>1. CASE h = <<>>
      <4>1. text = port
        BY <2>1, <3>1, NoText
      <4> QED
        BY <2>1, <4>1
    <3>2. CASE h # <<>>
      <4>1. text \in Texts /\ text[1] = h[1]
        BY <1>1, <2>1, <3>2, FirstCharOf, FirstOf
      <4> QED
        BY <2>1, <2>3, <3>2, <4>1
    <3> QED
      BY <3>1, <3>2
  <2> HIDE DEF text
  <2>5. open.ok = FALSE /\ open.rest = text
    BY <1>1, <2>4, AcceptNot DEF left
  <2>6. span.got = h /\ span.rest = port
    <3>1. port # <<>> => port[1] \in {":"} \cup {NUL}
      OBVIOUS
    <3>2. CSpan(h \o port, {":"}).got = h /\ CSpan(h \o port, {":"}).rest = port
      BY <1>1, <2>2, <3>1, CSpanOf
    <3> QED
      BY <2>4, <2>5, <3>2
  <2>7. behind = port
    BY <2>5, <2>6
  <2> HIDE DEF open, span, behind
  <2> QED
    BY <1>1, <2>1, <2>6, <2>7 DEF behind, span, open, text, left, right, h
<1> QED
  BY <1>3, <1>4

\* A login, which ends at the sign that only it can have behind it.
LEMMA LoginComes ==
    ASSUME NEW u, Without(u.user, {":", "@"}), Without(u.pass, {"@"}), NEW login \in LoginTexts(u),
           NEW r \in Texts, Free(r, {"@"})
    PROVE  LET part == CSpan(login \o r, {"@"})
               at   == Accept(part.rest, <<"@">>)
               user == CSpan(part.got, {":"})
               pass == Accept(user.rest, <<":">>)
           IN  /\ login \in Texts
               /\ (IF at.ok THEN user.got ELSE <<>>) = u.user
               /\ (IF at.ok /\ pass.ok THEN pass.rest ELSE <<>>) = u.pass
               /\ (IF at.ok THEN at.rest ELSE part.got) = r
<1> DEFINE sign == <<"@">>
           colon == <<":">>
           name == u.user
           secret == u.pass
           part == CSpan(login \o r, {"@"})
           at   == Accept(part.rest, sign)
           user == CSpan(part.got, {":"})
           pass == Accept(user.rest, colon)
           good == /\ login \in Texts
                   /\ (IF at.ok THEN user.got ELSE <<>>) = name
                   /\ (IF at.ok /\ pass.ok THEN pass.rest ELSE <<>>) = secret
                   /\ (IF at.ok THEN at.rest ELSE part.got) = r
<1> SUFFICES good
  OBVIOUS
<1>1. /\ sign \in Texts /\ colon \in Texts /\ <<>> \in Texts /\ "@" \in Chars /\ ":" \in Chars
      /\ name \in Texts /\ Free(name, {":", "@"}) /\ Free(name, {":"}) /\ Free(name, {"@"})
      /\ secret \in Texts /\ Free(secret, {"@"})
  <2>1. name \in Texts /\ Free(name, {":", "@"}) /\ secret \in Texts /\ Free(secret, {"@"})
    BY WithoutIs
  <2> QED
    BY <2>1, CharsAssumption, Marks, NoText DEF Free
<1>2. Free(colon, {"@"})
  <2>1. DOMAIN colon = {1} /\ colon[1] = ":"
    OBVIOUS
  <2>2. ":" \notin {"@"} \cup {NUL}
    BY CharsAssumption
  <2> HIDE DEF colon
  <2> QED
    BY <2>1, <2>2 DEF Free
<1>3. \/ login = ((name \o colon) \o secret) \o sign
      \/ login = name \o sign /\ secret = <<>>
      \/ login = <<>> /\ name = <<>> /\ secret = <<>>
  <2> HIDE DEF good
  <2> QED
    BY DEF LoginTexts
<1>4. sign \o r \in Texts /\ (sign \o r)[1] = "@" /\ Accept(sign \o r, sign).ok = TRUE /\ Accept(sign \o r, sign).rest = r
  BY <1>1, AcceptOne
<1>5. ASSUME NEW before \in Texts, Free(before, {"@"}), login = before \o sign
      PROVE  part.got = before /\ at.ok = TRUE /\ at.rest = r /\ login \in Texts
  <2> DEFINE b == sign \o r
  <2>1. login \o r = before \o b /\ login \in Texts
    <3>1. Joined(before, sign, r) = before \o (sign \o r)
      <4>1. \A x, y \in Texts : Joined(before, x, y) = before \o (x \o y)
        BY <1>5, Regroup
      <4> QED
        BY <1>1, <4>1
    <3>2. before \o sign \in Texts
      BY <1>1, <1>5, FirstOf
    <3> QED
      BY <1>5, <3>1, <3>2 DEF Joined
  <2>2. b \in Texts /\ (b # <<>> => b[1] \in {"@"} \cup {NUL}) /\ Accept(b, sign).ok = TRUE /\ Accept(b, sign).rest = r
    BY <1>4
  <2> HIDE DEF b
  <2>3. CSpan(before \o b, {"@"}).got = before /\ CSpan(before \o b, {"@"}).rest = b
    BY <1>5, <2>2, CSpanOf
  <2> QED
    BY <2>1, <2>2, <2>3
<1>6. CASE login = ((name \o colon) \o secret) \o sign
  <2> DEFINE before == (name \o colon) \o secret
             b == colon \o secret
  <2>1. b \in Texts /\ b[1] = ":" /\ Accept(b, colon).ok = TRUE /\ Accept(b, colon).rest = secret
    BY <1>1, AcceptOne
  <2> HIDE DEF sign, colon, name, secret
  <2>2. before \in Texts /\ Free(before, {"@"})
    <3>1. name \o colon \in Texts /\ Free(name \o colon, {"@"})
      BY <1>1, <1>2, FreeOfBoth
    <3> QED
      BY <1>1, <3>1, FreeOfBoth
  <2>3. before = name \o b
    <3>1. Joined(name, colon, secret) = name \o (colon \o secret)
      BY <1>1, Regroup
    <3> QED
      BY <3>1 DEF Joined
  <2> HIDE DEF before, b, part, at
  <2>4. part.got = before /\ at.ok = TRUE /\ at.rest = r /\ login \in Texts
    BY <1>5, <1>6, <2>2 DEF before
  <2>5. CSpan(name \o b, {":"}).got = name /\ CSpan(name \o b, {":"}).rest = b
    <3>1. b # <<>> => b[1] \in {":"} \cup {NUL}
      BY <2>1
    <3> QED
      BY <1>1, <2>1, <3>1, CSpanOf
  <2>6. user.got = name /\ user.rest = b
    BY <2>3, <2>4, <2>5
  <2>7. pass.ok = TRUE /\ pass.rest = secret
    BY <2>1, <2>6
  <2> HIDE DEF user, pass
  <2> QED
    BY <2>4, <2>6, <2>7
<1>7. CASE login = name \o sign /\ secret = <<>>
  <2> HIDE DEF sign, colon, name, part, at
  <2>4. part.got = name /\ at.ok = TRUE /\ at.rest = r /\ login \in Texts
    BY <1>1, <1>5, <1>7
  <2>5. CSpan(name \o <<>>, {":"}).got = name /\ CSpan(name \o <<>>, {":"}).rest = <<>>
    BY <1>1, CSpanOf
  <2>6. user.got = name /\ user.rest = <<>>
    BY <1>1, <2>4, <2>5, NoText
  <2>7. pass.ok = FALSE
    BY <1>1, <2>6, AcceptNot DEF colon
  <2> HIDE DEF user, pass
  <2> QED
    BY <1>7, <2>4, <2>6, <2>7
<1>8. CASE login = <<>> /\ name = <<>> /\ secret = <<>>
  <2>1. login \o r = r /\ r \o <<>> = r
    BY <1>8, NoText
  <2>2. CSpan(r \o <<>>, {"@"}).got = r /\ CSpan(r \o <<>>, {"@"}).rest = <<>>
    BY <1>1, CSpanOf
  <2>3. part.got = r /\ part.rest = <<>>
    BY <2>1, <2>2
  <2> HIDE DEF part, name, secret
  <2>4. at.ok = FALSE
    BY <1>1, <2>3, AcceptNot
  <2> HIDE DEF at
  <2> QED
    BY <1>1, <1>8, <2>3, <2>4
<1> QED
  BY <1>3, <1>6, <1>7, <1>8

LEMMA AuthorityTextComes ==
    ASSUME NEW u, WellFormed(u), u.authority # <<>>
    PROVE  Authority(u.authority[1]) = [user |-> u.user, pass |-> u.pass, host |-> u.host, port |-> u.port]
<1> DEFINE text == u.authority[1]
<1>1. PICK login \in LoginTexts(u), host \in HostTexts(u), port \in Suffixes(text) :
          text = (login \o host) \o port /\ IsPort(port, u.port)
  BY DEF WellFormed
<1>2. Without(u.user, {":", "@"}) /\ Without(u.pass, {"@"}) /\ Without(u.host, {"]", "@"})
  BY DEF WellFormed
<1> HIDE DEF text
<1> DEFINE r      == host \o port
           part   == CSpan(text, {"@"})
           at     == Accept(part.rest, <<"@">>)
           user   == CSpan(part.got, {":"})
           pass   == Accept(user.rest, <<":">>)
           behindLogin == IF at.ok THEN at.rest ELSE part.got
           open   == Accept(behindLogin, <<"[">>)
           span   == CSpan(open.rest, IF open.ok THEN {"]"} ELSE {":"})
           behind == IF open.ok THEN Accept(span.rest, <<"]">>).rest ELSE span.rest
           colon  == Accept(behind, <<":">>)
           read   == ReadU(colon.rest, 10, U32 - 1)
           user1  == IF at.ok THEN user.got ELSE <<>>
           pass1  == IF at.ok /\ pass.ok THEN pass.rest ELSE <<>>
           port1  == IF colon.ok /\ read.ok THEN Signed(read.value, U32) ELSE -1
<1>3. Authority(text) = [user |-> user1, pass |-> pass1, host |-> span.got, port |-> port1]
  BY DEF Authority
<1>4. /\ port \in Texts /\ Free(port, {"@"}) /\ (port # <<>> => port[1] = ":")
      /\ LET c == Accept(port, <<":">>)
             n == ReadU(c.rest, 10, U32 - 1)
         IN  (IF c.ok /\ n.ok THEN Signed(n.value, U32) ELSE -1) = u.port
  BY <1>1, PortComes
<1>5. /\ host \in Texts /\ Free(host, {"@"})
      /\ LET o == Accept(r, <<"[">>)
             h == CSpan(o.rest, IF o.ok THEN {"]"} ELSE {":"})
             b == IF o.ok THEN Accept(h.rest, <<"]">>).rest ELSE h.rest
         IN  h.got = u.host /\ b = port
  BY <1>1, <1>2, <1>4, HostComes
<1>6. r \in Texts /\ Free(r, {"@"})
  BY <1>4, <1>5, FreeOfBoth
<1> HIDE DEF r
<1>7. /\ login \in Texts
      /\ LET p == CSpan(login \o r, {"@"})
             a == Accept(p.rest, <<"@">>)
             n == CSpan(p.got, {":"})
             s == Accept(n.rest, <<":">>)
         IN  /\ (IF a.ok THEN n.got ELSE <<>>) = u.user
             /\ (IF a.ok /\ s.ok THEN s.rest ELSE <<>>) = u.pass
             /\ (IF a.ok THEN a.rest ELSE p.got) = r
  BY <1>1, <1>2, <1>6, LoginComes
<1>8. text = login \o r
  <2>1. Joined(login, host, port) = login \o (host \o port)
    <3>1. \A x, y \in Texts : Joined(login, x, y) = login \o (x \o y)
      BY <1>7, Regroup
    <3> QED
      BY <1>4, <1>5, <3>1
  <2> QED
    BY <1>1, <2>1 DEF Joined, r
<1>9. user1 = u.user /\ pass1 = u.pass /\ behindLogin = r
  BY <1>7, <1>8
<1> HIDE DEF user1, pass1, behindLogin
<1>10. span.got = u.host /\ behind = port
  BY <1>5, <1>9
<1> HIDE DEF behind, span
<1>11. port1 = u.port
  BY <1>4, <1>10
<1> HIDE DEF port1
<1> QED
  BY <1>3, <1>9, <1>10, <1>11 DEF text

\* Five texts, put together from the left.
Five(a, b, c, d, e) == a \o b \o c \o d \o e

LEMMA FiveTexts ==
    ASSUME NEW a \in Texts, NEW b \in Texts, NEW c \in Texts, NEW d \in Texts, NEW e \in Texts
    PROVE  Five(a, b, c, d, e) = a \o (b \o (c \o (d \o e)))
<1> DEFINE de  == d \o e
           cde == c \o de
           ab  == a \o b
           abc == ab \o c
<1>1. de \in Texts /\ ab \in Texts
  BY FirstOf
<1> HIDE DEF de, ab
<1>2. cde \in Texts /\ abc \in Texts
  BY <1>1, FirstOf
<1> HIDE DEF cde, abc
<1>3. \A x, y \in Texts : Joined(abc, x, y) = abc \o (x \o y)
  BY <1>2, Regroup
<1>4. \A x, y \in Texts : Joined(ab, x, y) = ab \o (x \o y)
  BY <1>1, Regroup
<1>5. \A x, y \in Texts : Joined(a, x, y) = a \o (x \o y)
  BY Regroup
<1>6. (abc \o d) \o e = abc \o de
  <2>1. Joined(abc, d, e) = abc \o (d \o e)
    BY <1>3
  <2> QED
    BY <2>1 DEF Joined, de
<1>7. abc \o de = ab \o cde
  <2>1. Joined(ab, c, de) = ab \o (c \o de)
    BY <1>1, <1>4
  <2> QED
    BY <2>1 DEF Joined, abc, cde
<1>8. ab \o cde = a \o (b \o cde)
  <2>1. Joined(a, b, cde) = a \o (b \o cde)
    BY <1>2, <1>5
  <2> QED
    BY <2>1 DEF Joined, ab
<1>9. (abc \o d) \o e = a \o (b \o cde)
  BY <1>6, <1>7, <1>8
<1> QED
  BY <1>9 DEF abc, ab, cde, de, Five

\* Where no authority was written the path does not make one appear.
LEMMA NoAuthority ==
    ASSUME NEW path \in Texts, ~IsPrefix(<<"/", "/">>, path), NEW r \in Texts, r # <<>> => r[1] \in {"?", "#"}
    PROVE  ~IsPrefix(<<"/", "/">>, path \o r)
<1> SUFFICES ASSUME IsPrefix(<<"/", "/">>, path \o r) PROVE FALSE
  OBVIOUS
<1> DEFINE text == path \o r
<1>1. /\ text \in Texts /\ Len(text) = Len(path) + Len(r) /\ Len(path) \in Nat /\ Len(r) \in Nat
      /\ (\A m \in 1 .. Len(path) : text[m] = path[m]) /\ (\A m \in 1 .. Len(r) : text[Len(path) + m] = r[m])
  BY FirstOf DEF Texts
<1>2. Len(text) >= 2 /\ text[1] = "/" /\ text[2] = "/"
  BY <1>1, TwoBegin
<1> HIDE DEF text
<1>3. CASE Len(path) >= 2
  <2>1. 1 \in 1 .. Len(path) /\ 2 \in 1 .. Len(path)
    BY <1>1, <1>3
  <2>2. path[1] = "/" /\ path[2] = "/"
    BY <1>1, <1>2, <2>1
  <2> QED
    BY <1>3, <2>2, BeginWithTwo
<1>4. CASE Len(path) < 2
  <2>1. Len(r) # 0 /\ 1 \in 1 .. Len(r) /\ Len(path) + 1 \in {1, 2}
    BY <1>1, <1>2, <1>4
  <2>2. r # <<>> /\ r[1] = text[Len(path) + 1]
    BY <1>1, <2>1
  <2>3. r[1] = "/"
    BY <1>2, <2>1, <2>2
  <2> QED
    BY <2>2, <2>3
<1> QED
  BY <1>1, <1>3, <1>4

\* Where no scheme was written no colon makes one appear.
LEMMA NoSchemeWritten ==
    ASSUME NEW path \in Texts, NoScheme(path), NEW r \in Texts, r # <<>> => r[1] \in {"?", "#"}
    PROVE  NoScheme(path \o r)
<1> DEFINE text == path \o r
<1>1. /\ text \in Texts /\ Len(text) = Len(path) + Len(r) /\ Len(path) \in Nat /\ Len(r) \in Nat
      /\ (\A m \in 1 .. Len(path) : text[m] = path[m]) /\ (\A m \in 1 .. Len(r) : text[Len(path) + m] = r[m])
      /\ DOMAIN path = 1 .. Len(path)
  BY FirstOf DEF Texts
<1>2. DOMAIN text = 1 .. Len(path) + Len(r)
  BY <1>1 DEF Texts
<1> HIDE DEF text
<1>3. ASSUME NEW n \in 1 .. Len(path) + Len(r), text[n] = ":"
      PROVE  \E m \in 1 .. n - 1 : text[m] \in EndOfScheme \ {":"}
  <2>1. CASE n <= Len(path)
    <3>1. n \in 1 .. Len(path) /\ path[n] = ":"
      BY <1>1, <1>3, <2>1
    <3>2. PICK m \in 1 .. n - 1 : path[m] \in EndOfScheme \ {":"}
      BY <1>1, <3>1 DEF NoScheme
    <3>3. m \in 1 .. Len(path)
      BY <1>1, <3>1, <3>2
    <3> QED
      BY <1>1, <3>2, <3>3
  <2>2. CASE ~(n <= Len(path))
    <3>1. Len(r) # 0 /\ 1 \in 1 .. Len(r)
      BY <1>1, <2>2
    <3>2. r # <<>> /\ text[Len(path) + 1] = r[1]
      BY <1>1, <3>1
    <3>3. r[1] \in EndOfScheme \ {":"} /\ r[1] # ":"
      BY <3>2 DEF EndOfScheme
    <3>4. n # Len(path) + 1
      BY <1>3, <3>2, <3>3
    <3>5. Len(path) + 1 \in 1 .. n - 1
      BY <1>1, <2>2, <3>4
    <3> QED
      BY <3>2, <3>3, <3>5
  <2> QED
    BY <2>1, <2>2
<1> QED
  BY <1>2, <1>3 DEF NoScheme, text

\* A well-formed uri that is written comes apart into its components.
LEMMA UriComesApart ==
    ASSUME NEW u, WellFormed(u)
    PROVE  UriParse(Written(u)) = u
<1> DEFINE scheme1  == Part(<<>>, u.scheme, <<":">>)
           auth1    == Part(<<"/", "/">>, u.authority, <<>>)
           query1   == Part(<<"?">>, u.query, <<>>)
           r4       == Part(<<"#">>, u.fragment, <<>>)
           r3       == query1 \o r4
           r2       == u.path \o r3
           r1       == auth1 \o r2
           text     == scheme1 \o r1
           part     == CSpan(text, EndOfScheme)
           colon    == Accept(part.rest, <<":">>)
           tail     == BehindScheme(text)
           slashes  == Accept(tail, <<"/", "/">>)
           auth     == IF slashes.ok THEN CSpan(slashes.rest, {"/"}) ELSE Split(slashes.rest, 0)
           path     == CSpan(auth.rest, {"?", "#"})
           question == Accept(path.rest, <<"?">>)
           query    == IF question.ok THEN CSpan(question.rest, {"#"}) ELSE Split(path.rest, 0)
           hash     == Accept(query.rest, <<"#">>)
           login    == IF slashes.ok THEN Authority(auth.got) ELSE NoUri
           uri      == UriParse(text)
           foundS   == IF colon.ok THEN <<part.got>> ELSE <<>>
           foundA   == IF slashes.ok THEN <<auth.got>> ELSE <<>>
           foundQ   == IF question.ok THEN <<query.got>> ELSE <<>>
           foundF   == IF hash.ok THEN <<hash.rest>> ELSE <<>>
<1>1. uri = [scheme |-> foundS, authority |-> foundA, user |-> login.user, pass |-> login.pass, host |-> login.host,
             port |-> login.port, path |-> path.got, query |-> foundQ, fragment |-> foundF]
  BY DEF UriParse, EndOfScheme
<1>2. /\ u = [scheme |-> u.scheme, authority |-> u.authority, user |-> u.user, pass |-> u.pass, host |-> u.host,
              port |-> u.port, path |-> u.path, query |-> u.query, fragment |-> u.fragment]
      /\ Component(u.scheme, EndOfScheme) /\ Component(u.authority, {"/"})
      /\ u.path \in Texts /\ Free(u.path, {"?", "#"}) /\ Component(u.query, {"#"}) /\ Component(u.fragment, {})
  <2> HIDE DEF uri
  <2>1. WellFormed(u) => Component(u.scheme, EndOfScheme) /\ Without(u.path, {"?", "#"})
    BY DEF WellFormed, EndOfScheme
  <2>2. u.path \in Texts /\ Free(u.path, {"?", "#"})
    BY <2>1, WithoutIs
  <2> QED
    BY <2>1, <2>2 DEF WellFormed
<1>3. /\ u.authority # <<>> => IF u.path = <<>> THEN u.query = <<>> /\ u.fragment = <<>> ELSE u.path[1] = "/"
      /\ u.authority = <<>> =>
           /\ u.user = <<>> /\ u.pass = <<>> /\ u.host = <<>> /\ u.port = -1 /\ ~IsPrefix(<<"/", "/">>, u.path)
           /\ u.scheme = <<>> => \A n \in DOMAIN u.path : u.path[n] = ":" => \E m \in 1 .. n - 1 : u.path[m] = "/"
  BY DEF WellFormed
<1>4. r4 \in Texts /\ (r4 # <<>> => r4[1] = "#")
  BY <1>2, FragmentComes
<1>5. u.fragment = <<>> => r4 = <<>>
  BY DEF Part
<1>6. u.query = <<>> => query1 = <<>>
  BY DEF Part
<1>7. query1 \in Texts /\ r3 \in Texts /\ (r3 # <<>> => r3[1] \in {"?", "#"})
  <2> HIDE DEF r4
  <2> QED
    BY <1>2, <1>4, QueryComes
<1>8. u.query = <<>> /\ u.fragment = <<>> => r3 = <<>>
  <2> HIDE DEF r4, query1
  <2> QED
    BY <1>5, <1>6, NoText
<1>9. r2 \in Texts
  BY <1>2, <1>7, FirstOf
<1>10. u.authority # <<>> => (r2 # <<>> => r2[1] = "/")
  <2> HIDE DEF r3
  <2>1. CASE u.path = <<>>
    BY <1>3, <1>7, <1>8, <2>1, NoText
  <2>2. CASE u.path # <<>>
    BY <1>2, <1>3, <1>7, <2>2, FirstCharOf
  <2> QED
    BY <2>1, <2>2
<1>11. u.authority = <<>> => ~IsPrefix(<<"/", "/">>, r2)
  <2> HIDE DEF r3
  <2> QED
    BY <1>2, <1>3, <1>7, NoAuthority
<1>12. auth1 \in Texts /\ r1 \in Texts
  <2>1. auth1 \in Texts
    <3> HIDE DEF r2
    <3> QED
      BY <1>2, <1>9, <1>10, <1>11, AuthorityComes
  <2> QED
    BY <1>9, <2>1, FirstOf
<1>13. u.scheme = <<>> => NoScheme(r1)
  <2> SUFFICES ASSUME u.scheme = <<>> PROVE NoScheme(r1)
    OBVIOUS
  <2>1. CASE u.authority = <<>>
    <3>1. auth1 = <<>>
      BY <2>1 DEF Part
    <3>2. r1 = r2
      <4> HIDE DEF auth1, r2
      <4> QED
        BY <1>9, <3>1, NoText
    <3>3. NoScheme(u.path)
      BY <1>3, <2>1 DEF NoScheme, EndOfScheme
    <3>4. NoScheme(r2)
      <4> HIDE DEF r3
      <4> QED
        BY <1>2, <1>7, <3>3, NoSchemeWritten
    <3> HIDE DEF r1, r2
    <3> QED
      BY <3>2, <3>4
  <2>2. CASE u.authority # <<>>
    <3> DEFINE two == <<"/", "/">>
               a == u.authority[1]
    <3>1. a \in Texts
      BY <1>2, <2>2, ComponentIs
    <3>2. auth1 = two \o a \o <<>>
      BY <2>2 DEF Part
    <3>3. two \in Texts /\ two # <<>> /\ two[1] = "/"
      BY Marks
    <3> HIDE DEF two, a, auth1, r2
    <3>4. two \o a \in Texts /\ two \o a # <<>> /\ (two \o a)[1] = "/"
      BY <3>1, <3>3, FirstCharOf, FirstOf
    <3>5. auth1 # <<>> /\ auth1[1] = "/"
      BY <3>2, <3>4, NoText
    <3>6. r1[1] = "/"
      BY <1>9, <1>12, <3>5, FirstCharOf
    <3>7. ASSUME NEW n \in DOMAIN r1, r1[n] = ":" PROVE \E m \in 1 .. n - 1 : r1[m] \in EndOfScheme \ {":"}
      <4>1. DOMAIN r1 = 1 .. Len(r1) /\ Len(r1) \in Nat
        BY <1>12 DEF Texts
      <4>2. n # 1
        BY <3>6, <3>7
      <4> HIDE DEF r1
      <4>3. 1 \in 1 .. n - 1
        BY <4>1, <4>2
      <4> QED
        BY <3>6, <4>3 DEF EndOfScheme
    <3> HIDE DEF r1
    <3> QED
      BY <3>7 DEF NoScheme
  <2> QED
    BY <2>1, <2>2
<1>14. Written(u) = text
  <2> HIDE DEF scheme1, auth1, query1, r4
  <2>1. scheme1 \in Texts
    <3> HIDE DEF r1
    <3> QED
      BY <1>2, <1>12, <1>13, SchemeComes DEF scheme1
  <2>2. Written(u) = scheme1 \o auth1 \o u.path \o query1 \o r4
    BY DEF Written, scheme1, auth1, query1, r4
  <2> DEFINE p == u.path
  <2>3. scheme1 \in Texts /\ auth1 \in Texts /\ p \in Texts /\ query1 \in Texts /\ r4 \in Texts
    BY <1>2, <1>4, <1>7, <1>12, <2>1
  <2> HIDE DEF p, r3, r2, r1
  <2>4. Five(scheme1, auth1, p, query1, r4) = scheme1 \o (auth1 \o (p \o (query1 \o r4)))
    <3>1. \A a, b, c, d, e \in Texts : Five(a, b, c, d, e) = a \o (b \o (c \o (d \o e)))
      BY FiveTexts
    <3>2. \A b, c, d, e \in Texts : Five(scheme1, b, c, d, e) = scheme1 \o (b \o (c \o (d \o e)))
      BY <2>3, <3>1
    <3>3. \A c, d, e \in Texts : Five(scheme1, auth1, c, d, e) = scheme1 \o (auth1 \o (c \o (d \o e)))
      BY <2>3, <3>2
    <3>4. \A d, e \in Texts : Five(scheme1, auth1, p, d, e) = scheme1 \o (auth1 \o (p \o (d \o e)))
      BY <2>3, <3>3
    <3>5. \A e \in Texts : Five(scheme1, auth1, p, query1, e) = scheme1 \o (auth1 \o (p \o (query1 \o e)))
      BY <2>3, <3>4
    <3> QED
      BY <2>3, <3>5
  <2> QED
    BY <2>2, <2>4 DEF p, r3, r2, r1, Five
<1> HIDE DEF uri
<1> HIDE DEF r1
<1>15. tail = r1 /\ foundS = u.scheme
  BY <1>2, <1>12, <1>13, SchemeComes
<1> HIDE DEF tail, foundS, r2
<1>16. /\ slashes.ok = (u.authority # <<>>) /\ auth.rest = r2
       /\ u.authority # <<>> => u.authority = <<auth.got>>
  <2>1. r1 = auth1 \o r2
    BY DEF r1
  <2>2. LET s == Accept(auth1 \o r2, <<"/", "/">>)
            a == IF s.ok THEN CSpan(s.rest, {"/"}) ELSE Split(s.rest, 0)
        IN  /\ s.ok = (u.authority # <<>>) /\ a.rest = r2
            /\ u.authority # <<>> => u.authority = <<a.got>>
    BY <1>2, <1>9, <1>10, <1>11, AuthorityComes
  <2> QED
    BY <1>15, <2>1, <2>2
<1>17. foundA = u.authority
  BY <1>16
<1>18. login.user = u.user /\ login.pass = u.pass /\ login.host = u.host /\ login.port = u.port
  <2>1. CASE u.authority = <<>>
    <3>1. login = NoUri
      BY <1>16, <2>1
    <3> HIDE DEF login
    <3> QED
      BY <1>3, <2>1, <3>1 DEF NoUri
  <2>2. CASE u.authority # <<>>
    <3>1. auth.got = u.authority[1]
      <4> DEFINE g == auth.got
      <4>1. u.authority = <<g>>
        BY <1>16, <2>2
      <4> HIDE DEF g
      <4>2. u.authority[1] = g
        BY <4>1
      <4> QED
        BY <4>2 DEF g
    <3>2. login = Authority(auth.got)
      BY <1>16, <2>2
    <3> HIDE DEF login, auth
    <3>3. login = [user |-> u.user, pass |-> u.pass, host |-> u.host, port |-> u.port]
      BY <2>2, <3>1, <3>2, AuthorityTextComes
    <3> QED
      BY <3>3
  <2> QED
    BY <2>1, <2>2
<1> HIDE DEF login, foundA
<1>19. path.got = u.path /\ path.rest = r3
  <2> HIDE DEF r3
  <2>1. CSpan(u.path \o r3, {"?", "#"}).got = u.path /\ CSpan(u.path \o r3, {"?", "#"}).rest = r3
    BY <1>2, <1>7, CSpanOf
  <2>2. r2 = u.path \o r3
    BY DEF r2
  <2> HIDE DEF slashes, auth
  <2> QED
    BY <1>16, <2>1, <2>2
<1> HIDE DEF path
<1>20. foundQ = u.query /\ query.rest = r4
  <2> HIDE DEF r4
  <2>1. LET q == Accept(query1 \o r4, <<"?">>)
            f == IF q.ok THEN CSpan(q.rest, {"#"}) ELSE Split(query1 \o r4, 0)
        IN  (IF q.ok THEN <<f.got>> ELSE <<>>) = u.query /\ f.rest = r4
    BY <1>2, <1>4, QueryComes
  <2> QED
    BY <1>19, <2>1
<1> HIDE DEF foundQ, query
<1>21. foundF = u.fragment
  BY <1>2, <1>20, FragmentComes
<1> HIDE DEF foundF
<1>22. uri = u
  BY <1>1, <1>2, <1>15, <1>17, <1>18, <1>19, <1>20, <1>21
<1> QED
  BY <1>14, <1>22 DEF uri

\* Of a text of any length and characters nothing is lost by uri_parse, and a uri that
\* is well-formed comes apart into what it was put together from.
THEOREM UrisAreRead == TextSpec => []UriIsRead
<1> DEFINE Parsed == /\ asked.kind = "uri" => asked.uri \in Uris /\ answer = UriParse(Written(asked.uri))
                     /\ asked.kind = "text" => asked.text \in Texts /\ answer = UriParse(asked.text)
<1>1. TextInit => Parsed
  BY DEF TextInit
<1>2. Parsed /\ [TextNext]_textVars => Parsed'
  <2> SUFFICES ASSUME Parsed, [TextNext]_textVars PROVE Parsed'
    OBVIOUS
  <2>1. CASE ParseUri
    <3>1. CASE \E u \in Uris : asked' = [kind |-> "uri", uri |-> u] /\ answer' = UriParse(Written(u))
      <4>1. PICK u \in Uris : asked' = [kind |-> "uri", uri |-> u] /\ answer' = UriParse(Written(u))
        BY <3>1
      <4> QED
        BY <4>1
    <3>2. CASE \E text \in AnyText : asked' = [kind |-> "text", text |-> text] /\ answer' = UriParse(text)
      <4>1. PICK text \in AnyText : asked' = [kind |-> "text", text |-> text] /\ answer' = UriParse(text)
        BY <3>2
      <4>2. text \in Texts
        BY TextAssumption DEF Texts
      <4> QED
        BY <4>1, <4>2
    <3> QED
      BY <2>1, <3>1, <3>2 DEF ParseUri
  <2>2. CASE SumUp \/ ReadNumber \/ ReadDecimal \/ ParseAddress
    <3>1. asked'.kind \notin {"uri", "text"}
      BY <2>2 DEF SumUp, ReadNumber, ReadDecimal, ParseAddress
    <3> QED
      BY <3>1
  <2>3. CASE UNCHANGED textVars
    BY <2>3 DEF textVars
  <2> QED
    BY <2>1, <2>2, <2>3 DEF TextNext
<1>3. Parsed => UriIsRead
  <2> SUFFICES ASSUME Parsed PROVE UriIsRead
    OBVIOUS
  <2>1. ASSUME asked.kind = "uri" PROVE answer = asked.uri
    <3>1. WellFormed(asked.uri)
      BY <2>1, UrisAssumption
    <3> QED
      BY <2>1, <3>1, UriComesApart
  <2>2. ASSUME asked.kind = "text", ~Contains(asked.text, NUL) PROVE Written(answer) = asked.text
    <3>1. asked.text \in Texts /\ answer = UriParse(asked.text)
      BY <2>2
    <3>2. NoZero(asked.text)
      <4>1. DOMAIN asked.text = 1 .. Len(asked.text)
        BY <3>1 DEF Texts
      <4> QED
        BY <2>2, <4>1 DEF Contains, NoZero
    <3> QED
      BY <3>1, <3>2, NothingIsLost
  <2> QED
    BY <2>1, <2>2 DEF UriIsRead
<1> QED
  BY <1>1, <1>2, <1>3, PTL DEF TextSpec

=============================================================================
