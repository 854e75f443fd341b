----------------------------- MODULE Crc8Proofs -----------------------------
(***************************************************************************)
(* What the CRC notices, for data of any length: it is linear, so what     *)
(* matters is the pattern of the wrong bits, and the loop never turns a    *)
(* CRC that is not 0 into 0.                                               *)
(***************************************************************************)
EXTENDS Crc8, WellFoundedInduction, TLAPS

-----------------------------------------------------------------------------
\* Induction over the numbers, on sets: every number is in S.
Less == {ss \in Nat \X Nat : ss[1] < ss[2]}

LEMMA LessWellFounded == IsWellFoundedOn(Less, Nat)
BY NatLessThanWellFounded, Zenon DEF OpToRel, Less

LEMMA LeastNumber ==
  ASSUME NEW T \in SUBSET Nat, T # {}
  PROVE  \E m \in T : \A k \in T : m <= k
<1>1. PICK m \in T : \A k \in T : <<k, m>> \notin Less
  BY LessWellFounded, WFMin
<1>2. ASSUME NEW k \in T
      PROVE  m <= k
  <2>1. m \in Nat /\ k \in Nat /\ ~(k < m)
    BY <1>1, <1>2 DEF Less
  <2>2. QED BY <2>1
<1>3. QED BY <1>2

LEMMA Induction ==
  ASSUME NEW S, 0 \in S, \A n \in Nat : n \in S => n + 1 \in S
  PROVE  Nat \subseteq S
<1>1. SUFFICES ASSUME Nat \ S # {} PROVE FALSE
  OBVIOUS
<1>2. PICK m \in Nat \ S : \A k \in Nat \ S : m <= k
  BY <1>1, LeastNumber
<1>3. m # 0 /\ m - 1 \in Nat
  BY <1>2
<1>4. m - 1 \in S
  BY <1>2, <1>3
<1>5. (m - 1) + 1 \in S
  BY <1>3, <1>4
<1>6. QED BY <1>2, <1>3, <1>5

-----------------------------------------------------------------------------
\* One turn of the loop.
LEMMA XorType ==
  ASSUME NEW a \in Byte, NEW b \in Byte
  PROVE  Xor(a, b) \in Byte
BY DEF Xor, Byte

LEMMA ShiftIs ==
  ASSUME NEW a \in Byte
  PROVE  /\ ShiftRight(a) \in Byte /\ 7 \notin ShiftRight(a)
         /\ \A j \in 0 .. 6 : j \in ShiftRight(a) <=> j + 1 \in a
BY DEF ShiftRight, Byte

LEMMA CrcBitType ==
  ASSUME NEW c \in Byte
  PROVE  CrcBit(c) \in Byte
<1>1. ShiftRight(c) \in Byte /\ Polynomial \in Byte
  BY ShiftIs DEF Polynomial, Byte
<1>2. QED BY <1>1, XorType DEF CrcBit

\* A turn keeps what is not 0 from becoming 0 ...
LEMMA CrcBitNotZero ==
  ASSUME NEW c \in Byte, c # {}
  PROVE  CrcBit(c) # {}
<1>1. ShiftRight(c) \in Byte /\ Polynomial \in Byte
  BY ShiftIs DEF Polynomial, Byte
<1>2. CASE 0 \in c
  <2>1. 7 \in Xor(ShiftRight(c), Polynomial)
    BY ShiftIs DEF Xor, Polynomial
  <2>2. QED BY <1>1, <1>2, <2>1, XorType DEF CrcBit
<1>3. CASE 0 \notin c
  <2>1. PICK i \in 0 .. 7 : i \in c /\ i # 0
    BY <1>3 DEF Byte
  <2>2. i - 1 \in ShiftRight(c)
    BY <2>1, ShiftIs
  <2>3. QED BY <1>3, <2>2 DEF CrcBit
<1>4. QED BY <1>2, <1>3

\* ... and goes bit by bit.
LEMMA CrcBitLinear ==
  ASSUME NEW a \in Byte, NEW b \in Byte
  PROVE  CrcBit(Xor(a, b)) = Xor(CrcBit(a), CrcBit(b))
<1>1. /\ Xor(a, b) \in Byte /\ Polynomial \in Byte
      /\ ShiftRight(a) \in Byte /\ ShiftRight(b) \in Byte
      /\ ShiftRight(Xor(a, b)) \in Byte
  <2>1. Xor(a, b) \in Byte
    BY XorType
  <2>2. Polynomial \in Byte
    BY DEF Polynomial, Byte
  <2>3. QED BY <2>1, <2>2, ShiftIs
<1>2. ShiftRight(Xor(a, b)) = Xor(ShiftRight(a), ShiftRight(b))
  <2>1. \A j \in 0 .. 6 : j \in ShiftRight(Xor(a, b)) <=>
                            j \in Xor(ShiftRight(a), ShiftRight(b))
    BY <1>1, ShiftIs DEF Xor
  <2>2. 7 \notin ShiftRight(Xor(a, b)) /\ 7 \notin Xor(ShiftRight(a), ShiftRight(b))
    BY <1>1, ShiftIs DEF Xor
  <2>3. Xor(ShiftRight(a), ShiftRight(b)) \in Byte
    BY <1>1, XorType
  <2>4. QED BY <1>1, <2>1, <2>2, <2>3 DEF Byte
<1>3. /\ CrcBit(a) = IF 0 \in a THEN Xor(ShiftRight(a), Polynomial)
                     ELSE ShiftRight(a)
      /\ CrcBit(b) = IF 0 \in b THEN Xor(ShiftRight(b), Polynomial)
                     ELSE ShiftRight(b)
      /\ CrcBit(Xor(a, b)) =
           IF 0 \in Xor(a, b)
           THEN Xor(Xor(ShiftRight(a), ShiftRight(b)), Polynomial)
           ELSE Xor(ShiftRight(a), ShiftRight(b))
  BY <1>1, <1>2, XorType DEF CrcBit
<1>4. 0 \in Xor(a, b) <=> ~(0 \in a <=> 0 \in b)
  BY DEF Xor
<1>5. \A x, y, z : /\ Xor(Xor(x, y), z) = Xor(Xor(x, z), y)
                   /\ Xor(Xor(x, y), z) = Xor(x, Xor(y, z))
                   /\ Xor(Xor(x, z), Xor(y, z)) = Xor(x, y)
  BY DEF Xor
<1>6. QED BY <1>3, <1>4, <1>5

-----------------------------------------------------------------------------
\* The eight turns of a byte.
Turns(x) == Twice[Twice[Twice[Twice[x]]]]

LEMMA TwiceIs ==
  ASSUME NEW c \in Byte
  PROVE  /\ Twice[c] \in Byte
         /\ c # {} => Twice[c] # {}
<1>1. CrcBit(c) \in Byte /\ CrcBit(CrcBit(c)) \in Byte
  BY CrcBitType
<1>2. Twice[c] = CrcBit(CrcBit(c))
  BY DEF Twice
<1>3. QED BY <1>1, <1>2, CrcBitNotZero

LEMMA TwiceLinear ==
  ASSUME NEW a \in Byte, NEW b \in Byte
  PROVE  Twice[Xor(a, b)] = Xor(Twice[a], Twice[b])
<1>1. /\ Xor(a, b) \in Byte /\ CrcBit(a) \in Byte /\ CrcBit(b) \in Byte
  BY XorType, CrcBitType
<1>2. CrcBit(CrcBit(Xor(a, b))) = Xor(CrcBit(CrcBit(a)), CrcBit(CrcBit(b)))
  BY <1>1, CrcBitLinear
<1>3. QED BY <1>1, <1>2 DEF Twice

LEMMA TurnsType ==
  ASSUME NEW c \in Byte
  PROVE  /\ Turns(c) \in Byte
         /\ c # {} => Turns(c) # {}
BY TwiceIs DEF Turns

LEMMA TurnsLinear ==
  ASSUME NEW a \in Byte, NEW b \in Byte
  PROVE  Turns(Xor(a, b)) = Xor(Turns(a), Turns(b))
BY TwiceIs, TwiceLinear DEF Turns

LEMMA TurnsOfZero == Turns({}) = {}
<1>1. {} \in Byte /\ Xor({}, {}) = {}
  BY DEF Byte, Xor
<1>2. Turns({}) = Xor(Turns({}), Turns({}))
  BY <1>1, TurnsLinear
<1>3. QED BY <1>2 DEF Xor

-----------------------------------------------------------------------------
\* The loop over the bytes: the recursion of Crc has a solution, a byte at
\* every place.
CrcLoop(crc, data, n) ==
  crc = [i \in 0 .. n |-> IF i = 0 THEN {} ELSE Turns(Xor(crc[i - 1], data[i]))]

LEMMA CrcLoopExists ==
  ASSUME NEW data
  PROVE  \A n \in Nat : \E crc : CrcLoop(crc, data, n)
<1>. DEFINE S == {n \in Nat : \E crc : CrcLoop(crc, data, n)}
<1>1. 0 \in S
  <2>1. CrcLoop([i \in 0 .. 0 |-> {}], data, 0)
    BY DEF CrcLoop
  <2>2. QED BY <2>1
<1>2. ASSUME NEW n \in Nat, n \in S
      PROVE  n + 1 \in S
  <2>1. PICK crc : CrcLoop(crc, data, n)
    BY <1>2
  <2>. DEFINE next == [i \in 0 .. n + 1 |->
                        IF i = n + 1 THEN Turns(Xor(crc[n], data[n + 1]))
                        ELSE crc[i]]
  <2>2. \A i \in 0 .. n : crc[i] = IF i = 0 THEN {}
                                  ELSE Turns(Xor(crc[i - 1], data[i]))
    BY <2>1 DEF CrcLoop
  <2>3. ASSUME NEW i \in 0 .. n + 1
        PROVE  next[i] = IF i = 0 THEN {} ELSE Turns(Xor(next[i - 1], data[i]))
    BY <2>2
  <2>4. CrcLoop(next, data, n + 1)
    BY <2>3 DEF CrcLoop
  <2>5. QED BY <2>4
<1>3. Nat \subseteq S
  <2>. HIDE DEF S
  <2>. QED BY <1>1, <1>2, Induction
<1>4. QED BY <1>3

LEMMA CrcIsLoop ==
  ASSUME NEW n \in Nat, NEW data
  PROVE  \E crc : CrcLoop(crc, data, n) /\ Crc(data, n) = crc[n]
<1>. DEFINE crc == CHOOSE f : CrcLoop(f, data, n)
<1>1. CrcLoop(crc, data, n)
  BY CrcLoopExists
<1>2. Crc(data, n) = crc[n]
  BY DEF Crc, CrcLoop, UpdateCRC, Turns
<1>3. QED BY <1>1, <1>2

LEMMA CrcLoopUnique ==
  ASSUME NEW data, NEW m \in Nat, NEW n \in Nat, m <= n,
         NEW f, CrcLoop(f, data, m), NEW g, CrcLoop(g, data, n)
  PROVE  \A i \in 0 .. m : f[i] = g[i]
<1>. DEFINE S == {i \in Nat : i <= m => f[i] = g[i]}
<1>1. /\ \A i \in 0 .. m : f[i] = IF i = 0 THEN {}
                                ELSE Turns(Xor(f[i - 1], data[i]))
      /\ \A i \in 0 .. n : g[i] = IF i = 0 THEN {}
                                ELSE Turns(Xor(g[i - 1], data[i]))
  BY DEF CrcLoop
<1>2. 0 \in S
  BY <1>1
<1>3. ASSUME NEW i \in Nat, i \in S
      PROVE  i + 1 \in S
  BY <1>1, <1>3
<1>4. Nat \subseteq S
  <2>. HIDE DEF S
  <2>. QED BY <1>2, <1>3, Induction
<1>5. QED BY <1>4

\* What modOneWireUpdateCRC adds to the CRC of the bytes before.
LEMMA CrcStep ==
  ASSUME NEW data
  PROVE  /\ Crc(data, 0) = {}
         /\ \A n \in Nat : Crc(data, n + 1) = Turns(Xor(Crc(data, n), data[n + 1]))
<1>1. Crc(data, 0) = {}
  <2>1. PICK f : CrcLoop(f, data, 0) /\ Crc(data, 0) = f[0]
    BY CrcIsLoop
  <2>2. QED BY <2>1 DEF CrcLoop
<1>2. ASSUME NEW n \in Nat
      PROVE  Crc(data, n + 1) = Turns(Xor(Crc(data, n), data[n + 1]))
  <2>1. PICK f : CrcLoop(f, data, n) /\ Crc(data, n) = f[n]
    BY CrcIsLoop
  <2>2. PICK g : CrcLoop(g, data, n + 1) /\ Crc(data, n + 1) = g[n + 1]
    BY CrcIsLoop
  <2>3. f[n] = g[n]
    BY <2>1, <2>2, CrcLoopUnique
  <2>4. g[n + 1] = Turns(Xor(g[n], data[n + 1]))
    BY <2>2 DEF CrcLoop
  <2>5. QED BY <2>1, <2>2, <2>3, <2>4
<1>3. QED BY <1>1, <1>2

Data(n) == [1 .. n -> Byte]

LEMMA CrcType ==
  ASSUME NEW n \in Nat, NEW data \in Data(n)
  PROVE  \A m \in 0 .. n : Crc(data, m) \in Byte
<1>. DEFINE S == {m \in Nat : m <= n => Crc(data, m) \in Byte}
<1>1. 0 \in S
  BY CrcStep DEF Byte
<1>2. ASSUME NEW m \in Nat, m \in S
      PROVE  m + 1 \in S
  <2>1. SUFFICES ASSUME m + 1 <= n PROVE Crc(data, m + 1) \in Byte
    OBVIOUS
  <2>2. Crc(data, m) \in Byte /\ data[m + 1] \in Byte
    BY <1>2, <2>1 DEF Data
  <2>3. QED BY <2>2, CrcStep, XorType, TurnsType
<1>3. Nat \subseteq S
  <2>. HIDE DEF S
  <2>. QED BY <1>1, <1>2, Induction
<1>4. QED BY <1>3

-----------------------------------------------------------------------------
\* The bits that two data differ in.
Pattern(a, b, n) == [k \in 1 .. n |-> Xor(a[k], b[k])]

LEMMA PatternType ==
  ASSUME NEW n \in Nat, NEW a \in Data(n), NEW b \in Data(n)
  PROVE  Pattern(a, b, n) \in Data(n)
BY XorType DEF Pattern, Data

\* The CRC is linear: that of wrong data differs from that of the right ones
\* by the CRC of the bits that are wrong.
THEOREM CrcLinear ==
  ASSUME NEW n \in Nat, NEW a \in Data(n), NEW b \in Data(n)
  PROVE  \A m \in 0 .. n :
           Crc(Pattern(a, b, n), m) = Xor(Crc(a, m), Crc(b, m))
<1>. DEFINE p == Pattern(a, b, n)
            S == {m \in Nat : m <= n => Crc(p, m) = Xor(Crc(a, m), Crc(b, m))}
<1>1. 0 \in S
  <2>1. Xor({}, {}) = {}
    BY DEF Xor
  <2>2. QED BY <2>1, CrcStep
<1>2. ASSUME NEW m \in Nat, m \in S
      PROVE  m + 1 \in S
  <2>1. SUFFICES ASSUME m + 1 <= n
                 PROVE  Crc(p, m + 1) = Xor(Crc(a, m + 1), Crc(b, m + 1))
    OBVIOUS
  <2>. DEFINE x == Crc(a, m)
              y == Crc(b, m)
  <2>2. /\ x \in Byte /\ y \in Byte
        /\ a[m + 1] \in Byte /\ b[m + 1] \in Byte
        /\ p[m + 1] = Xor(a[m + 1], b[m + 1])
    BY <2>1, CrcType DEF Data, Pattern
  <2>3. Crc(p, m) = Xor(x, y)
    BY <1>2, <2>1
  <2>4. \A u, v, w, z : Xor(Xor(u, v), Xor(w, z)) = Xor(Xor(u, w), Xor(v, z))
    BY DEF Xor
  <2>5. Crc(p, m + 1) = Turns(Xor(Xor(x, a[m + 1]), Xor(y, b[m + 1])))
    BY <2>2, <2>3, <2>4, CrcStep
  <2>6. Xor(x, a[m + 1]) \in Byte /\ Xor(y, b[m + 1]) \in Byte
    BY <2>2, XorType
  <2>7. QED BY <2>5, <2>6, CrcStep, TurnsLinear
<1>3. Nat \subseteq S
  <2>. HIDE DEF S
  <2>. QED BY <1>1, <1>2, Induction
<1>4. QED BY <1>3

LEMMA CrcOfZeros ==
  ASSUME NEW n \in Nat, NEW data, \A k \in 1 .. n : data[k] = {}
  PROVE  Crc(data, n) = {}
<1>. DEFINE S == {m \in Nat : m <= n => Crc(data, m) = {}}
<1>1. 0 \in S
  BY CrcStep
<1>2. ASSUME NEW m \in Nat, m \in S
      PROVE  m + 1 \in S
  <2>1. Xor({}, {}) = {}
    BY DEF Xor
  <2>2. SUFFICES ASSUME m + 1 <= n PROVE Crc(data, m + 1) = {}
    OBVIOUS
  <2>3. Crc(data, m) = {} /\ data[m + 1] = {}
    BY <1>2, <2>2
  <2>4. Crc(data, m + 1) = Turns(Xor(Crc(data, m), data[m + 1]))
    BY CrcStep
  <2>5. QED BY <2>1, <2>3, <2>4, TurnsOfZero
<1>3. Nat \subseteq S
  <2>. HIDE DEF S
  <2>. QED BY <1>1, <1>2, Induction
<1>4. QED BY <1>3

\* Bits that are wrong within one byte are noticed, at any distance from the
\* end: what is not 0 after that byte does not become 0 any more.
THEOREM CrcNoticesByte ==
  ASSUME NEW n \in Nat, NEW p \in Data(n), NEW k \in 1 .. n, p[k] # {},
         \A j \in 1 .. n : j # k => p[j] = {}
  PROVE  Crc(p, n) # {}
<1>. DEFINE S == {d \in Nat : k + d <= n => Crc(p, k + d) # {}}
<1>1. 0 \in S
  <2>1. Crc(p, k - 1) = {}
    BY CrcOfZeros
  <2>2. Xor({}, p[k]) = p[k] /\ p[k] \in Byte
    BY DEF Xor, Data
  <2>3. Crc(p, (k - 1) + 1) = Turns(p[k])
    BY <2>1, <2>2, CrcStep
  <2>4. QED BY <2>2, <2>3, TurnsType
<1>2. ASSUME NEW d \in Nat, d \in S
      PROVE  d + 1 \in S
  <2>1. SUFFICES ASSUME k + d + 1 <= n PROVE Crc(p, k + d + 1) # {}
    OBVIOUS
  <2>2. Crc(p, k + d) # {} /\ Crc(p, k + d) \in Byte
    BY <1>2, <2>1, CrcType
  <2>3. Xor(Crc(p, k + d), p[k + d + 1]) = Crc(p, k + d)
    BY <2>1 DEF Xor
  <2>4. QED BY <2>2, <2>3, CrcStep, TurnsType
<1>3. Nat \subseteq S
  <2>. HIDE DEF S
  <2>. QED BY <1>1, <1>2, Induction
<1>4. n - k \in S
  BY <1>3
<1>5. QED BY <1>4
=============================================================================
