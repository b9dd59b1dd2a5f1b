--------------------------- MODULE ScannerProofs ---------------------------
(***************************************************************************)
(* Proofs about what reads text: the header scan of the server, for any    *)
(* lengths of lines, and the URL parser of the load generator.             *)
(***************************************************************************)
EXTENDS MCScanners, FiniteSetTheorems, WellFoundedInduction, TLAPS

(* Induction on the naturals, for sets.                                    *)
Below == {e \in Nat \X Nat : e[1] < e[2]}

LEMMA BelowWellFounded == IsWellFoundedOn(Below, Nat)
BY Zenon, NatLessThanWellFounded DEF OpToRel, Below

LEMMA Inductive ==
  ASSUME NEW S, 0 \in S, \A n \in Nat : n \in S => n + 1 \in S
  PROVE  Nat \subseteq S
<1> DEFINE T == Nat \ S
<1> SUFFICES ASSUME T # {} PROVE FALSE
  OBVIOUS
<1>1. PICK x \in T : \A y \in T : ~(<<y, x>> \in Below)
  <2>1. T \subseteq Nat
    OBVIOUS
  <2> HIDE DEF T
  <2> QED BY <2>1, BelowWellFounded, WFMin
<1>2. x # 0 /\ x - 1 \in Nat
  BY <1>1
<1>3. x - 1 \notin T
  <2>1. x \in Nat /\ x - 1 < x
    BY <1>2
  <2>2. <<x - 1, x>> \in Below
    BY <1>2, <2>1 DEF Below
  <2> QED BY <1>1, <2>2
<1> QED BY <1>2, <1>3

(* What each value of a sequence hands on to the next, all have.           *)
LEMMA Inherited ==
  ASSUME NEW T, NEW n \in Nat, NEW h, h[0] \in T,
         \A i \in 1 .. n : h[i - 1] \in T => h[i] \in T
  PROVE  \A i \in 0 .. n : h[i] \in T
<1> DEFINE A == {i \in Nat : i <= n => h[i] \in T}
<1>1. 0 \in A
  OBVIOUS
<1>2. ASSUME NEW i \in Nat, i \in A
      PROVE  i + 1 \in A
  <2> SUFFICES ASSUME i + 1 <= n PROVE h[i + 1] \in T
    OBVIOUS
  <2>1. h[i] \in T
    BY <1>2
  <2>2. i + 1 \in 1 .. n /\ (i + 1) - 1 = i
    OBVIOUS
  <2> QED BY <2>1, <2>2
<1>3. Nat \subseteq A
  <2> HIDE DEF A
  <2> QED BY <1>1, <1>2, Inductive
<1> QED BY <1>3

(* A value can be carried along a sequence of any length.                  *)
Carried(z, F, n, h) == h[0] = z /\ \A i \in 1 .. n : h[i] = F[i][h[i - 1]]

LEMMA CarriedExists ==
  ASSUME NEW T, NEW n \in Nat, NEW z \in T, NEW F \in [1 .. n -> [T -> T]]
  PROVE  \E h \in [0 .. n -> T] : Carried(z, F, n, h)
<1> DEFINE E == {k \in Nat : k <= n => \E h \in [0 .. k -> T] : Carried(z, F, k, h)}
<1>1. 0 \in E
  <2> DEFINE h == [i \in 0 .. 0 |-> z]
  <2>1. h \in [0 .. 0 -> T] /\ Carried(z, F, 0, h)
    BY DEF Carried
  <2> QED BY <2>1
<1>2. ASSUME NEW k \in Nat, k \in E
      PROVE  k + 1 \in E
  <2> SUFFICES ASSUME k + 1 <= n
               PROVE  \E h \in [0 .. k + 1 -> T] : Carried(z, F, k + 1, h)
    OBVIOUS
  <2>1. PICK h \in [0 .. k -> T] : Carried(z, F, k, h)
    BY <1>2
  <2> DEFINE v == F[k + 1][h[k]]
             f == [i \in 0 .. k + 1 |-> IF i = k + 1 THEN v ELSE h[i]]
  <2>2. v \in T
    <3>1. h[k] \in T
      BY <2>1
    <3>2. F[k + 1] \in [T -> T]
      OBVIOUS
    <3> QED BY <3>1, <3>2
  <2>3. f \in [0 .. k + 1 -> T] /\ f[k + 1] = v /\ \A i \in 0 .. k : f[i] = h[i]
    BY <2>1, <2>2
  <2> HIDE DEF f
  <2>4. f[0] = z
    BY <2>1, <2>3 DEF Carried
  <2>5. ASSUME NEW i \in 1 .. k + 1
        PROVE  f[i] = F[i][f[i - 1]]
    <3>1. CASE i = k + 1
      BY <2>3, <3>1
    <3>2. CASE i # k + 1
      <4>1. i \in 1 .. k /\ i \in 0 .. k /\ i - 1 \in 0 .. k
        BY <3>2
      <4>2. h[i] = F[i][h[i - 1]]
        BY <2>1, <4>1 DEF Carried
      <4> QED BY <2>3, <4>1, <4>2
    <3> QED BY <3>1, <3>2
  <2> QED BY <2>3, <2>4, <2>5 DEF Carried
<1>3. Nat \subseteq E
  <2> HIDE DEF E
  <2> QED BY <1>1, <1>2, Inductive
<1> QED BY <1>3
-----------------------------------------------------------------------------
(* The header scan.  Where the lines begin, and what the Connection fields *)
(* of the first lines say.                                                 *)
Lines == Seq(Header!Line)
BeginsAs(ls, b) ==
  b = [i \in 1 .. Len(ls) + 1 |-> IF i = 1 THEN 2 ELSE b[i - 1] + ls[i - 1].len]
Starts(ls, b) ==
  /\ b[1] = 2 /\ \A i \in 1 .. Len(ls) + 1 : b[i] \in Nat
  /\ \A i \in 1 .. Len(ls) : b[i + 1] = b[i] + ls[i].len
SaysAs(ls, k, f) ==
  f = [i \in 0 .. Len(ls) |->
         IF i = 0 THEN k
         ELSE IF ls[i].at = 0 THEN Header!Apply(ls[i].val, f[i - 1]) ELSE f[i - 1]]
Says(ls, k, f) ==
  /\ f[0] = k
  /\ \A i \in 1 .. Len(ls) :
       f[i] = IF ls[i].at = 0 THEN Header!Apply(ls[i].val, f[i - 1]) ELSE f[i - 1]

LEMMA LineIs ==
  ASSUME NEW ls \in Lines, NEW i \in 1 .. Len(ls)
  PROVE  /\ ls[i].len \in Nat \ {0} /\ ls[i].at \in Nat
         /\ ls[i].val \in {"none", "close", "keep-alive", "other"}
<1>1. ls[i] \in Header!Line
  BY DEF Lines
<1>2. Lens \subseteq Nat \ {0} /\ Ats \subseteq Nat
  BY ScannerAssumption DEF Header!HeaderConstants
<1> QED BY <1>1, <1>2 DEF Header!Line, Header!Values

LEMMA BeginsExists ==
  ASSUME NEW ls \in Lines
  PROVE  \E b : BeginsAs(ls, b)
<1> DEFINE n == Len(ls)
           F == [i \in 1 .. n |-> [v \in Nat |-> v + ls[i].len]]
<1>1. n \in Nat
  BY DEF Lines
<1>2. F \in [1 .. n -> [Nat -> Nat]]
  BY LineIs
<1>3. \A i \in 1 .. n : \A v \in Nat : F[i][v] = v + ls[i].len
  OBVIOUS
<1> HIDE DEF n, F
<1>4. PICK h \in [0 .. n -> Nat] : Carried(2, F, n, h)
  BY <1>1, <1>2, CarriedExists
<1> DEFINE b == [i \in 1 .. n + 1 |-> h[i - 1]]
<1>5. \A i \in 1 .. n + 1 : b[i] = h[i - 1]
  OBVIOUS
<1>6. b = [i \in 1 .. n + 1 |-> b[i]]
  OBVIOUS
<1> HIDE DEF b
<1>7. ASSUME NEW i \in 1 .. n + 1
      PROVE  b[i] = IF i = 1 THEN 2 ELSE b[i - 1] + ls[i - 1].len
  <2>1. CASE i = 1
    BY <1>1, <1>4, <1>5, <2>1 DEF Carried
  <2>2. CASE i # 1
    <3> DEFINE k == i - 1
    <3>1. k \in 1 .. n /\ k - 1 \in 0 .. n
      BY <1>1, <2>2
    <3> HIDE DEF k
    <3>2. h[k] = F[k][h[k - 1]] /\ h[k - 1] \in Nat
      BY <1>4, <3>1 DEF Carried
    <3>3. h[k] = h[k - 1] + ls[k].len
      BY <1>3, <3>1, <3>2
    <3>4. k \in 1 .. n + 1
      BY <1>1, <3>1
    <3>5. b[k] = h[k - 1] /\ b[i] = h[k]
      BY <1>5, <3>4 DEF k
    <3> QED BY <2>2, <3>3, <3>5 DEF k
  <2> QED BY <2>1, <2>2
<1>8. b = [i \in 1 .. n + 1 |-> IF i = 1 THEN 2 ELSE b[i - 1] + ls[i - 1].len]
  BY <1>6, <1>7
<1> QED BY <1>8 DEF BeginsAs, n

LEMMA BeginsIs ==
  ASSUME NEW ls \in Lines
  PROVE  Starts(ls, Header!Begins(ls))
<1> DEFINE b == CHOOSE b : BeginsAs(ls, b)
           n == Len(ls)
<1>1. Header!Begins(ls) = b
  BY DEF Header!Begins, BeginsAs
<1>2. BeginsAs(ls, b)
  BY BeginsExists
<1> HIDE DEF b
<1>3. n \in Nat
  BY DEF Lines
<1>4. \A i \in 1 .. n + 1 : b[i] = IF i = 1 THEN 2 ELSE b[i - 1] + ls[i - 1].len
  BY <1>2 DEF BeginsAs
<1> HIDE DEF n
<1>5. b[1] = 2
  BY <1>3, <1>4
<1>6. ASSUME NEW i \in 1 .. n
      PROVE  b[i + 1] = b[i] + ls[i].len
  <2>1. i + 1 \in 1 .. n + 1 /\ i + 1 # 1 /\ (i + 1) - 1 = i
    BY <1>3
  <2> QED BY <1>4, <2>1
<1> DEFINE h == [i \in 0 .. n |-> b[i + 1]]
<1>7. \A i \in 0 .. n : h[i] = b[i + 1]
  OBVIOUS
<1> HIDE DEF h
<1>8. h[0] \in Nat
  BY <1>3, <1>5, <1>7
<1>9. \A i \in 1 .. n : h[i - 1] \in Nat => h[i] \in Nat
  <2> SUFFICES ASSUME NEW i \in 1 .. n, h[i - 1] \in Nat
               PROVE  h[i] \in Nat
    OBVIOUS
  <2>1. h[i] = b[i + 1] /\ h[i - 1] = b[i]
    BY <1>3, <1>7
  <2>2. ls[i].len \in Nat
    BY LineIs DEF n
  <2> QED BY <1>6, <2>1, <2>2
<1>10. \A i \in 0 .. n : h[i] \in Nat
  BY <1>3, <1>8, <1>9, Inherited
<1>11. \A i \in 1 .. n + 1 : b[i] \in Nat
  <2> SUFFICES ASSUME NEW i \in 1 .. n + 1 PROVE b[i] \in Nat
    OBVIOUS
  <2>1. i - 1 \in 0 .. n /\ (i - 1) + 1 = i
    BY <1>3
  <2> QED BY <1>7, <1>10, <2>1
<1> QED BY <1>1, <1>5, <1>6, <1>11 DEF Starts, n

LEMMA StartsRise ==
  ASSUME NEW ls \in Lines, NEW b, Starts(ls, b),
         NEW i \in 1 .. Len(ls) + 1
  PROVE  \A k \in 1 .. Len(ls) + 1 : i < k => b[i] < b[k]
<1> DEFINE n == Len(ls)
           A == {k \in Nat : k \in 1 .. n + 1 /\ i < k => b[i] < b[k]}
<1>1. n \in Nat /\ i \in 1 .. n + 1
  BY DEF Lines
<1>2. /\ \A k \in 1 .. n : b[k + 1] = b[k] + ls[k].len /\ ls[k].len \in Nat \ {0}
      /\ \A k \in 1 .. n + 1 : b[k] \in Nat
  BY LineIs DEF Starts
<1> HIDE DEF n
<1>3. 0 \in A
  OBVIOUS
<1>4. ASSUME NEW k \in Nat, k \in A
      PROVE  k + 1 \in A
  <2> SUFFICES ASSUME k + 1 \in 1 .. n + 1, i < k + 1
               PROVE  b[i] < b[k + 1]
    OBVIOUS
  <2>1. k \in 1 .. n /\ k \in 1 .. n + 1
    BY <1>1
  <2>2. b[k + 1] = b[k] + ls[k].len /\ ls[k].len \in Nat \ {0} /\ b[k] \in Nat
    BY <1>2, <2>1
  <2>3. CASE i = k
    BY <2>2, <2>3
  <2>4. CASE i # k
    <3>1. i < k
      BY <1>1, <2>4
    <3>2. b[i] < b[k]
      BY <1>4, <2>1, <3>1
    <3>3. b[i] \in Nat
      BY <1>1, <1>2
    <3> QED BY <2>2, <3>2, <3>3
  <2> QED BY <2>3, <2>4
<1>5. Nat \subseteq A
  <2> HIDE DEF A
  <2> QED BY <1>3, <1>4, Inductive
<1> QED BY <1>1, <1>5 DEF n

LEMMA SaysExists ==
  ASSUME NEW ls \in Lines, NEW k \in BOOLEAN
  PROVE  \E f : SaysAs(ls, k, f)
<1> DEFINE n == Len(ls)
           Next1(i, v) == IF ls[i].at = 0 THEN Header!Apply(ls[i].val, v) ELSE v
           F == [i \in 1 .. n |-> [v \in BOOLEAN |-> Next1(i, v)]]
<1>1. n \in Nat
  BY DEF Lines
<1>2. \A i \in 1 .. n : \A v \in BOOLEAN : Next1(i, v) \in BOOLEAN
  BY DEF Header!Apply
<1>3. F \in [1 .. n -> [BOOLEAN -> BOOLEAN]]
  BY <1>2
<1>4. \A i \in 1 .. n : \A v \in BOOLEAN : F[i][v] = Next1(i, v)
  OBVIOUS
<1> HIDE DEF n, F, Next1
<1>5. PICK h \in [0 .. n -> BOOLEAN] : Carried(k, F, n, h)
  BY <1>1, <1>3, CarriedExists
<1>6. ASSUME NEW i \in 0 .. n
      PROVE  h[i] = IF i = 0 THEN k ELSE Next1(i, h[i - 1])
  <2>1. CASE i = 0
    BY <1>5, <2>1 DEF Carried
  <2>2. CASE i # 0
    <3>1. i \in 1 .. n /\ i - 1 \in 0 .. n
      BY <1>1, <2>2
    <3>2. h[i] = F[i][h[i - 1]] /\ h[i - 1] \in BOOLEAN
      BY <1>5, <3>1 DEF Carried
    <3> QED BY <1>4, <2>2, <3>1, <3>2
  <2> QED BY <2>1, <2>2
<1>7. h = [i \in 0 .. n |-> IF i = 0 THEN k ELSE Next1(i, h[i - 1])]
  BY <1>5, <1>6
<1> QED BY <1>7 DEF SaysAs, Next1, n

LEMMA SaysIs ==
  ASSUME NEW ls \in Lines, NEW k \in BOOLEAN
  PROVE  \E f : Says(ls, k, f) /\ Header!Intended(ls, k) = f[Len(ls)]
<1> DEFINE f == CHOOSE f : SaysAs(ls, k, f)
<1>1. Header!Intended(ls, k) = f[Len(ls)]
  BY DEF Header!Intended, SaysAs
<1>2. SaysAs(ls, k, f)
  BY SaysExists
<1> HIDE DEF f
<1>3. Len(ls) \in Nat
  BY DEF Lines
<1>4. Says(ls, k, f)
  BY <1>2, <1>3 DEF SaysAs, Says
<1> QED BY <1>1, <1>4

(* Where all lines are even, so are the places where they begin; the scan  *)
(* has gone past the first n, and knows what they say.                     *)
Passed(b, f, n) ==
  /\ n > 0 => b[n] <= place
  /\ n < Len(lines) => place < b[n + 1]
  /\ ka = f[n]
HeaderTypes ==
  /\ lines \in Lines /\ http11 \in BOOLEAN /\ place \in Nat /\ place % 2 = 0
HeaderInv ==
  /\ HeaderTypes
  /\ Header!EvenLines =>
       \A f : Says(lines, http11, f) =>
         \E n \in 0 .. Len(lines) : Passed(Header!Begins(lines), f, n)

LEMMA StartsEven ==
  ASSUME lines \in Lines, Header!EvenLines, NEW b, Starts(lines, b)
  PROVE  \A i \in 1 .. Len(lines) + 1 : b[i] % 2 = 0
<1> DEFINE n == Len(lines)
           A == {i \in Nat : i \in 1 .. n + 1 => b[i] % 2 = 0}
<1>1. n \in Nat /\ DOMAIN lines = 1 .. n
  BY DEF Lines
<1>2. ASSUME NEW i \in 1 .. n
      PROVE  /\ b[i + 1] = b[i] + lines[i].len /\ b[i] \in Nat
             /\ lines[i].len \in Nat /\ lines[i].len % 2 = 0
  <2>1. lines[i].len \in Nat
    BY LineIs
  <2> QED BY <1>1, <2>1 DEF Starts, Header!EvenLines
<1>3. b[1] = 2
  BY DEF Starts
<1> HIDE DEF n
<1>4. 0 \in A
  OBVIOUS
<1>5. ASSUME NEW i \in Nat, i \in A
      PROVE  i + 1 \in A
  <2> SUFFICES ASSUME i + 1 \in 1 .. n + 1
               PROVE  b[i + 1] % 2 = 0
    OBVIOUS
  <2>1. CASE i = 0
    BY <1>3, <2>1
  <2>2. CASE i # 0
    <3>1. i \in 1 .. n /\ i \in 1 .. n + 1
      BY <1>1, <2>2
    <3>2. b[i] % 2 = 0
      BY <1>5, <3>1
    <3> DEFINE x == b[i]
               y == lines[i].len
    <3>3. x \in Nat /\ y \in Nat /\ x % 2 = 0 /\ y % 2 = 0 /\ b[i + 1] = x + y
      BY <1>2, <3>1, <3>2
    <3> HIDE DEF x, y
    <3>4. (x + y) % 2 = 0
      BY <3>3
    <3> QED BY <3>3, <3>4
  <2> QED BY <2>1, <2>2
<1>6. Nat \subseteq A
  <2> HIDE DEF A
  <2> QED BY <1>4, <1>5, Inductive
<1> QED BY <1>1, <1>6 DEF n

LEMMA HeaderInit ==
  ASSUME Header!Init
  PROVE  HeaderInv
<1>1. lines \in Lines /\ http11 \in BOOLEAN /\ place = 0 /\ ka = http11
  <2>1. \A n \in 0 .. MaxLines : [1 .. n -> Header!Line] \subseteq Lines
    <3>1. MaxLines \in Nat
      BY ScannerAssumption DEF Header!HeaderConstants
    <3> QED BY <3>1 DEF Lines
  <2> QED BY <2>1 DEF Header!Init
<1>2. HeaderTypes
  BY <1>1 DEF HeaderTypes
<1>3. ASSUME NEW f, Says(lines, http11, f)
      PROVE  Passed(Header!Begins(lines), f, 0)
  <2>1. Starts(lines, Header!Begins(lines))
    BY <1>1, BeginsIs
  <2>2. Header!Begins(lines)[1] = 2 /\ f[0] = http11
    BY <1>3, <2>1 DEF Starts, Says
  <2> QED BY <1>1, <2>2 DEF Passed
<1>4. Len(lines) \in Nat
  BY <1>1 DEF Lines
<1> QED BY <1>2, <1>3, <1>4 DEF HeaderInv

(* The text at an even place q is the field of the line that begins there. *)
LEMMA ValueNone ==
  ASSUME lines \in Lines, NEW q, NEW b, b = Header!Begins(lines),
         \A i \in 1 .. Len(lines) : b[i] + lines[i].at # q
  PROVE  Header!ValueAt(lines, q) = "none"
<1>1. DOMAIN lines = 1 .. Len(lines)
  BY DEF Lines
<1>2. {i \in DOMAIN lines : Header!Begins(lines)[i] + lines[i].at = q} = {}
  BY <1>1
<1> QED BY <1>2 DEF Header!ValueAt

LEMMA ValueOne ==
  ASSUME lines \in Lines, NEW q, NEW b, b = Header!Begins(lines),
         NEW m \in 1 .. Len(lines), b[m] + lines[m].at = q,
         \A i \in 1 .. Len(lines) : b[i] + lines[i].at = q => i = m
  PROVE  Header!ValueAt(lines, q) = lines[m].val
<1> DEFINE here == {i \in DOMAIN lines : Header!Begins(lines)[i] + lines[i].at = q}
<1>1. DOMAIN lines = 1 .. Len(lines)
  BY DEF Lines
<1>2. here = {m}
  BY <1>1
<1>3. Header!ValueAt(lines, q) = IF here = {} THEN "none" ELSE lines[CHOOSE i \in here : TRUE].val
  BY DEF Header!ValueAt
<1> HIDE DEF here
<1>4. (CHOOSE i \in here : TRUE) = m /\ here # {}
  BY <1>2
<1> QED BY <1>3, <1>4

LEMMA PassOn ==
  ASSUME HeaderTypes, Header!EvenLines, NEW b, b = Header!Begins(lines),
         NEW f, Says(lines, http11, f), NEW n \in 0 .. Len(lines), Passed(b, f, n),
         Header!Scan
  PROVE  \E k \in 0 .. Len(lines) : Passed(b, f, k)'
<1> DEFINE q == place + 2
           len == Len(lines)
<1>1. /\ q < Header!End(lines) /\ place' = q /\ lines' = lines
      /\ ka' = Header!Apply(Header!ValueAt(lines, q), ka)
  BY DEF Header!Scan, Header!Stride
<1>2. /\ lines \in Lines /\ place \in Nat /\ place % 2 = 0 /\ len \in Nat
      /\ DOMAIN lines = 1 .. len
  BY DEF HeaderTypes, Lines
<1>3. Starts(lines, b)
  BY <1>2, BeginsIs
<1>4. /\ \A i \in 1 .. len + 1 : b[i] \in Nat /\ b[i] % 2 = 0
      /\ \A i, k \in 1 .. len + 1 : i < k => b[i] < b[k]
  BY <1>2, <1>3, StartsEven, StartsRise DEF Starts
<1>5. q \in Nat /\ q % 2 = 0 /\ place < q
  BY <1>2
<1>6. ASSUME NEW i \in 1 .. len
      PROVE  b[i] + lines[i].at = q => lines[i].at = 0 /\ b[i] = q
  <2> DEFINE x == b[i]
             y == lines[i].at
  <2>1. x \in Nat /\ x % 2 = 0 /\ y \in Nat /\ (y = 0 \/ y % 2 = 1)
    BY <1>2, <1>4, LineIs DEF Header!EvenLines
  <2> HIDE DEF x, y, q
  <2>2. x + y = q => y = 0 /\ x = q
    BY <1>5, <2>1
  <2> QED BY <2>2 DEF x, y
<1>7. place < b[len + 1]
  <2>1. q < b[len + 1] + 2
    BY <1>1 DEF Header!End
  <2>2. b[len + 1] \in Nat
    BY <1>2, <1>4
  <2> QED BY <1>2, <2>1, <2>2
<1>8. ka = f[n] /\ (n > 0 => b[n] <= place) /\ (n < len => place < b[n + 1])
  BY DEF Passed
<1> HIDE DEF q, len
<1>9. n \in 0 .. len
  BY DEF len
<1>10. CASE n < len /\ b[n + 1] = q
  <2> DEFINE m == n + 1
  <2>1. m \in 1 .. len /\ m \in 1 .. len + 1 /\ b[m] = q
    BY <1>2, <1>9, <1>10
  <2>2. ka' = IF lines[m].at = 0 THEN Header!Apply(lines[m].val, ka) ELSE ka
    <3>1. ASSUME NEW i \in 1 .. len, b[i] + lines[i].at = q
          PROVE  i = m /\ lines[m].at = 0
      <4>1. lines[i].at = 0 /\ b[i] = q
        BY <1>6, <3>1
      <4>2. i \in 1 .. len + 1 /\ ~(i < m) /\ ~(m < i)
        BY <1>2, <1>4, <1>5, <2>1, <4>1
      <4>3. i = m
        BY <2>1, <4>2
      <4> QED BY <4>1, <4>3
    <3>2. CASE lines[m].at = 0
      <4>1. b[m] + lines[m].at = q
        BY <1>5, <2>1, <3>2
      <4> HIDE DEF m
      <4>2. Header!ValueAt(lines, q) = lines[m].val
        BY <1>2, <2>1, <3>1, <4>1, ValueOne DEF len
      <4> QED BY <1>1, <3>2, <4>2
    <3>3. CASE lines[m].at # 0
      <4>1. Header!ValueAt(lines, q) = "none"
        BY <1>2, <3>1, <3>3, ValueNone DEF len
      <4> QED BY <1>1, <3>3, <4>1 DEF Header!Apply
    <3> QED BY <3>2, <3>3
  <2>3. ka' = f[m]
    <3>1. f[m] = IF lines[m].at = 0 THEN Header!Apply(lines[m].val, f[m - 1]) ELSE f[m - 1]
      BY <2>1 DEF Says, len
    <3>2. m - 1 = n
      BY <1>9
    <3> QED BY <1>8, <2>2, <3>1, <3>2
  <2>4. m < len => q < b[m + 1]
    <3>1. m < len => m + 1 \in 1 .. len + 1 /\ m < m + 1
      BY <1>2, <2>1
    <3> QED BY <1>4, <2>1, <3>1
  <2>5. Passed(b, f, m)'
    BY <1>1, <1>5, <2>1, <2>3, <2>4 DEF Passed, len
  <2> QED BY <2>1, <2>5 DEF len
<1>11. CASE ~(n < len /\ b[n + 1] = q)
  <2>1. n < len => q < b[n + 1]
    <3> SUFFICES ASSUME n < len PROVE q < b[n + 1]
      OBVIOUS
    <3> DEFINE x == b[n + 1]
    <3>1. x \in Nat /\ x % 2 = 0 /\ place < x /\ x # q
      BY <1>2, <1>4, <1>8, <1>9, <1>11
    <3> HIDE DEF x
    <3>2. q < x
      BY <1>2, <3>1 DEF q
    <3> QED BY <3>2 DEF x
  <2>2. ASSUME NEW i \in 1 .. len
        PROVE  b[i] # q
    <3>1. i \in 1 .. len + 1 /\ b[i] \in Nat
      BY <1>2, <1>4
    <3>2. CASE i <= n
      <4>1. n \in 1 .. len + 1 /\ b[n] \in Nat
        BY <1>2, <1>4, <1>9, <3>2
      <4>2. b[i] <= b[n]
        BY <1>4, <3>1, <3>2, <4>1
      <4> QED BY <1>2, <1>5, <1>8, <1>9, <3>1, <3>2, <4>1, <4>2
    <3>3. CASE i > n
      <4>1. n < len /\ n + 1 \in 1 .. len + 1 /\ b[n + 1] \in Nat
        BY <1>2, <1>4, <1>9, <3>3
      <4>2. b[n + 1] <= b[i]
        BY <1>4, <1>9, <3>1, <3>3, <4>1
      <4> QED BY <1>5, <2>1, <3>1, <4>1, <4>2
    <3> QED BY <1>9, <3>2, <3>3
  <2>3. Header!ValueAt(lines, q) = "none"
    <3>1. \A i \in 1 .. len : b[i] + lines[i].at # q
      BY <1>6, <2>2
    <3> QED BY <1>2, <3>1, ValueNone DEF len
  <2>4. ka' = ka
    BY <1>1, <2>3 DEF Header!Apply
  <2>5. n > 0 => b[n] <= q
    <3>1. n > 0 => b[n] \in Nat
      BY <1>2, <1>4, <1>9
    <3> QED BY <1>2, <1>5, <1>8, <3>1
  <2>6. Passed(b, f, n)'
    BY <1>1, <1>8, <2>1, <2>4, <2>5 DEF Passed, len
  <2> QED BY <2>6
<1> QED BY <1>10, <1>11

LEMMA HeaderStep ==
  ASSUME HeaderInv, Header!Scan
  PROVE  HeaderInv'
<1>1. HeaderTypes
  BY DEF HeaderInv
<1>2. lines' = lines /\ http11' = http11 /\ place' = place + 2
  BY DEF Header!Scan, Header!Stride
<1>3. HeaderTypes'
  BY <1>1, <1>2 DEF HeaderTypes
<1>4. ASSUME Header!EvenLines, NEW f, Says(lines, http11, f)
      PROVE  \E k \in 0 .. Len(lines) : Passed(Header!Begins(lines), f, k)'
  <2> DEFINE b == Header!Begins(lines)
  <2>1. PICK n \in 0 .. Len(lines) : Passed(b, f, n)
    BY <1>4 DEF HeaderInv
  <2>2. PICK c : c = b
    OBVIOUS
  <2>3. \E k \in 0 .. Len(lines) : Passed(c, f, k)'
    BY <1>1, <1>4, <2>1, <2>2, PassOn
  <2>4. c = Header!Begins(lines')
    BY <1>2, <2>2
  <2> QED BY <2>3, <2>4
<1> QED BY <1>2, <1>3, <1>4 DEF HeaderInv, Header!EvenLines

LEMMA HeaderHonoured ==
  ASSUME HeaderInv
  PROVE  Header!EvenHonoured
<1> SUFFICES ASSUME Header!Done, Header!EvenLines
             PROVE  ka = Header!Intended(lines, http11)
  BY DEF Header!EvenHonoured
<1> DEFINE len == Len(lines)
<1>1. lines \in Lines /\ http11 \in BOOLEAN /\ place \in Nat /\ len \in Nat
  BY DEF HeaderInv, HeaderTypes, Lines
<1>2. PICK f : Says(lines, http11, f) /\ Header!Intended(lines, http11) = f[len]
  BY <1>1, SaysIs
<1>3. PICK b : b = Header!Begins(lines)
  OBVIOUS
<1>4. PICK n \in 0 .. len : Passed(b, f, n)
  BY <1>2, <1>3 DEF HeaderInv
<1>5. Starts(lines, b)
  BY <1>1, <1>3, BeginsIs
<1>6. b[len + 1] <= place
  <2>1. place + 2 >= b[len + 1] + 2
    BY <1>3 DEF Header!Done, Header!Stride, Header!End
  <2>2. b[len + 1] \in Nat
    BY <1>1, <1>5 DEF Starts
  <2> QED BY <1>1, <2>1, <2>2
<1>7. n = len
  <2> SUFFICES ASSUME n < len PROVE FALSE
    BY <1>1
  <2>1. n + 1 \in 1 .. len + 1 /\ len + 1 \in 1 .. len + 1 /\ n + 1 < len + 1
    BY <1>1
  <2>2. b[n + 1] < b[len + 1]
    BY <1>1, <1>5, <2>1, StartsRise
  <2>3. b[n + 1] \in Nat /\ b[len + 1] \in Nat
    BY <1>5, <2>1 DEF Starts
  <2>4. place < b[n + 1]
    BY <1>4 DEF Passed
  <2> QED BY <1>1, <1>6, <2>2, <2>3, <2>4
<1> QED BY <1>2, <1>4, <1>7 DEF Passed

(* Requests whose header lines all have an even length and that have the   *)
(* text "Connection:" only at the start of a line or at an odd place: for  *)
(* any number and lengths of lines, the scan by two bytes ends with the    *)
(* keep-alive that the Connection fields ask for (parser.c:17-31).         *)
THEOREM EvenHonouredSafe == ScanSpec => []EvenHonoured
<1> DEFINE I == scan = "header" => HeaderInv
<1>1. ScanInit => I
  BY HeaderInit DEF ScanInit
<1>2. I /\ [ScanNext]_scanVars => I'
  <2> SUFFICES ASSUME I, [ScanNext]_scanVars, scan' = "header"
               PROVE  HeaderInv'
    OBVIOUS
  <2>1. CASE scan = "header" /\ Header!Next
    BY <2>1, HeaderStep DEF Header!Next
  <2>2. CASE UNCHANGED scanVars
    BY <2>2 DEF scanVars, header, HeaderInv, HeaderTypes, Header!EvenLines, Passed
  <2>3. (scan = "header" /\ Header!Next) \/ UNCHANGED scanVars
    BY DEF ScanNext
  <2> QED BY <2>1, <2>2, <2>3
<1>3. I => EvenHonoured
  BY HeaderHonoured DEF EvenHonoured
<1> QED BY <1>1, <1>2, <1>3, PTL DEF ScanSpec
-----------------------------------------------------------------------------
(* The URL.  A field of it, where it ends, and which fields follow it.     *)
Interval == [off : Nat, len : Nat]
EndsAt(f, n) == f[n].off + f[n].len
Within(f, n, i) == f[n].off < i /\ i <= EndsAt(f, n)
Later(n) ==
  CASE n = "schema"   -> {"userinfo", "host", "port", "path", "query", "fragment"}
    [] n = "userinfo" -> {"host", "port", "path", "query", "fragment"}
    [] n = "host"     -> {"port", "path", "query", "fragment"}
    [] n = "port"     -> {"path", "query", "fragment"}
    [] n = "path"     -> {"query", "fragment"}
    [] n = "query"    -> {"fragment"}
    [] OTHER          -> {}
InOrder(f, a, b) == {a, b} \subseteq DOMAIN f => EndsAt(f, a) <= f[b].off
Marks == {":", "/", "@", "?", "#", "[", "]"}
Held(f, i) == \E n \in DOMAIN f : Within(f, n, i)
FieldSet(f) == f \in [DOMAIN f -> Interval] /\ DOMAIN f \subseteq Url!Fields

(* The fields that there may be in a state of parse_url_char.              *)
Slashes == {"schema_slash", "schema_slash_slash", "server_start"}
Before(st) ==
  CASE st = "spaces_before_url" -> {}
    [] st \in Slashes \cup {"schema"} -> {"schema"}
    [] st \in {"server", "server_with_at"} -> {"schema", "host"}
    [] st \in {"path", "query_string_start"} -> {"schema", "host", "path"}
    [] st \in {"query_string", "fragment_start"} -> {"schema", "host", "path", "query"}
    [] OTHER -> {"schema", "host", "path", "query", "fragment"}
UrlStates == Url!Delimiters \cup {"spaces_before_url", "schema", "server", "server_with_at",
                                  "path", "query_string", "fragment"}
Growing == {"schema", "server", "server_with_at", "path", "query_string", "fragment"}
Split(u, st, f, n) ==
  /\ u \in Seq(Chars) /\ st \in UrlStates /\ FieldSet(f) /\ DOMAIN f \subseteq Before(st)
  /\ n \in DOMAIN f \cup {"none"}
  /\ \A a \in DOMAIN f : EndsAt(f, a) <= Len(u)
  /\ st \in Growing => n = Url!FieldOf(st) /\ n \in DOMAIN f /\ EndsAt(f, n) = Len(u)
  /\ \A a \in DOMAIN f : \A b \in Later(a) : InOrder(f, a, b)
  /\ \A i \in 1 .. Len(u) : Held(f, i) \/ u[i] \in Marks

(* While the host is looked at: k characters of it and before it are done. *)
Empty    == {"userinfo_start", "userinfo", "host_start", "v6_start"}
Bracket  == {"v6", "v6_zone_start", "v6_zone"}
Filling  == Bracket \cup {"host"}
HostStates == Empty \cup Filling \cup {"v6_end", "port_start", "port"}
HostChars == {"a", "z", "1", "9", ".", ":", "%", "~"}
Rest == {"path", "query", "fragment"}
Placed(f, k) ==
  /\ FieldSet(f) /\ {"schema", "host"} \subseteq DOMAIN f
  /\ k \in Nat /\ end \in Nat /\ k <= end /\ end <= Len(url)
  /\ EndsAt(f, "schema") <= f["host"].off /\ EndsAt(f, "host") <= k
  /\ \A n \in DOMAIN f \cap Rest : end <= f[n].off /\ \A b \in Later(n) : InOrder(f, n, b)
  /\ "userinfo" \in DOMAIN f => EndsAt(f, "schema") <= f["userinfo"].off /\ EndsAt(f, "userinfo") <= k
  /\ "port" \in DOMAIN f => EndsAt(f, "host") <= f["port"].off /\ EndsAt(f, "port") <= k
Phased(f, st, k) ==
  /\ st \in HostStates
  /\ st = "userinfo_start" => "userinfo" \notin DOMAIN f
  /\ st = "userinfo" => "userinfo" \in DOMAIN f /\ EndsAt(f, "userinfo") = k
  /\ IF st \in Empty THEN f["host"].len = 0
     ELSE f["host"].len > 0 /\ InOrder(f, "userinfo", "host")
  /\ st \in Filling => EndsAt(f, "host") = k
  /\ IF st = "port" THEN "port" \in DOMAIN f /\ EndsAt(f, "port") = k ELSE "port" \notin DOMAIN f
Opened(k) == k > 0 /\ url[k] = "["
Clean(f, st, k) ==
  /\ st = "v6_start" => Opened(k)
  /\ st \in Bracket => Opened(f["host"].off)
  /\ \A i \in Nat : Within(f, "host", i) =>
       url[i] \in HostChars /\ (url[i] = ":" => Opened(f["host"].off))
  /\ "port" \in DOMAIN f => \A i \in Nat : Within(f, "port", i) => Url!IsNum(url[i])
Covered(f, k) ==
  \A i \in 1 .. Len(url) : i <= k \/ i > end => Held(f, i) \/ url[i] \in Marks
HostPart(f, st, k) == Placed(f, k) /\ Phased(f, st, k) /\ Clean(f, st, k) /\ Covered(f, k)
UrlInv ==
  /\ pc = "url" => Split(url, s, field, uf)
  /\ pc \in {"host", "ok"} => url \in Seq(Chars) /\ HostPart(field, hs, j)
  /\ pc = "ok" => hs \in Url!HostEnds /\ j = end /\ Url!PortExact
-----------------------------------------------------------------------------
(* How a field begins or grows by the character behind the first k.        *)
Grown(f, n, k, q) ==
  /\ FieldSet(q) /\ DOMAIN q = DOMAIN f \cup {n}
  /\ \A m \in DOMAIN f : m # n => q[m] = f[m]
  /\ EndsAt(q, n) = k + 1 /\ q[n].len > 0
  /\ \A i \in Nat : Within(q, n, i) <=> (n \in DOMAIN f /\ Within(f, n, i)) \/ i = k + 1
From(f, n, q, x) == q[n].off = x

LEMMA IntervalIs ==
  ASSUME NEW f, FieldSet(f), NEW n \in DOMAIN f
  PROVE  /\ f[n] \in Interval /\ f[n].off \in Nat /\ f[n].len \in Nat
         /\ EndsAt(f, n) \in Nat /\ n \in Url!Fields
BY DEF FieldSet, Interval, EndsAt

LEMMA GrownPut ==
  ASSUME NEW f, FieldSet(f), NEW n \in Url!Fields, n \notin DOMAIN f, NEW k \in Nat,
         NEW q, q = Url!Put(f, n, k, 1)
  PROVE  Grown(f, n, k, q) /\ From(f, n, q, k)
<1>1. q = [m \in DOMAIN f \cup {n} |-> IF m = n THEN [off |-> k, len |-> 1] ELSE f[m]]
  BY DEF Url!Put
<1>2. [off |-> k, len |-> 1] \in Interval
  BY DEF Interval
<1>3. DOMAIN q = DOMAIN f \cup {n} /\ \A m \in DOMAIN f : m # n => q[m] = f[m]
  BY <1>1
<1>4. q[n] = [off |-> k, len |-> 1]
  BY <1>1
<1>5. FieldSet(q)
  <2>1. \A m \in DOMAIN q : q[m] \in Interval
    BY <1>2, <1>3, <1>4, IntervalIs
  <2>2. q \in [DOMAIN q -> Interval]
    BY <1>1, <2>1
  <2>3. DOMAIN q \subseteq Url!Fields
    BY <1>3 DEF FieldSet
  <2> QED BY <2>2, <2>3 DEF FieldSet
<1>6. q[n].off = k /\ q[n].len = 1
  BY <1>4
<1>7. EndsAt(q, n) = k + 1
  BY <1>6 DEF EndsAt
<1>8. \A i \in Nat : Within(q, n, i) <=> i = k + 1
  BY <1>6, <1>7 DEF Within
<1> QED BY <1>3, <1>5, <1>6, <1>7, <1>8 DEF Grown, From

LEMMA GrownInterval ==
  ASSUME NEW f, FieldSet(f), NEW n \in DOMAIN f, NEW k \in Nat,
         NEW x \in Nat, NEW y \in Nat, x + y = k + 1, y > 0,
         \A i \in Nat : x < i /\ i <= k + 1 <=> Within(f, n, i) \/ i = k + 1,
         NEW q, q = [f EXCEPT ![n] = [off |-> x, len |-> y]]
  PROVE  Grown(f, n, k, q) /\ From(f, n, q, x)
<1>1. [off |-> x, len |-> y] \in Interval
  BY DEF Interval
<1>2. DOMAIN q = DOMAIN f /\ \A m \in DOMAIN f : m # n => q[m] = f[m]
  BY DEF FieldSet
<1>3. q[n] = [off |-> x, len |-> y]
  BY DEF FieldSet
<1>4. FieldSet(q)
  <2>1. \A m \in DOMAIN q : q[m] \in Interval
    BY <1>1, <1>2, <1>3, IntervalIs
  <2>2. q \in [DOMAIN q -> Interval]
    BY <2>1
  <2> QED BY <1>2, <2>2 DEF FieldSet
<1>5. q[n].off = x /\ q[n].len = y
  BY <1>3
<1>6. EndsAt(q, n) = k + 1
  BY <1>5 DEF EndsAt
<1>7. \A i \in Nat : Within(q, n, i) <=> Within(f, n, i) \/ i = k + 1
  BY <1>5, <1>6 DEF Within
<1>8. DOMAIN q = DOMAIN f \cup {n}
  BY <1>2
<1> QED BY <1>2, <1>4, <1>5, <1>6, <1>7, <1>8 DEF Grown, From

LEMMA GrownLonger ==
  ASSUME NEW f, FieldSet(f), NEW n \in DOMAIN f, NEW k \in Nat, EndsAt(f, n) = k,
         NEW q, q = Url!Longer(f, n)
  PROVE  Grown(f, n, k, q) /\ From(f, n, q, f[n].off)
<1> DEFINE x == f[n].off
           y == f[n].len + 1
<1>1. f[n] \in Interval /\ x \in Nat /\ f[n].len \in Nat
  BY IntervalIs
<1>2. [f[n] EXCEPT !.len = @ + 1] = [off |-> x, len |-> y]
  BY <1>1 DEF Interval
<1>3. q = [f EXCEPT ![n] = [off |-> x, len |-> y]]
  BY <1>2 DEF Url!Longer
<1>4. x + y = k + 1 /\ y > 0 /\ y \in Nat
  BY <1>1 DEF EndsAt
<1>5. \A i \in Nat : x < i /\ i <= k + 1 <=> Within(f, n, i) \/ i = k + 1
  BY <1>1 DEF Within, EndsAt
<1> HIDE DEF x, y
<1>6. Grown(f, n, k, q) /\ From(f, n, q, x)
  BY <1>1, <1>3, <1>4, <1>5, GrownInterval
<1> QED BY <1>6 DEF x

LEMMA GrownHost ==
  ASSUME NEW f, FieldSet(f), NEW n \in DOMAIN f, f[n].len = 0, NEW k \in Nat,
         NEW q, q = [Url!Longer(f, n) EXCEPT ![n].off = k]
  PROVE  Grown(f, n, k, q) /\ From(f, n, q, k)
<1>1. f[n] \in Interval /\ f[n].off \in Nat
  BY IntervalIs
<1>2. f[n] = [off |-> f[n].off, len |-> 0]
  BY <1>1 DEF Interval
<1> DEFINE w == Url!Longer(f, n)
<1>3. w = [f EXCEPT ![n] = [f[n] EXCEPT !.len = @ + 1]]
  BY DEF Url!Longer
<1>4. w[n] = [off |-> f[n].off, len |-> 1]
  BY <1>2, <1>3 DEF FieldSet
<1> HIDE DEF w
<1>5. q = [w EXCEPT ![n] = [w[n] EXCEPT !.off = k]]
  BY DEF w
<1>6. [w[n] EXCEPT !.off = k] = [off |-> k, len |-> 1]
  BY <1>4
<1>7. q = [f EXCEPT ![n] = [off |-> k, len |-> 1]]
  BY <1>3, <1>5, <1>6 DEF FieldSet
<1>8. \A i \in Nat : k < i /\ i <= k + 1 <=> Within(f, n, i) \/ i = k + 1
  BY <1>1 DEF Within, EndsAt
<1>9. PICK y : y = 1
  OBVIOUS
<1>10. y \in Nat /\ k + y = k + 1 /\ y > 0
  BY <1>9
<1>11. q = [f EXCEPT ![n] = [off |-> k, len |-> y]]
  BY <1>7, <1>9
<1> QED BY <1>8, <1>10, <1>11, GrownInterval

LEMMA GrownKeeps ==
  ASSUME NEW f, FieldSet(f), NEW n, NEW k \in Nat, NEW q, Grown(f, n, k, q)
  PROVE  /\ Held(q, k + 1)
         /\ \A i \in Nat : Held(f, i) => Held(q, i)
         /\ \A m \in DOMAIN f : m # n => /\ m \in DOMAIN q /\ q[m] = f[m]
                                         /\ EndsAt(q, m) = EndsAt(f, m)
         /\ \A a, b \in DOMAIN f : a # n /\ b # n /\ InOrder(f, a, b) => InOrder(q, a, b)
<1>1. /\ n \in DOMAIN q /\ DOMAIN q = DOMAIN f \cup {n}
      /\ \A m \in DOMAIN f : m # n => q[m] = f[m]
      /\ \A i \in Nat : Within(q, n, i) <=> (n \in DOMAIN f /\ Within(f, n, i)) \/ i = k + 1
  BY DEF Grown
<1>2. Held(q, k + 1)
  BY <1>1 DEF Held
<1>3. \A m \in DOMAIN f : m # n => m \in DOMAIN q /\ q[m] = f[m] /\ EndsAt(q, m) = EndsAt(f, m)
  BY <1>1 DEF EndsAt
<1>4. ASSUME NEW i \in Nat, Held(f, i)
      PROVE  Held(q, i)
  <2>1. PICK m \in DOMAIN f : Within(f, m, i)
    BY <1>4 DEF Held
  <2>2. Within(q, m, i)
    <3>1. CASE m = n
      BY <1>1, <2>1, <3>1
    <3>2. CASE m # n
      BY <1>3, <2>1, <3>2 DEF Within
    <3> QED BY <3>1, <3>2
  <2> QED BY <1>1, <2>1, <2>2 DEF Held
<1>5. \A a, b \in DOMAIN f : a # n /\ b # n /\ InOrder(f, a, b) => InOrder(q, a, b)
  BY <1>3 DEF InOrder
<1> QED BY <1>2, <1>3, <1>4, <1>5
-----------------------------------------------------------------------------
(* parse_url_char: the states behind a state, and the field of each.       *)
Follows(st) ==
  CASE st = "spaces_before_url"  -> {"schema", "path"}
    [] st = "schema"             -> {"schema", "schema_slash"}
    [] st = "schema_slash"       -> {"schema_slash_slash"}
    [] st = "schema_slash_slash" -> {"server_start"}
    [] st \in Url!Server -> {"server", "server_with_at", "path", "query_string_start"}
    [] st = "path"               -> {"path", "query_string_start", "fragment_start"}
    [] st \in Url!Query          -> {"query_string", "fragment_start"}
    [] st = "fragment_start"     -> {"fragment_start", "fragment"}
    [] OTHER                     -> {"fragment"}

LEMMA UrlFollows ==
  ASSUME NEW st \in UrlStates, NEW c, NEW t, t = Url!parse_url_char(st, c), t # "dead"
  PROVE  t \in Follows(st) /\ (t \in Url!Delimiters => c \in Marks)
<1> USE DEF Url!parse_url_char, Follows, Marks, Url!Delimiters, Url!Server, Url!Query, Url!IsUrlChar,
            Url!IsUserinfoChar, Url!IsAlphaNum, Url!IsAlpha, Url!IsNum, Url!Digit
<1>1. CASE st = "spaces_before_url"
  BY <1>1
<1>2. CASE st = "schema"
  BY <1>2
<1>3. CASE st \in {"schema_slash", "schema_slash_slash"}
  BY <1>3
<1>4. CASE st \in Url!Server
  BY <1>4
<1>5. CASE st = "path"
  BY <1>5
<1>6. CASE st \in Url!Query
  BY <1>6
<1>7. CASE st \in {"fragment_start", "fragment"}
  BY <1>7
<1> QED BY <1>1, <1>2, <1>3, <1>4, <1>5, <1>6, <1>7
        DEF UrlStates

LEMMA UrlFields ==
  ASSUME NEW st \in UrlStates, NEW t \in Follows(st)
  PROVE  /\ t \in UrlStates /\ Before(st) \subseteq Before(t)
         /\ t \notin Url!Delimiters =>
              /\ t \in Growing
              /\ Url!FieldOf(t) \in Before(t) \cap Url!Fields
              /\ \A m \in Before(t) : m \notin Later(Url!FieldOf(t))
              /\ \/ st \in Growing /\ Url!FieldOf(st) = Url!FieldOf(t)
                 \/ Url!FieldOf(t) \notin Before(st)
         /\ t \in Url!Delimiters => t \notin Growing
<1> USE DEF Follows, Before, Growing, UrlStates, Slashes, Later, Url!Delimiters, Url!Server,
            Url!Query, Url!FieldOf, Url!Fields
<1>1. CASE st = "spaces_before_url"
  BY <1>1
<1>2. CASE st = "schema"
  BY <1>2
<1>3. CASE st \in {"schema_slash", "schema_slash_slash"}
  BY <1>3
<1>4. CASE st \in Url!Server
  BY <1>4
<1>5. CASE st = "path"
  BY <1>5
<1>6. CASE st \in Url!Query
  BY <1>6
<1>7. CASE st \in {"fragment_start", "fragment"}
  BY <1>7
<1> QED BY <1>1, <1>2, <1>3, <1>4, <1>5, <1>6, <1>7

LEMMA Appended ==
  ASSUME NEW u \in Seq(Chars), NEW c \in Chars, NEW v, v = Append(u, c)
  PROVE  /\ v \in Seq(Chars) /\ Len(u) \in Nat /\ Len(v) = Len(u) + 1
         /\ v[Len(u) + 1] = c /\ \A i \in 1 .. Len(u) : v[i] = u[i]
OBVIOUS

(* A character that separates fields.                                      *)
LEMMA SplitDelimiter ==
  ASSUME NEW u, NEW st, NEW f, NEW n, Split(u, st, f, n), NEW c \in Chars, c \in Marks,
         NEW t \in Follows(st), t \in Url!Delimiters, NEW v, v = Append(u, c)
  PROVE  Split(v, t, f, n)
<1>1. /\ u \in Seq(Chars) /\ st \in UrlStates /\ FieldSet(f) /\ DOMAIN f \subseteq Before(st)
      /\ n \in DOMAIN f \cup {"none"}
      /\ \A a \in DOMAIN f : EndsAt(f, a) <= Len(u)
      /\ \A a \in DOMAIN f : \A b \in Later(a) : InOrder(f, a, b)
      /\ \A i \in 1 .. Len(u) : Held(f, i) \/ u[i] \in Marks
  BY DEF Split
<1>2. t \in UrlStates /\ Before(st) \subseteq Before(t) /\ t \notin Growing
  BY <1>1, UrlFields
<1>3. /\ v \in Seq(Chars) /\ Len(u) \in Nat /\ Len(v) = Len(u) + 1
      /\ v[Len(u) + 1] = c /\ \A i \in 1 .. Len(u) : v[i] = u[i]
  BY <1>1, Appended
<1>4. \A a \in DOMAIN f : EndsAt(f, a) <= Len(v)
  BY <1>1, <1>3, IntervalIs
<1>5. \A i \in 1 .. Len(v) : Held(f, i) \/ v[i] \in Marks
  <2> SUFFICES ASSUME NEW i \in 1 .. Len(v) PROVE Held(f, i) \/ v[i] \in Marks
    OBVIOUS
  <2>1. i \in 1 .. Len(u) \/ i = Len(u) + 1
    BY <1>3
  <2> QED BY <1>1, <1>3, <2>1
<1> QED BY <1>1, <1>2, <1>3, <1>4, <1>5 DEF Split

(* A character of a field, which begins behind all the others or goes on.  *)
Adds(u, f, n, t, m, g) ==
  /\ m = Url!FieldOf(t)
  /\ \/ m = n /\ g = Url!Longer(f, m)
     \/ m # n /\ g = Url!Put(f, m, Len(u), 1)

LEMMA SplitField ==
  ASSUME NEW u, NEW st, NEW f, NEW n, Split(u, st, f, n), NEW c \in Chars,
         NEW t \in Follows(st), t \notin Url!Delimiters, NEW v, v = Append(u, c),
         NEW m, NEW g, Adds(u, f, n, t, m, g)
  PROVE  Split(v, t, g, m)
<1> DEFINE k == Len(u)
<1>1. /\ u \in Seq(Chars) /\ st \in UrlStates /\ FieldSet(f) /\ DOMAIN f \subseteq Before(st)
      /\ n \in DOMAIN f \cup {"none"}
      /\ \A a \in DOMAIN f : EndsAt(f, a) <= Len(u)
      /\ st \in Growing => n = Url!FieldOf(st) /\ n \in DOMAIN f /\ EndsAt(f, n) = Len(u)
      /\ \A a \in DOMAIN f : \A b \in Later(a) : InOrder(f, a, b)
      /\ \A i \in 1 .. Len(u) : Held(f, i) \/ u[i] \in Marks
  BY DEF Split
<1>2. /\ m = Url!FieldOf(t)
      /\ \/ m = n /\ g = Url!Longer(f, m)
         \/ m # n /\ g = Url!Put(f, m, Len(u), 1)
  BY DEF Adds
<1>3. /\ t \in UrlStates /\ Before(st) \subseteq Before(t) /\ t \in Growing
      /\ m \in Before(t) /\ m \in Url!Fields /\ \A a \in Before(t) : a \notin Later(m)
      /\ (st \in Growing /\ Url!FieldOf(st) = m) \/ m \notin Before(st)
  BY <1>2, <1>1, UrlFields
<1>4. /\ v \in Seq(Chars) /\ k \in Nat /\ Len(v) = k + 1
      /\ v[k + 1] = c /\ \A i \in 1 .. k : v[i] = u[i]
  BY <1>1, Appended
<1>5. "none" \notin Url!Fields
  BY DEF Url!Fields
<1>6. Grown(f, m, k, g) /\ IF m \in DOMAIN f THEN g[m].off = f[m].off ELSE g[m].off = k
  <2>1. CASE st \in Growing /\ Url!FieldOf(st) = m
    <3>1. m = n /\ m \in DOMAIN f /\ EndsAt(f, m) = k
      BY <1>1, <2>1
    <3>2. g = Url!Longer(f, m)
      BY <1>2, <3>1
    <3> HIDE DEF k
    <3>3. Grown(f, m, k, g) /\ From(f, m, g, f[m].off)
      BY <1>1, <1>4, <3>1, <3>2, GrownLonger
    <3> QED BY <3>1, <3>3 DEF From
  <2>2. CASE m \notin Before(st)
    <3>1. m # n /\ m \notin DOMAIN f
      BY <1>1, <1>3, <1>5, <2>2
    <3>2. g = Url!Put(f, m, k, 1)
      BY <1>2, <3>1
    <3> HIDE DEF k
    <3>3. Grown(f, m, k, g) /\ From(f, m, g, k)
      BY <1>1, <1>3, <1>4, <3>1, <3>2, GrownPut
    <3> QED BY <3>1, <3>3 DEF From
  <2> QED BY <1>3, <2>1, <2>2
<1> HIDE DEF k
<1>7. /\ FieldSet(g) /\ DOMAIN g = DOMAIN f \cup {m} /\ EndsAt(g, m) = k + 1
      /\ \A a \in DOMAIN f : a # m => g[a] = f[a]
  BY <1>6 DEF Grown
<1>8. /\ Held(g, k + 1)
      /\ \A i \in Nat : Held(f, i) => Held(g, i)
      /\ \A a \in DOMAIN f : a # m => a \in DOMAIN g /\ g[a] = f[a] /\ EndsAt(g, a) = EndsAt(f, a)
      /\ \A a, b \in DOMAIN f : a # m /\ b # m /\ InOrder(f, a, b) => InOrder(g, a, b)
  <2>1. FieldSet(f) /\ k \in Nat /\ Grown(f, m, k, g)
    BY <1>1, <1>4, <1>6
  <2> QED BY ONLY <2>1, GrownKeeps
<1>9. DOMAIN g \subseteq Before(t) /\ m \in DOMAIN g
  BY <1>1, <1>3, <1>7
<1>10. \A a \in DOMAIN g : EndsAt(g, a) <= Len(v)
  <2>1. \A a \in DOMAIN f : a # m => EndsAt(g, a) <= k + 1
    BY <1>1, <1>4, <1>8, IntervalIs DEF k
  <2> QED BY <1>4, <1>7, <2>1
<1>11. ASSUME NEW a \in DOMAIN g, NEW b \in Later(a)
       PROVE  InOrder(g, a, b)
  <2>1. CASE b \notin DOMAIN g
    BY <2>1 DEF InOrder
  <2>2. CASE b \in DOMAIN g
    <3>1. a # m
      BY <1>3, <1>9, <2>2
    <3>2. a \in DOMAIN f /\ EndsAt(g, a) = EndsAt(f, a)
      BY <1>7, <1>8, <3>1
    <3>3. CASE b # m
      BY <1>1, <1>7, <1>8, <2>2, <3>1, <3>2, <3>3
    <3>4. CASE b = m
      <4>1. CASE m \in DOMAIN f
        <5>1. InOrder(f, a, m) /\ g[m].off = f[m].off
          BY <1>1, <1>6, <3>2, <3>4, <4>1
        <5> QED BY <3>2, <3>4, <4>1, <5>1 DEF InOrder
      <4>2. CASE m \notin DOMAIN f
        <5>1. g[m].off = k /\ EndsAt(f, a) <= k
          BY <1>1, <1>6, <3>2, <4>2 DEF k
        <5> QED BY <3>2, <3>4, <5>1 DEF InOrder
      <4> QED BY <4>1, <4>2
    <3> QED BY <3>3, <3>4
  <2> QED BY <2>1, <2>2
<1>12. \A i \in 1 .. Len(v) : Held(g, i) \/ v[i] \in Marks
  <2> SUFFICES ASSUME NEW i \in 1 .. Len(v) PROVE Held(g, i) \/ v[i] \in Marks
    OBVIOUS
  <2>1. i \in 1 .. k \/ i = k + 1
    BY <1>4
  <2>2. i \in Nat
    OBVIOUS
  <2>3. CASE i \in 1 .. k
    <3>1. Held(f, i) \/ u[i] \in Marks
      BY <1>1, <2>3 DEF k
    <3> QED BY <1>4, <1>8, <2>2, <2>3, <3>1
  <2>4. CASE i = k + 1
    BY <1>8, <2>4
  <2> QED BY <2>1, <2>3, <2>4
<1> QED BY <1>2, <1>3, <1>4, <1>7, <1>9, <1>10, <1>11, <1>12 DEF Split

LEMMA UrlStart ==
  ASSUME Url!Init
  PROVE  UrlInv
<1>1. pc = "url" /\ url = <<>> /\ s = "spaces_before_url" /\ field = <<>> /\ uf = "none"
  BY DEF Url!Init
<1>2. DOMAIN field = {} /\ Len(url) = 0 /\ url \in Seq(Chars)
  BY <1>1
<1>3. FieldSet(field)
  <2>1. field \in [{} -> Interval]
    BY <1>1
  <2> QED BY <1>2, <2>1 DEF FieldSet
<1>4. s \in UrlStates /\ s \notin Growing
  BY <1>1 DEF UrlStates, Growing
<1>5. \A i \in 1 .. Len(url) : Held(field, i) \/ url[i] \in Marks
  BY <1>2
<1>6. Split(url, s, field, uf)
  BY <1>1, <1>2, <1>3, <1>4, <1>5 DEF Split
<1> QED BY <1>1, <1>6 DEF UrlInv

LEMMA UrlCharStep ==
  ASSUME pc = "url", Split(url, s, field, uf), NEW c \in Chars, Url!Char(c)
  PROVE  UrlInv'
<1>1. /\ url' = Append(url, c) /\ s' = Url!parse_url_char(s, c)
      /\ pc' = IF s' = "dead" THEN "refused" ELSE "url"
      /\ IF s' \in Url!Delimiters \cup {"dead"} THEN UNCHANGED <<uf, field>>
         ELSE /\ uf' = Url!FieldOf(s')
              /\ field' = IF uf' = uf THEN Url!Longer(field, uf)
                          ELSE Url!Put(field, uf', Len(url), 1)
  BY DEF Url!Char
<1>2. CASE s' = "dead"
  BY <1>1, <1>2 DEF UrlInv
<1>3. CASE s' # "dead"
  <2>1. s \in UrlStates
    BY DEF Split
  <2>2. s' \in Follows(s) /\ (s' \in Url!Delimiters => c \in Marks)
    BY <1>1, <1>3, <2>1, UrlFollows
  <2>3. CASE s' \in Url!Delimiters
    <3>1. c \in Marks /\ uf' = uf /\ field' = field
      BY <1>1, <2>2, <2>3
    <3>2. Split(url', s', field, uf)
      BY <1>1, <2>2, <2>3, <3>1, SplitDelimiter
    <3> QED BY <1>1, <1>3, <3>1, <3>2 DEF UrlInv
  <2>4. CASE s' \notin Url!Delimiters
    <3>1. Adds(url, field, uf, s', uf', field')
      BY <1>1, <1>3, <2>4 DEF Adds
    <3>2. PICK t, v, m, g : t = s' /\ v = url' /\ m = uf' /\ g = field'
      OBVIOUS
    <3>3. /\ t \in Follows(s) /\ t \notin Url!Delimiters /\ v = Append(url, c)
          /\ Adds(url, field, uf, t, m, g)
      BY <1>1, <2>2, <2>4, <3>1, <3>2
    <3>4. Split(v, t, g, m)
      BY <3>3, SplitField
    <3>5. Split(url', s', field', uf')
      BY <3>2, <3>4
    <3> QED BY <1>1, <1>3, <3>5 DEF UrlInv
  <2> QED BY <2>3, <2>4
<1> QED BY <1>2, <1>3

LEMMA UrlEndStep ==
  ASSUME pc = "url", Split(url, s, field, uf), Url!UrlEnd, pc' # "refused"
  PROVE  pc' = "host" /\ url' \in Seq(Chars) /\ HostPart(field, hs, j)'
<1> DEFINE x == field["host"].off
           e == EndsAt(field, "host")
<1>1. /\ pc' = "host" /\ {"schema", "host"} \subseteq DOMAIN field /\ j' = x /\ end' = e
      /\ field' = [field EXCEPT !["host"].len = 0]
      /\ hs' \in {"userinfo_start", "host_start"} /\ url' = url
  BY DEF Url!UrlEnd, EndsAt
<1>2. /\ url \in Seq(Chars) /\ FieldSet(field) /\ s \in UrlStates /\ DOMAIN field \subseteq Before(s)
      /\ \A a \in DOMAIN field : EndsAt(field, a) <= Len(url)
      /\ \A a \in DOMAIN field : \A b \in Later(a) : InOrder(field, a, b)
      /\ \A i \in 1 .. Len(url) : Held(field, i) \/ url[i] \in Marks
  BY DEF Split
<1>3. field["host"] \in Interval /\ x \in Nat /\ field["host"].len \in Nat /\ e \in Nat /\ x <= e
  BY <1>1, <1>2, IntervalIs DEF EndsAt
<1>4. /\ DOMAIN field' = DOMAIN field /\ field'["host"] = [off |-> x, len |-> 0]
      /\ \A a \in DOMAIN field : a # "host" => field'[a] = field[a]
  <2>1. [field["host"] EXCEPT !.len = 0] = [off |-> x, len |-> 0]
    BY <1>3 DEF Interval
  <2>2. field' = [field EXCEPT !["host"] = [off |-> x, len |-> 0]]
    BY <1>1, <2>1
  <2> QED BY <1>1, <1>2, <2>2 DEF FieldSet
<1>5. field'["host"].off = x /\ field'["host"].len = 0 /\ EndsAt(field', "host") = x
  BY <1>3, <1>4 DEF EndsAt
<1>6. FieldSet(field')
  <2>1. [off |-> x, len |-> 0] \in Interval
    BY <1>3 DEF Interval
  <2>2. \A a \in DOMAIN field' : field'[a] \in Interval
    BY <1>2, <1>4, <2>1, IntervalIs
  <2>3. field' \in [DOMAIN field' -> Interval]
    BY <1>1, <2>2
  <2> QED BY <1>2, <1>4, <2>3 DEF FieldSet
<1>7. "userinfo" \notin DOMAIN field' /\ "port" \notin DOMAIN field'
  BY <1>2, <1>4 DEF Before
<1>8. \A a \in DOMAIN field : a # "host" => field'[a].off = field[a].off /\ EndsAt(field', a) = EndsAt(field, a)
  BY <1>4 DEF EndsAt
<1> HIDE DEF x, e
<1>9. Placed(field, j)'
  <2>1. EndsAt(field', "schema") <= x
    <3>1. InOrder(field, "schema", "host")
      BY <1>1, <1>2 DEF Later
    <3> QED BY <1>1, <1>8, <3>1 DEF InOrder, x
  <2>2. e <= Len(url)
    BY <1>1, <1>2 DEF e
  <2>3. ASSUME NEW n \in DOMAIN field' \cap Rest
        PROVE  e <= field'[n].off /\ \A b \in Later(n) : InOrder(field, n, b)'
    <3>1. n \in DOMAIN field /\ n # "host" /\ n \in Later("host") /\ "host" \notin Later(n)
      BY <1>4 DEF Rest, Later
    <3>2. e <= field'[n].off
      BY <1>1, <1>2, <1>8, <3>1 DEF InOrder, e
    <3>3. ASSUME NEW b \in Later(n)
          PROVE  InOrder(field, n, b)'
      <4>1. InOrder(field, n, b) /\ b # "host"
        BY <1>2, <3>1, <3>3
      <4> QED BY <1>4, <1>8, <3>1, <4>1 DEF InOrder
    <3> QED BY <3>2, <3>3
  <2>4. j' \in Nat /\ end' \in Nat /\ j' <= end' /\ end' <= Len(url')
    BY <1>1, <1>3, <2>2
  <2>5. EndsAt(field', "schema") <= field'["host"].off /\ EndsAt(field', "host") <= j'
    BY <1>1, <1>3, <1>5, <2>1
  <2>6. \A n \in DOMAIN field' \cap Rest :
          end' <= field'[n].off /\ \A b \in Later(n) : InOrder(field', n, b)
    BY <1>1, <2>3
  <2>7. {"schema", "host"} \subseteq DOMAIN field'
    BY <1>1, <1>4
  <2> QED BY <1>6, <1>7, <2>4, <2>5, <2>6, <2>7 DEF Placed
<1>10. Phased(field, hs, j)'
  BY <1>1, <1>5, <1>7 DEF Phased, HostStates, Empty, Filling, Bracket
<1>11. Clean(field, hs, j)'
  <2>1. \A i \in Nat : ~ Within(field', "host", i)
    BY <1>3, <1>5 DEF Within
  <2> QED BY <1>1, <1>7, <2>1 DEF Clean, Bracket
<1>12. Covered(field, j)'
  <2> SUFFICES ASSUME NEW i \in 1 .. Len(url), i <= x \/ i > e, Held(field, i)
               PROVE  Held(field', i)
    BY <1>1, <1>2 DEF Covered
  <2>1. PICK n \in DOMAIN field : Within(field, n, i)
    BY DEF Held
  <2>2. n # "host"
    BY <1>3, <2>1 DEF Within, x, e
  <2>3. Within(field', n, i)
    BY <1>8, <2>1, <2>2 DEF Within
  <2> QED BY <1>4, <2>1, <2>3 DEF Held
<1> QED BY <1>1, <1>2, <1>9, <1>10, <1>11, <1>12 DEF HostPart
-----------------------------------------------------------------------------
(* http_parse_host_char: from which states, and with which characters, a   *)
(* state is reached.                                                       *)
Sources(t) ==
  CASE t \in {"userinfo", "host_start"} -> {"userinfo_start", "userinfo"}
    [] t = "v6_start"      -> {"host_start"}
    [] t = "host"          -> {"host_start", "host"}
    [] t = "v6"            -> {"v6_start", "v6"}
    [] t = "v6_zone_start" -> {"v6"}
    [] t = "v6_zone"       -> {"v6_zone_start", "v6_zone"}
    [] t = "v6_end"        -> {"v6", "v6_zone"}
    [] t = "port_start"    -> {"host", "v6_end"}
    [] OTHER               -> {"port_start", "port"}
Given(t) ==
  CASE t = "host_start" -> {"@"}
    [] t = "v6_start"   -> {"["}
    [] t = "v6_end"     -> {"]"}
    [] t = "port_start" -> {":"}
    [] t = "port"       -> {"1", "9"}
    [] t = "v6"         -> {"a", "1", "9", ":", "."}
    [] t \in {"host", "v6_zone_start", "v6_zone"} -> {"a", "z", "1", "9", ".", "%", "~"}
    [] OTHER            -> {"a", "z", "1", "9", ":", ".", "%", "~", "*"}

LEMMA HostFollows ==
  ASSUME NEW st \in HostStates, NEW c, NEW t, t = Url!http_parse_host_char(st, c), t # "dead"
  PROVE  t \in HostStates \ {"userinfo_start"} /\ st \in Sources(t) /\ c \in Given(t)
<1> USE DEF Url!http_parse_host_char, Url!IsUserinfoChar, Url!IsHostChar, Url!IsHex, Url!IsAlphaNum,
            Url!IsAlpha, Url!IsNum, Url!Digit, HostStates, Empty, Filling, Bracket
<1>1. CASE st \in {"userinfo_start", "userinfo"}
  BY <1>1 DEF Sources, Given
<1>2. CASE st = "host_start"
  BY <1>2 DEF Sources, Given
<1>3. CASE st \in {"host", "v6_end"}
  BY <1>3 DEF Sources, Given
<1>4. CASE st \in {"v6_start", "v6"}
  BY <1>4 DEF Sources, Given
<1>5. CASE st \in {"v6_zone_start", "v6_zone"}
  BY <1>5 DEF Sources, Given
<1>6. CASE st \in {"port_start", "port"}
  BY <1>6 DEF Sources, Given
<1> QED BY <1>1, <1>2, <1>3, <1>4, <1>5, <1>6

LEMMA CoveredMark ==
  ASSUME NEW f, NEW k \in Nat, Covered(f, k), url[k + 1] \in Marks
  PROVE  Covered(f, k + 1)
<1> SUFFICES ASSUME NEW i \in 1 .. Len(url), i <= k + 1 \/ i > end
             PROVE  Held(f, i) \/ url[i] \in Marks
  BY DEF Covered
<1>1. (i <= k \/ i > end) \/ i = k + 1
  OBVIOUS
<1> QED BY <1>1 DEF Covered

LEMMA CoveredGrown ==
  ASSUME NEW f, FieldSet(f), NEW k \in Nat, Covered(f, k), NEW n, NEW g, Grown(f, n, k, g)
  PROVE  Covered(g, k + 1)
<1>1. Held(g, k + 1) /\ \A i \in Nat : Held(f, i) => Held(g, i)
  BY GrownKeeps
<1> SUFFICES ASSUME NEW i \in 1 .. Len(url), i <= k + 1 \/ i > end
             PROVE  Held(g, i) \/ url[i] \in Marks
  BY DEF Covered
<1>2. ((i <= k \/ i > end) \/ i = k + 1) /\ i \in Nat
  OBVIOUS
<1> QED BY <1>1, <1>2 DEF Covered

(* A character that separates fields of the host.                          *)
Quiet == {"host_start", "v6_start", "v6_end", "port_start"}

LEMMA HostQuiet ==
  ASSUME NEW f, NEW st, NEW k, HostPart(f, st, k), k < end,
         NEW t \in Quiet, st \in Sources(t), url[k + 1] \in Given(t)
  PROVE  HostPart(f, t, k + 1)
<1>1. Placed(f, k) /\ Phased(f, st, k) /\ Clean(f, st, k) /\ Covered(f, k)
  BY DEF HostPart
<1>2. /\ FieldSet(f) /\ {"schema", "host"} \subseteq DOMAIN f
      /\ k \in Nat /\ end \in Nat /\ k <= end /\ end <= Len(url)
      /\ EndsAt(f, "schema") <= f["host"].off /\ EndsAt(f, "host") <= k
      /\ \A n \in DOMAIN f \cap Rest : end <= f[n].off /\ \A b \in Later(n) : InOrder(f, n, b)
      /\ "userinfo" \in DOMAIN f => EndsAt(f, "schema") <= f["userinfo"].off /\ EndsAt(f, "userinfo") <= k
      /\ "port" \in DOMAIN f => EndsAt(f, "host") <= f["port"].off /\ EndsAt(f, "port") <= k
  BY <1>1 DEF Placed
<1>3. \/ t = "host_start" /\ st \in {"userinfo_start", "userinfo"} /\ url[k + 1] = "@"
      \/ t = "v6_start" /\ st = "host_start" /\ url[k + 1] = "["
      \/ t = "v6_end" /\ st \in {"v6", "v6_zone"} /\ url[k + 1] = "]"
      \/ t = "port_start" /\ st \in {"host", "v6_end"} /\ url[k + 1] = ":"
  BY DEF Quiet, Sources, Given
<1>4. Placed(f, k + 1)
  <2>1. k + 1 \in Nat /\ k + 1 <= end
    BY <1>2
  <2>2. EndsAt(f, "host") <= k + 1
    BY <1>2, IntervalIs
  <2>3. "userinfo" \in DOMAIN f => EndsAt(f, "userinfo") <= k + 1
    BY <1>2, IntervalIs
  <2>4. "port" \in DOMAIN f => EndsAt(f, "port") <= k + 1
    BY <1>2, IntervalIs
  <2> QED BY <1>2, <2>1, <2>2, <2>3, <2>4 DEF Placed
<1>5. Phased(f, t, k + 1)
  BY <1>1, <1>3 DEF Phased, HostStates, Empty, Filling, Bracket
<1>6. Clean(f, t, k + 1)
  <2>1. t = "v6_start" => Opened(k + 1)
    BY <1>2, <1>3 DEF Opened
  <2>2. t \notin Bracket
    BY DEF Quiet, Bracket
  <2> QED BY <1>1, <2>1, <2>2 DEF Clean
<1>7. Covered(f, k + 1)
  <2>1. url[k + 1] \in Marks
    BY <1>3 DEF Marks
  <2> QED BY <1>1, <1>2, <2>1, CoveredMark
<1> QED BY <1>4, <1>5, <1>6, <1>7 DEF HostPart

LEMMA PlacedGrown ==
  ASSUME NEW f, NEW k, Placed(f, k), k < end, NEW n \in {"userinfo", "host", "port"}, NEW g,
         Grown(f, n, k, g),
         n # "port" => EndsAt(f, "schema") <= g[n].off,
         n = "port" => EndsAt(f, "host") <= g["port"].off,
         n = "host" => "port" \notin DOMAIN f
  PROVE  Placed(g, k + 1)
<1>1. /\ FieldSet(f) /\ {"schema", "host"} \subseteq DOMAIN f
      /\ k \in Nat /\ end \in Nat /\ k <= end /\ end <= Len(url)
      /\ EndsAt(f, "schema") <= f["host"].off /\ EndsAt(f, "host") <= k
      /\ \A m \in DOMAIN f \cap Rest : end <= f[m].off /\ \A b \in Later(m) : InOrder(f, m, b)
      /\ "userinfo" \in DOMAIN f => EndsAt(f, "schema") <= f["userinfo"].off /\ EndsAt(f, "userinfo") <= k
      /\ "port" \in DOMAIN f => EndsAt(f, "host") <= f["port"].off /\ EndsAt(f, "port") <= k
  BY DEF Placed
<1>2. /\ FieldSet(g) /\ DOMAIN g = DOMAIN f \cup {n} /\ EndsAt(g, n) = k + 1
      /\ \A m \in DOMAIN f : m # n => g[m] = f[m]
  BY DEF Grown
<1>3. /\ \A m \in DOMAIN f : m # n => m \in DOMAIN g /\ g[m] = f[m] /\ EndsAt(g, m) = EndsAt(f, m)
      /\ \A a, b \in DOMAIN f : a # n /\ b # n /\ InOrder(f, a, b) => InOrder(g, a, b)
  BY <1>1, GrownKeeps
<1>4. k + 1 \in Nat /\ k + 1 <= end
  BY <1>1
<1>5. n # "schema" /\ EndsAt(g, "schema") = EndsAt(f, "schema")
  BY <1>1, <1>3
<1>6. EndsAt(g, "schema") <= g["host"].off /\ EndsAt(g, "host") <= k + 1
  <2>1. CASE n = "host"
    BY <1>2, <1>4, <1>5, <2>1
  <2>2. CASE n # "host"
    <3>1. g["host"] = f["host"] /\ EndsAt(g, "host") = EndsAt(f, "host") /\ EndsAt(f, "host") \in Nat
      BY <1>1, <1>3, <2>2, IntervalIs
    <3> QED BY <1>1, <1>5, <3>1
  <2> QED BY <2>1, <2>2
<1>7. ASSUME NEW m \in DOMAIN g \cap Rest
      PROVE  end <= g[m].off /\ \A b \in Later(m) : InOrder(g, m, b)
  <2>1. m # n /\ m \in DOMAIN f /\ g[m] = f[m] /\ n \notin Later(m)
    BY <1>2 DEF Rest, Later
  <2>2. ASSUME NEW b \in Later(m)
        PROVE  InOrder(g, m, b)
    <3>1. CASE b \in DOMAIN f
      BY <1>1, <1>3, <2>1, <3>1
    <3>2. CASE b \notin DOMAIN f
      BY <1>2, <2>1, <3>2 DEF InOrder
    <3> QED BY <3>1, <3>2
  <2> QED BY <1>1, <2>1, <2>2
<1>8. "userinfo" \in DOMAIN g => EndsAt(g, "schema") <= g["userinfo"].off /\ EndsAt(g, "userinfo") <= k + 1
  <2> SUFFICES ASSUME "userinfo" \in DOMAIN g
               PROVE  EndsAt(g, "schema") <= g["userinfo"].off /\ EndsAt(g, "userinfo") <= k + 1
    OBVIOUS
  <2>1. CASE n = "userinfo"
    BY <1>2, <1>4, <1>5, <2>1
  <2>2. CASE n # "userinfo"
    <3>1. /\ "userinfo" \in DOMAIN f /\ g["userinfo"] = f["userinfo"]
          /\ EndsAt(g, "userinfo") = EndsAt(f, "userinfo")
      BY <1>2, <1>3, <2>2
    <3>2. EndsAt(f, "userinfo") \in Nat
      BY <1>1, <3>1, IntervalIs
    <3> QED BY <1>1, <1>5, <3>1, <3>2
  <2> QED BY <2>1, <2>2
<1>9. "port" \in DOMAIN g => EndsAt(g, "host") <= g["port"].off /\ EndsAt(g, "port") <= k + 1
  <2> SUFFICES ASSUME "port" \in DOMAIN g
               PROVE  EndsAt(g, "host") <= g["port"].off /\ EndsAt(g, "port") <= k + 1
    OBVIOUS
  <2>1. n # "host" /\ EndsAt(g, "host") = EndsAt(f, "host")
    BY <1>1, <1>2, <1>3
  <2>2. CASE n = "port"
    BY <1>2, <1>4, <2>1, <2>2
  <2>3. CASE n # "port"
    <3>1. "port" \in DOMAIN f /\ g["port"] = f["port"] /\ EndsAt(g, "port") = EndsAt(f, "port")
      BY <1>2, <1>3, <2>3
    <3>2. EndsAt(f, "port") \in Nat
      BY <1>1, <3>1, IntervalIs
    <3> QED BY <1>1, <2>1, <3>1, <3>2
  <2> QED BY <2>2, <2>3
<1> QED BY <1>1, <1>2, <1>4, <1>6, <1>7, <1>8, <1>9 DEF Placed

(* A field begins with a character, or goes on when the state remains.     *)
Added(f, n, k, st, t, g) ==
  \/ st = t /\ g = Url!Longer(f, n)
  \/ st # t /\ g = Url!Put(f, n, k, 1)

LEMMA GrownAdded ==
  ASSUME NEW f, FieldSet(f), NEW n \in Url!Fields, NEW k \in Nat, NEW st, NEW t,
         st = t => n \in DOMAIN f /\ EndsAt(f, n) = k,
         st # t => n \notin DOMAIN f,
         NEW g, Added(f, n, k, st, t, g)
  PROVE  Grown(f, n, k, g) /\ g[n].off = IF n \in DOMAIN f THEN f[n].off ELSE k
<1>1. CASE st = t
  <2>1. n \in DOMAIN f /\ EndsAt(f, n) = k /\ g = Url!Longer(f, n)
    BY <1>1 DEF Added
  <2>2. Grown(f, n, k, g) /\ From(f, n, g, f[n].off)
    BY <2>1, GrownLonger
  <2> QED BY <2>1, <2>2 DEF From
<1>2. CASE st # t
  <2>1. n \notin DOMAIN f /\ g = Url!Put(f, n, k, 1)
    BY <1>2 DEF Added
  <2>2. Grown(f, n, k, g) /\ From(f, n, g, k)
    BY <2>1, GrownPut
  <2> QED BY <2>1, <2>2 DEF From
<1> QED BY <1>1, <1>2

LEMMA HostUserinfo ==
  ASSUME NEW f, NEW st \in {"userinfo_start", "userinfo"}, NEW k, HostPart(f, st, k), k < end,
         NEW g, Added(f, "userinfo", k, st, "userinfo", g)
  PROVE  HostPart(g, "userinfo", k + 1)
<1>1. Placed(f, k) /\ Phased(f, st, k) /\ Clean(f, st, k) /\ Covered(f, k)
  BY DEF HostPart
<1>2. /\ FieldSet(f) /\ {"schema", "host"} \subseteq DOMAIN f /\ k \in Nat
      /\ EndsAt(f, "schema") <= f["host"].off /\ EndsAt(f, "host") <= k
      /\ "userinfo" \in DOMAIN f => EndsAt(f, "schema") <= f["userinfo"].off
  BY <1>1 DEF Placed
<1>3. /\ f["host"].len = 0 /\ "port" \notin DOMAIN f
      /\ st = "userinfo" => "userinfo" \in DOMAIN f /\ EndsAt(f, "userinfo") = k
      /\ st # "userinfo" => "userinfo" \notin DOMAIN f
  BY <1>1 DEF Phased, Empty
<1>4. /\ Grown(f, "userinfo", k, g)
      /\ g["userinfo"].off = IF "userinfo" \in DOMAIN f THEN f["userinfo"].off ELSE k
  <2>1. "userinfo" \in Url!Fields
    BY DEF Url!Fields
  <2> QED BY <1>2, <1>3, <2>1, GrownAdded
<1>5. /\ FieldSet(g) /\ DOMAIN g = DOMAIN f \cup {"userinfo"} /\ EndsAt(g, "userinfo") = k + 1
      /\ g["host"] = f["host"]
  BY <1>2, <1>4 DEF Grown
<1>6. Placed(g, k + 1)
  <2>1. EndsAt(f, "schema") <= k
    <3>1. f["host"].off <= EndsAt(f, "host") /\ EndsAt(f, "schema") \in Nat /\ EndsAt(f, "host") \in Nat
      BY <1>2, IntervalIs DEF EndsAt
    <3>2. f["host"].off \in Nat
      BY <1>2, IntervalIs
    <3> QED BY <1>2, <3>1, <3>2
  <2>2. EndsAt(f, "schema") <= g["userinfo"].off
    BY <1>2, <1>4, <2>1
  <2> QED BY <1>1, <1>4, <2>2, PlacedGrown
<1>7. Phased(g, "userinfo", k + 1)
  BY <1>3, <1>5 DEF Phased, HostStates, Empty, Filling, Bracket
<1>8. Clean(g, "userinfo", k + 1)
  <2>1. \A i \in Nat : Within(g, "host", i) <=> Within(f, "host", i)
    BY <1>5 DEF Within, EndsAt
  <2> QED BY <1>1, <1>3, <1>5, <2>1 DEF Clean, Bracket
<1>9. Covered(g, k + 1)
  BY <1>1, <1>2, <1>4, CoveredGrown
<1> QED BY <1>6, <1>7, <1>8, <1>9 DEF HostPart

LEMMA HostPort ==
  ASSUME NEW f, NEW st \in {"port_start", "port"}, NEW k, HostPart(f, st, k), k < end,
         Url!IsNum(url[k + 1]), NEW g, Added(f, "port", k, st, "port", g)
  PROVE  HostPart(g, "port", k + 1)
<1>1. Placed(f, k) /\ Phased(f, st, k) /\ Clean(f, st, k) /\ Covered(f, k)
  BY DEF HostPart
<1>2. /\ FieldSet(f) /\ {"schema", "host"} \subseteq DOMAIN f /\ k \in Nat
      /\ EndsAt(f, "host") <= k
      /\ "port" \in DOMAIN f => EndsAt(f, "host") <= f["port"].off
  BY <1>1 DEF Placed
<1>3. /\ f["host"].len > 0 /\ InOrder(f, "userinfo", "host")
      /\ st = "port" => "port" \in DOMAIN f /\ EndsAt(f, "port") = k
      /\ st # "port" => "port" \notin DOMAIN f
  BY <1>1 DEF Phased, Empty
<1>4. Grown(f, "port", k, g) /\ g["port"].off = IF "port" \in DOMAIN f THEN f["port"].off ELSE k
  <2>1. "port" \in Url!Fields
    BY DEF Url!Fields
  <2> QED BY <1>2, <1>3, <2>1, GrownAdded
<1>5. /\ FieldSet(g) /\ DOMAIN g = DOMAIN f \cup {"port"} /\ EndsAt(g, "port") = k + 1
      /\ \A m \in DOMAIN f : m # "port" => g[m] = f[m] /\ EndsAt(g, m) = EndsAt(f, m)
      /\ \A i \in Nat : Within(g, "port", i) <=> ("port" \in DOMAIN f /\ Within(f, "port", i)) \/ i = k + 1
  BY <1>2, <1>4 DEF Grown, EndsAt
<1>6. Placed(g, k + 1)
  <2>1. EndsAt(f, "host") <= g["port"].off
    BY <1>2, <1>4
  <2> QED BY <1>1, <1>4, <2>1, PlacedGrown
<1>7. Phased(g, "port", k + 1)
  <2>1. g["host"] = f["host"] /\ InOrder(g, "userinfo", "host")
    BY <1>2, <1>3, <1>5 DEF InOrder
  <2> QED BY <1>3, <1>5, <2>1 DEF Phased, HostStates, Empty, Filling, Bracket
<1>8. Clean(g, "port", k + 1)
  <2>1. g["host"] = f["host"] /\ \A i \in Nat : Within(g, "host", i) <=> Within(f, "host", i)
    BY <1>2, <1>5 DEF Within
  <2>2. \A i \in Nat : Within(g, "port", i) => Url!IsNum(url[i])
    BY <1>1, <1>5 DEF Clean
  <2> QED BY <1>1, <2>1, <2>2 DEF Clean, Bracket
<1>9. Covered(g, k + 1)
  BY <1>1, <1>2, <1>4, CoveredGrown
<1> QED BY <1>6, <1>7, <1>8, <1>9 DEF HostPart

(* The host begins behind what is not part of it, or goes on.              *)
Lengthened(f, k, st, t, g) ==
  \/ st \in Filling /\ g = Url!Longer(f, "host")
  \/ st \in Empty /\ g = [Url!Longer(f, "host") EXCEPT !["host"].off = k]

LEMMA HostHost ==
  ASSUME NEW f, NEW st, NEW k, HostPart(f, st, k), k < end, NEW t \in Filling,
         st \in Sources(t), url[k + 1] \in Given(t), NEW g, Lengthened(f, k, st, t, g)
  PROVE  HostPart(g, t, k + 1)
<1>1. Placed(f, k) /\ Phased(f, st, k) /\ Clean(f, st, k) /\ Covered(f, k)
  BY DEF HostPart
<1>2. /\ FieldSet(f) /\ {"schema", "host"} \subseteq DOMAIN f /\ k \in Nat
      /\ EndsAt(f, "schema") <= f["host"].off /\ EndsAt(f, "host") <= k
      /\ "userinfo" \in DOMAIN f => EndsAt(f, "userinfo") <= k
  BY <1>1 DEF Placed
<1>3. /\ "port" \notin DOMAIN f
      /\ st \in Empty => f["host"].len = 0
      /\ st \in Filling => InOrder(f, "userinfo", "host") /\ EndsAt(f, "host") = k
  BY <1>1 DEF Phased, Sources, Filling, Bracket, Empty
<1>4. Grown(f, "host", k, g) /\ g["host"].off = IF st \in Empty THEN k ELSE f["host"].off
  <2>1. CASE st \in Filling /\ g = Url!Longer(f, "host")
    <3>1. Grown(f, "host", k, g) /\ From(f, "host", g, f["host"].off)
      BY <1>2, <1>3, <2>1, GrownLonger
    <3>2. st \notin Empty
      BY <2>1 DEF Filling, Bracket, Empty
    <3> QED BY <3>1, <3>2 DEF From
  <2>2. CASE st \in Empty /\ g = [Url!Longer(f, "host") EXCEPT !["host"].off = k]
    <3>1. Grown(f, "host", k, g) /\ From(f, "host", g, k)
      BY <1>2, <1>3, <2>2, GrownHost
    <3> QED BY <2>2, <3>1 DEF From
  <2> QED BY <2>1, <2>2 DEF Lengthened
<1>5. /\ FieldSet(g) /\ DOMAIN g = DOMAIN f /\ EndsAt(g, "host") = k + 1 /\ g["host"].len > 0
      /\ \A m \in DOMAIN f : m # "host" => g[m] = f[m] /\ EndsAt(g, m) = EndsAt(f, m)
      /\ \A i \in Nat : Within(g, "host", i) <=> Within(f, "host", i) \/ i = k + 1
  BY <1>2, <1>4 DEF Grown, EndsAt
<1>6. f["host"].off \in Nat /\ f["host"].off <= k /\ EndsAt(f, "schema") <= g["host"].off
  <2>1. f["host"].off \in Nat /\ f["host"].off <= EndsAt(f, "host")
    BY <1>2, IntervalIs DEF EndsAt
  <2>2. EndsAt(f, "host") \in Nat /\ EndsAt(f, "schema") \in Nat
    BY <1>2, IntervalIs
  <2> QED BY <1>2, <1>4, <2>1, <2>2
<1>7. Placed(g, k + 1)
  BY <1>1, <1>3, <1>4, <1>6, PlacedGrown
<1>8. st \in Empty \/ st \in Filling
  BY DEF Sources, Filling, Bracket, Empty
<1>9. Phased(g, t, k + 1)
  <2>1. InOrder(g, "userinfo", "host")
    <3>1. CASE st \in Empty
      BY <1>2, <1>4, <1>5, <3>1 DEF InOrder
    <3>2. CASE st \notin Empty
      <4>1. InOrder(f, "userinfo", "host") /\ g["host"].off = f["host"].off
        BY <1>3, <1>4, <1>8, <3>2
      <4> QED BY <1>5, <4>1 DEF InOrder
    <3> QED BY <3>1, <3>2
  <2>2. t \in HostStates /\ t \notin Empty /\ t \notin {"userinfo_start", "userinfo", "port"}
    BY DEF HostStates, Empty, Filling, Bracket
  <2> QED BY <1>3, <1>5, <2>1, <2>2 DEF Phased
<1>10. Clean(g, t, k + 1)
  <2>1. t \in Bracket => Opened(g["host"].off)
    <3> SUFFICES ASSUME t \in Bracket PROVE Opened(g["host"].off)
      OBVIOUS
    <3>1. st = "v6_start" \/ (st \in Bracket /\ st \notin Empty)
      BY DEF Sources, Bracket, Empty
    <3>2. st = "v6_start" => st \in Empty
      BY DEF Empty
    <3> QED BY <1>1, <1>4, <3>1, <3>2 DEF Clean
  <2>2. ASSUME NEW i \in Nat, Within(f, "host", i)
        PROVE  url[i] \in HostChars /\ (url[i] = ":" => Opened(g["host"].off))
    <3>1. st \notin Empty
      <4> SUFFICES ASSUME st \in Empty PROVE FALSE
        OBVIOUS
      <4>1. f["host"].len = 0 /\ f["host"].off \in Nat
        BY <1>3, <1>6
      <4> QED BY <2>2, <4>1 DEF Within, EndsAt
    <3>2. g["host"].off = f["host"].off
      BY <1>4, <3>1
    <3> QED BY <1>1, <2>2, <3>2 DEF Clean
  <2>3. url[k + 1] \in HostChars /\ (url[k + 1] = ":" => t \in Bracket)
    BY DEF Given, HostChars, Filling, Bracket
  <2>4. t # "v6_start" /\ "port" \notin DOMAIN g
    BY <1>3, <1>5 DEF Filling, Bracket
  <2> QED BY <1>5, <2>1, <2>2, <2>3, <2>4 DEF Clean
<1>11. Covered(g, k + 1)
  BY <1>1, <1>2, <1>4, CoveredGrown
<1> QED BY <1>7, <1>9, <1>10, <1>11 DEF HostPart

LEMMA HostFieldIs ==
  ASSUME NEW st \in HostStates, NEW t \in HostStates \ {"userinfo_start"}, st \in Sources(t),
         HostPart(field, st, j), NEW g, g = Url!HostField(field, st, t)
  PROVE  /\ t \in Quiet => g = field
         /\ t = "userinfo" => Added(field, "userinfo", j, st, t, g)
         /\ t = "port" => Added(field, "port", j, st, t, g)
         /\ t \in Filling => Lengthened(field, j, st, t, g)
<1>1. t \in Quiet => g = field
  BY DEF Url!HostField, Quiet
<1>2. t = "userinfo" => Added(field, "userinfo", j, st, t, g)
  BY DEF Url!HostField, Url!Begun, Added
<1>3. t = "port" => Added(field, "port", j, st, t, g)
  BY DEF Url!HostField, Url!Begun, Added
<1>4. ASSUME t \in {"v6_zone_start", "v6_zone"}
      PROVE  Lengthened(field, j, st, t, g)
  BY <1>4 DEF Url!HostField, Lengthened, Sources, Filling, Bracket
<1>5. ASSUME t \in {"host", "v6"}
      PROVE  Lengthened(field, j, st, t, g)
  <2> DEFINE w == Url!Longer(field, "host")
  <2>1. g = [w EXCEPT !["host"].off = IF st = t THEN @ ELSE j]
    BY <1>5 DEF Url!HostField
  <2>2. CASE st = t
    <3>1. FieldSet(field) /\ "host" \in DOMAIN field /\ j \in Nat /\ EndsAt(field, "host") = j
      BY <1>5, <2>2 DEF HostPart, Placed, Phased, Filling, Bracket
    <3>2. Grown(field, "host", j, w)
      BY <3>1, GrownLonger
    <3>3. FieldSet(w) /\ "host" \in DOMAIN w
      BY <3>1, <3>2 DEF Grown
    <3> HIDE DEF w
    <3>4. w["host"] \in Interval
      BY <3>3, IntervalIs
    <3>5. [w["host"] EXCEPT !.off = @] = w["host"]
      BY <3>4 DEF Interval
    <3>6. g = [w EXCEPT !["host"] = [w["host"] EXCEPT !.off = @]]
      BY <2>1, <2>2
    <3>7. g = w
      BY <3>3, <3>5, <3>6 DEF FieldSet
    <3> QED BY <1>5, <2>2, <3>7 DEF w, Lengthened, Filling, Bracket
  <2>3. CASE st # t
    <3>1. g = [w EXCEPT !["host"].off = j]
      BY <2>1, <2>3
    <3>2. st \in Empty
      BY <1>5, <2>3 DEF Sources, Empty
    <3> QED BY <3>1, <3>2 DEF Lengthened
  <2> QED BY <2>2, <2>3
<1> QED BY <1>1, <1>2, <1>3, <1>4, <1>5 DEF Filling, Bracket

LEMMA HostCharStep ==
  ASSUME pc = "host", url \in Seq(Chars), HostPart(field, hs, j), Url!HostChar
  PROVE  UrlInv'
<1>1. /\ j < end /\ hs' = Url!http_parse_host_char(hs, url[j + 1]) /\ j' = j + 1
      /\ IF hs' = "dead" THEN pc' = "refused" ELSE field' = Url!HostField(field, hs, hs') /\ pc' = pc
      /\ url' = url /\ end' = end
  BY DEF Url!HostChar
<1>2. CASE hs' = "dead"
  BY <1>1, <1>2 DEF UrlInv
<1>3. CASE hs' # "dead"
  <2>1. PICK t, g : t = hs' /\ g = field'
    OBVIOUS
  <2>2. hs \in HostStates
    BY DEF HostPart, Phased
  <2>3. t \in HostStates \ {"userinfo_start"} /\ hs \in Sources(t) /\ url[j + 1] \in Given(t)
    BY <1>1, <1>3, <2>1, <2>2, HostFollows
  <2>4. g = Url!HostField(field, hs, t)
    BY <1>1, <1>3, <2>1
  <2>5. /\ t \in Quiet => g = field
        /\ t = "userinfo" => Added(field, "userinfo", j, hs, t, g)
        /\ t = "port" => Added(field, "port", j, hs, t, g)
        /\ t \in Filling => Lengthened(field, j, hs, t, g)
    BY <2>2, <2>3, <2>4, HostFieldIs
  <2>6. HostPart(g, t, j + 1)
    <3>1. CASE t \in Quiet
      BY <1>1, <2>3, <2>5, <3>1, HostQuiet
    <3>2. CASE t = "userinfo"
      <4>1. hs \in {"userinfo_start", "userinfo"}
        BY <2>3, <3>2 DEF Sources
      <4> QED BY <1>1, <2>5, <3>2, <4>1, HostUserinfo
    <3>3. CASE t = "port"
      <4>1. hs \in {"port_start", "port"} /\ Url!IsNum(url[j + 1])
        BY <2>3, <3>3 DEF Sources, Given, Url!IsNum, Url!Digit
      <4> QED BY <1>1, <2>5, <3>3, <4>1, HostPort
    <3>4. CASE t \in Filling
      BY <1>1, <2>3, <2>5, <3>4, HostHost
    <3> QED BY <2>3, <3>1, <3>2, <3>3, <3>4 DEF HostStates, Empty, Quiet
  <2>7. HostPart(field, hs, j)'
    BY <1>1, <2>1, <2>6 DEF HostPart, Placed, Phased, Clean, Covered, Opened
  <2> QED BY <1>1, <1>3, <2>7 DEF UrlInv
<1> QED BY <1>2, <1>3
-----------------------------------------------------------------------------
(* strtoul: the value of digits, for any number of them.                   *)
ValueAs(f, v) ==
  v = [k \in 0 .. f.len |-> IF k = 0 THEN 0 ELSE v[k - 1] * 10 + Url!Digit[url[f.off + k]]]

LEMMA ValueNat ==
  ASSUME NEW f \in Interval, \A k \in 1 .. f.len : Url!IsNum(url[f.off + k])
  PROVE  Url!Value(f) \in Nat
<1> DEFINE n == f.len
           d(k) == Url!Digit[url[f.off + k]]
           F == [k \in 1 .. n |-> [x \in Nat |-> x * 10 + d(k)]]
           v == CHOOSE v : ValueAs(f, v)
<1>1. n \in Nat
  BY DEF Interval
<1>2. \A k \in 1 .. n : d(k) \in Nat
  BY DEF Url!IsNum, Url!Digit
<1>3. \A k \in 1 .. n : \A x \in Nat : x * 10 + d(k) \in Nat
  <2> HIDE DEF d, n
  <2> QED BY <1>2
<1>4. F \in [1 .. n -> [Nat -> Nat]]
  BY <1>3
<1>5. \A k \in 1 .. n : \A x \in Nat : F[k][x] = x * 10 + d(k)
  OBVIOUS
<1> HIDE DEF n, d, F
<1>6. PICK h \in [0 .. n -> Nat] : Carried(0, F, n, h)
  BY <1>1, <1>4, CarriedExists
<1>7. ASSUME NEW k \in 0 .. n
      PROVE  h[k] = IF k = 0 THEN 0 ELSE h[k - 1] * 10 + d(k)
  <2>1. CASE k = 0
    BY <1>6, <2>1 DEF Carried
  <2>2. CASE k # 0
    <3>1. k \in 1 .. n /\ k - 1 \in 0 .. n
      BY <1>1, <2>2
    <3>2. h[k] = F[k][h[k - 1]] /\ h[k - 1] \in Nat
      BY <1>6, <3>1 DEF Carried
    <3> QED BY <1>5, <2>2, <3>1, <3>2
  <2> QED BY <2>1, <2>2
<1>8. h = [k \in 0 .. n |-> IF k = 0 THEN 0 ELSE h[k - 1] * 10 + d(k)]
  BY <1>6, <1>7
<1>9. ValueAs(f, h)
  BY <1>8 DEF ValueAs, n, d
<1>10. ValueAs(f, v)
  BY <1>9
<1>11. Url!Value(f) = v[n]
  BY DEF Url!Value, ValueAs, n
<1> HIDE DEF v
<1>12. v = [k \in 0 .. n |-> IF k = 0 THEN 0 ELSE v[k - 1] * 10 + d(k)]
  BY <1>10 DEF ValueAs, n, d
<1>13. v[0] \in Nat
  BY <1>1, <1>12
<1>14. ASSUME NEW k \in 1 .. n, v[k - 1] \in Nat
       PROVE  v[k] \in Nat
  <2>1. v[k] = v[k - 1] * 10 + d(k)
    BY <1>1, <1>12
  <2> QED BY <1>2, <1>14, <2>1
<1>15. \A k \in 0 .. n : v[k] \in Nat
  BY <1>1, <1>13, <1>14, Inherited
<1> QED BY <1>1, <1>11, <1>15

LEMMA Uncut ==
  ASSUME NEW m \in Nat, NEW v \in 0 .. m
  PROVE  v % (m + 1) = v
OBVIOUS

LEMMA HostEndStep ==
  ASSUME pc = "host", url \in Seq(Chars), HostPart(field, hs, j), Url!HostEnd
  PROVE  UrlInv'
<1> DEFINE v == IF "port" \in DOMAIN field THEN Url!Value(field["port"]) ELSE 0
<1>1. /\ j = end /\ UNCHANGED <<url, field, hs, j, end>>
      /\ IF hs \in Url!HostEnds /\ v <= MaxPort
           THEN pc' = "ok" /\ port' = v % (MaxPort + 1) ELSE pc' = "refused"
  BY DEF Url!HostEnd, Url!InRange
<1>2. v \in Nat
  <2> SUFFICES ASSUME "port" \in DOMAIN field PROVE Url!Value(field["port"]) \in Nat
    OBVIOUS
  <2>1. FieldSet(field) /\ \A i \in Nat : Within(field, "port", i) => Url!IsNum(url[i])
    BY DEF HostPart, Placed, Clean
  <2>2. field["port"] \in Interval /\ field["port"].off \in Nat /\ field["port"].len \in Nat
    BY <2>1, IntervalIs
  <2>3. \A k \in 1 .. field["port"].len : Url!IsNum(url[field["port"].off + k])
    <3> SUFFICES ASSUME NEW k \in 1 .. field["port"].len PROVE Url!IsNum(url[field["port"].off + k])
      OBVIOUS
    <3>1. field["port"].off + k \in Nat /\ Within(field, "port", field["port"].off + k)
      BY <2>2 DEF Within, EndsAt
    <3> QED BY <2>1, <3>1
  <2> QED BY <2>2, <2>3, ValueNat
<1>3. HostPart(field, hs, j)'
  BY <1>1 DEF HostPart, Placed, Phased, Clean, Covered, Opened
<1>4. CASE pc' = "ok"
  <2>1. hs \in Url!HostEnds /\ v <= MaxPort /\ port' = v % (MaxPort + 1)
    BY <1>1, <1>4
  <2>2. MaxPort \in Nat
    BY ScannerAssumption DEF Url!UrlConstants
  <2>3. port' = v
    <3> HIDE DEF v
    <3>1. v \in 0 .. MaxPort
      BY <1>2, <2>1, <2>2
    <3> QED BY <2>1, <2>2, <3>1, Uncut
  <2>4. Url!PortExact'
    BY <1>1, <2>3 DEF Url!PortExact, Url!Value
  <2> QED BY <1>1, <1>3, <1>4, <2>1, <2>4 DEF UrlInv
<1>5. CASE pc' = "refused"
  BY <1>5 DEF UrlInv
<1> QED BY <1>1, <1>4, <1>5
-----------------------------------------------------------------------------
(* The fields of an accepted URL follow one another.                       *)
LEMMA AllInOrder ==
  ASSUME NEW f, NEW st \in Url!HostEnds, HostPart(f, st, end)
  PROVE  \A a \in DOMAIN f : \A b \in Later(a) : InOrder(f, a, b)
<1>1. /\ FieldSet(f) /\ {"schema", "host"} \subseteq DOMAIN f /\ end \in Nat
      /\ EndsAt(f, "schema") <= f["host"].off /\ EndsAt(f, "host") <= end
      /\ \A n \in DOMAIN f \cap Rest : end <= f[n].off /\ \A b \in Later(n) : InOrder(f, n, b)
      /\ "userinfo" \in DOMAIN f => EndsAt(f, "schema") <= f["userinfo"].off /\ EndsAt(f, "userinfo") <= end
      /\ "port" \in DOMAIN f => EndsAt(f, "host") <= f["port"].off /\ EndsAt(f, "port") <= end
  BY DEF HostPart, Placed
<1>2. InOrder(f, "userinfo", "host")
  BY DEF HostPart, Phased, Url!HostEnds, Empty
<1>3. \A n \in DOMAIN f : f[n].off \in Nat /\ EndsAt(f, n) \in Nat /\ f[n].off <= EndsAt(f, n)
  BY <1>1, IntervalIs DEF EndsAt
<1> SUFFICES ASSUME NEW a \in DOMAIN f, NEW b \in Later(a), b \in DOMAIN f
             PROVE  EndsAt(f, a) <= f[b].off
  BY DEF InOrder
<1>4. a \in Url!Fields
  BY <1>1 DEF FieldSet
<1>5. CASE a \in Rest
  BY <1>1, <1>5 DEF InOrder
<1>6. CASE a = "port"
  <2>1. b \in Rest
    BY <1>6 DEF Later, Rest
  <2> QED BY <1>1, <1>3, <1>6, <2>1
<1>7. CASE a = "host"
  <2>1. b \in Rest \/ b = "port"
    BY <1>7 DEF Later, Rest
  <2> QED BY <1>1, <1>3, <1>7, <2>1
<1>8. CASE a = "userinfo"
  <2>1. b \in Rest \/ b = "port" \/ b = "host"
    BY <1>8 DEF Later, Rest
  <2>2. EndsAt(f, "userinfo") <= f["host"].off
    BY <1>1, <1>2, <1>8 DEF InOrder
  <2> QED BY <1>1, <1>3, <1>8, <2>1, <2>2
<1>9. CASE a = "schema"
  <2>1. (b \in Rest \/ b = "port") \/ (b = "host" \/ b = "userinfo")
    BY <1>9 DEF Later, Rest
  <2> QED BY <1>1, <1>3, <1>9, <2>1
<1> QED BY <1>4, <1>5, <1>6, <1>7, <1>8, <1>9 DEF Url!Fields, Rest

(* WrkUrl counts with its own instance of FiniteSets.                      *)
LEMMA UrlCardinality == \A S : Url!Cardinality(S) = Cardinality(S)
BY DEF Url!Cardinality, Cardinality

LEMMA UrlPartition ==
  ASSUME url \in Seq(Chars), NEW st \in Url!HostEnds, HostPart(field, st, end)
  PROVE  Url!Partition
<1>1. \A a \in DOMAIN field : \A b \in Later(a) : InOrder(field, a, b)
  BY AllInOrder
<1>2. FieldSet(field) /\ end \in Nat /\ Covered(field, end)
  BY DEF HostPart, Placed
<1>3. \A n, i : Url!Inside(n, i) <=> Within(field, n, i)
  BY DEF Url!Inside, Within, EndsAt
<1>4. ASSUME NEW i \in Nat, NEW a \in DOMAIN field, NEW b \in DOMAIN field,
             Within(field, a, i), Within(field, b, i)
      PROVE  a = b
  <2>1. a \in Url!Fields /\ b \in Url!Fields
    BY <1>2 DEF FieldSet
  <2>2. (a = b \/ b \in Later(a)) \/ a \in Later(b)
    BY <2>1 DEF Url!Fields, Later
  <2>3. /\ EndsAt(field, a) \in Nat /\ EndsAt(field, b) \in Nat
        /\ field[a].off \in Nat /\ field[b].off \in Nat
    BY <1>2, IntervalIs
  <2>4. ~ (EndsAt(field, a) <= field[b].off) /\ ~ (EndsAt(field, b) <= field[a].off)
    BY <1>4, <2>3 DEF Within
  <2> QED BY <1>1, <2>2, <2>4 DEF InOrder
<1>5. ASSUME NEW i \in DOMAIN url, NEW own, own = {n \in DOMAIN field : Url!Inside(n, i)}
      PROVE  \/ Cardinality(own) = 1
             \/ own = {} /\ url[i] \in {":", "/", "@", "?", "#", "[", "]"}
  <2>1. i \in 1 .. Len(url) /\ i \in Nat
    OBVIOUS
  <2>2. CASE Held(field, i)
    <3>1. PICK n \in DOMAIN field : Within(field, n, i)
      BY <2>2 DEF Held
    <3>2. own = {n}
      BY <1>3, <1>4, <1>5, <2>1, <3>1
    <3> QED BY <3>2, FS_Singleton
  <2>3. CASE ~ Held(field, i)
    <3>1. own = {}
      BY <1>3, <1>5, <2>3 DEF Held
    <3>2. url[i] \in Marks
      BY <1>2, <2>1, <2>3 DEF Covered
    <3> QED BY <3>1, <3>2 DEF Marks
  <2> QED BY <2>2, <2>3
<1>6. ASSUME NEW a \in 1 .. Len(Url!Order), NEW b \in 1 .. Len(Url!Order), a < b,
             {Url!Order[a], Url!Order[b]} \subseteq DOMAIN field
      PROVE  field[Url!Order[a]].off + field[Url!Order[a]].len <= field[Url!Order[b]].off
  <2>1. a \in 1 .. 7 /\ b \in 1 .. 7
    BY DEF Url!Order
  <2>2. Url!Order[b] \in Later(Url!Order[a])
    <3>1. /\ Url!Order[1] = "schema" /\ Url!Order[2] = "userinfo" /\ Url!Order[3] = "host"
          /\ Url!Order[4] = "port" /\ Url!Order[5] = "path" /\ Url!Order[6] = "query"
          /\ Url!Order[7] = "fragment"
      BY DEF Url!Order
    <3>2. CASE a = 1
      <4>1. Url!Order[b] \in {"userinfo", "host", "port", "path", "query", "fragment"} /\ Url!Order[a] = "schema"
        BY <1>6, <2>1, <3>1, <3>2
      <4> QED BY <4>1 DEF Later
    <3>3. CASE a = 2
      <4>1. Url!Order[b] \in {"host", "port", "path", "query", "fragment"} /\ Url!Order[a] = "userinfo"
        BY <1>6, <2>1, <3>1, <3>3
      <4> QED BY <4>1 DEF Later
    <3>4. CASE a = 3
      <4>1. Url!Order[b] \in {"port", "path", "query", "fragment"} /\ Url!Order[a] = "host"
        BY <1>6, <2>1, <3>1, <3>4
      <4> QED BY <4>1 DEF Later
    <3>5. CASE a = 4
      <4>1. Url!Order[b] \in {"path", "query", "fragment"} /\ Url!Order[a] = "port"
        BY <1>6, <2>1, <3>1, <3>5
      <4> QED BY <4>1 DEF Later
    <3>6. CASE a = 5
      <4>1. Url!Order[b] \in {"query", "fragment"} /\ Url!Order[a] = "path"
        BY <1>6, <2>1, <3>1, <3>6
      <4> QED BY <4>1 DEF Later
    <3>7. CASE a = 6
      <4>1. Url!Order[b] \in {"fragment"} /\ Url!Order[a] = "query"
        BY <1>6, <2>1, <3>1, <3>7
      <4> QED BY <4>1 DEF Later
    <3> QED BY <1>6, <2>1, <3>2, <3>3, <3>4, <3>5, <3>6, <3>7
  <2> QED BY <1>1, <1>6, <2>2 DEF InOrder, EndsAt
<1>7. \A i \in DOMAIN url :
        LET own == {n \in DOMAIN field : Url!Inside(n, i)}
        IN  \/ Url!Cardinality(own) = 1
            \/ own = {} /\ url[i] \in {":", "/", "@", "?", "#", "[", "]"}
  BY <1>5, UrlCardinality
<1>8. \A a, b \in 1 .. Len(Url!Order) :
        a < b /\ {Url!Order[a], Url!Order[b]} \subseteq DOMAIN field =>
          field[Url!Order[a]].off + field[Url!Order[a]].len <= field[Url!Order[b]].off
  BY <1>6
<1> QED BY <1>7, <1>8 DEF Url!Partition

LEMMA UrlHostClean ==
  ASSUME url \in Seq(Chars), NEW st \in Url!HostEnds, HostPart(field, st, end)
  PROVE  Url!HostClean
<1> DEFINE x == field["host"].off
           n == field["host"].len
           h == Url!Host
<1>1. FieldSet(field) /\ "host" \in DOMAIN field /\ end \in Nat /\ end <= Len(url) /\ EndsAt(field, "host") <= end
  BY DEF HostPart, Placed
<1>2. x \in Nat /\ n \in Nat /\ n > 0 /\ x + n <= Len(url)
  <2>1. n > 0
    BY DEF HostPart, Phased, Url!HostEnds, Empty
  <2>2. x \in Nat /\ n \in Nat /\ x + n <= end
    BY <1>1, IntervalIs DEF EndsAt
  <2> QED BY <1>1, <2>1, <2>2
<1>3. \A i \in Nat : Within(field, "host", i) => url[i] \in HostChars /\ (url[i] = ":" => Opened(x))
  BY DEF HostPart, Clean
<1>4. \A i \in 1 .. n : Within(field, "host", x + i) /\ x + i \in Nat
  <2> SUFFICES ASSUME NEW i \in 1 .. n PROVE Within(field, "host", x + i) /\ x + i \in Nat
    OBVIOUS
  <2>1. x < x + i /\ x + i <= x + n /\ x + i \in Nat
    <3> HIDE DEF x, n
    <3> QED BY <1>2
  <2> QED BY <2>1 DEF Within, EndsAt
<1>5. h = SubSeq(url, x + 1, x + n)
  BY DEF Url!Host
<1> HIDE DEF x, n, h
<1>6. Len(h) = n /\ DOMAIN h = 1 .. n /\ \A i \in 1 .. n : h[i] = url[x + i]
  BY <1>2, <1>5
<1>7. h # <<>>
  BY <1>2, <1>6
<1>8. ASSUME NEW i \in DOMAIN h
      PROVE  h[i] \in HostChars /\ (h[i] = ":" => Opened(x))
  BY <1>3, <1>4, <1>6
<1>9. \A i \in DOMAIN h : /\ h[i] \notin {"@", "/", "[", "]", "?", "#", "*"}
                          /\ h[i] = ":" => x > 0 /\ url[x] = "["
  BY <1>8 DEF HostChars, Opened
<1> QED BY <1>7, <1>9 DEF Url!HostClean, h, x
-----------------------------------------------------------------------------
LEMMA UrlStep ==
  ASSUME UrlInv, Url!Next
  PROVE  UrlInv'
<1>1. CASE \E c \in Chars : Url!Char(c)
  <2>1. PICK c \in Chars : Url!Char(c)
    BY <1>1
  <2>2. pc = "url" /\ Split(url, s, field, uf)
    BY <2>1 DEF Url!Char, UrlInv
  <2> QED BY <2>1, <2>2, UrlCharStep
<1>2. CASE Url!UrlEnd
  <2>1. pc = "url" /\ Split(url, s, field, uf)
    BY <1>2 DEF Url!UrlEnd, UrlInv
  <2>2. CASE pc' = "refused"
    BY <2>2 DEF UrlInv
  <2>3. CASE pc' # "refused"
    <3>1. pc' = "host" /\ url' \in Seq(Chars) /\ HostPart(field, hs, j)'
      BY <1>2, <2>1, <2>3, UrlEndStep
    <3> QED BY <3>1 DEF UrlInv
  <2> QED BY <2>2, <2>3
<1>3. CASE Url!HostChar
  <2>1. pc = "host" /\ url \in Seq(Chars) /\ HostPart(field, hs, j)
    BY <1>3 DEF Url!HostChar, UrlInv
  <2> QED BY <1>3, <2>1, HostCharStep
<1>4. CASE Url!HostEnd
  <2>1. pc = "host" /\ url \in Seq(Chars) /\ HostPart(field, hs, j)
    BY <1>4 DEF Url!HostEnd, UrlInv
  <2> QED BY <1>4, <2>1, HostEndStep
<1> QED BY <1>1, <1>2, <1>3, <1>4 DEF Url!Next

(* While a URL is read, its fields lie apart and in order, the one that    *)
(* grows ends where the reading is, and what is in no field separates two  *)
(* (http_parser.c:2206-2255, 2293-2378).                                   *)
THEOREM UrlInvariant == ScanSpec => [](scan = "url" => UrlInv)
<1> DEFINE I == scan = "url" => UrlInv
<1>1. ScanInit => I
  BY UrlStart DEF ScanInit
<1>2. I /\ [ScanNext]_scanVars => I'
  <2> SUFFICES ASSUME I, [ScanNext]_scanVars, scan' = "url"
               PROVE  UrlInv'
    OBVIOUS
  <2>1. CASE scan = "url" /\ Url!Next
    BY <2>1, UrlStep
  <2>2. CASE UNCHANGED scanVars
    <3>1. UNCHANGED <<scan, url, s, uf, field, hs, j, end, pc, port>>
      BY <2>2 DEF scanVars, address
    <3>2. UrlInv
      BY <3>1
    <3>3. Url!PortExact => Url!PortExact'
      BY <3>1 DEF Url!PortExact, Url!Value
    <3>4. HostPart(field, hs, j) => HostPart(field, hs, j)'
      BY <3>1 DEF HostPart, Placed, Phased, Clean, Covered, Opened
    <3> QED BY <3>1, <3>2, <3>3, <3>4 DEF UrlInv
  <2>3. (scan = "url" /\ Url!Next) \/ UNCHANGED scanVars
    BY DEF ScanNext
  <2> QED BY <2>1, <2>2, <2>3
<1> QED BY <1>1, <1>2, PTL DEF ScanSpec

(* The port of an accepted URL is the number that its digits spell, for    *)
(* any number of digits: strtoul's result is checked before it is cut to   *)
(* 16 bits (http_parser.c:2369-2378).                                      *)
THEOREM PortExactSafe == ScanSpec => []PortExact
<1>1. (scan = "url" => UrlInv) => PortExact
  BY DEF UrlInv, PortExact, Url!PortExact
<1> QED BY <1>1, UrlInvariant, PTL

(* Each character of an accepted URL, of any length, is in one field or    *)
(* separates two; the fields are in order, and the host is not empty and   *)
(* free of brackets, user and port (http_parser.c:2206-2349).              *)
THEOREM FieldsExactSafe == ScanSpec => []FieldsExact
<1>1. (scan = "url" => UrlInv) => FieldsExact
  <2> SUFFICES ASSUME UrlInv, pc = "ok"
               PROVE  Url!Partition /\ Url!HostClean
    BY DEF FieldsExact, Url!FieldsExact
  <2>1. url \in Seq(Chars) /\ hs \in Url!HostEnds /\ HostPart(field, hs, end)
    BY DEF UrlInv
  <2> QED BY <2>1, UrlPartition, UrlHostClean
<1> QED BY <1>1, UrlInvariant, PTL
=============================================================================
