--------------------------- MODULE CircularLemmas ---------------------------
(***************************************************************************)
(* What the proofs about the kernel's circular buffers share: facts about  *)
(* %, and what putting and taking an entry does to the sequence of entries *)
(* that a buffer holds.  The buffer has m slots, and its two counters wrap *)
(* around at u, a multiple of m: m itself for the rings of messages, 2^32  *)
(* for the pipes.                                                          *)
(***************************************************************************)
EXTENDS Integers, Sequences, TLAPS

(* The time the provers are given, where a step does not say.              *)
USE SMTT(20), ZenonT(20)

-----------------------------------------------------------------------------
(* Sequences: their length, the empty one, adding at the end and taking    *)
(* from the front.                                                         *)

LEMMA LengthFacts ==
  ASSUME NEW S, NEW s \in Seq(S)
  PROVE  Len(s) \in Nat /\ s \in [1 .. Len(s) -> S] /\ DOMAIN s = 1 .. Len(s)
OBVIOUS

LEMMA ArrayFacts ==
  ASSUME NEW S, NEW n \in Nat, NEW f \in [1 .. n -> S]
  PROVE  f \in Seq(S) /\ Len(f) = n
OBVIOUS

LEMMA EqualFacts ==
  ASSUME NEW S, NEW s \in Seq(S), NEW t \in Seq(S),
         Len(s) = Len(t), \A i \in 1 .. Len(s) : s[i] = t[i]
  PROVE  s = t
<1>1. /\ DOMAIN s = 1 .. Len(s) /\ s \in [1 .. Len(s) -> S]
      /\ DOMAIN t = 1 .. Len(s) /\ t \in [1 .. Len(s) -> S]
  BY LengthFacts
<1> QED
  BY <1>1

LEMMA EmptyFacts ==
  ASSUME NEW S
  PROVE  /\ <<>> \in Seq(S) /\ Len(<<>>) = 0
         /\ \A s \in Seq(S) : s # <<>> => Len(s) \in Nat \ {0}
OBVIOUS

LEMMA AppendFacts ==
  ASSUME NEW S, NEW s \in Seq(S), NEW x \in S
  PROVE  /\ Append(s, x) \in Seq(S)
         /\ Len(Append(s, x)) = Len(s) + 1
         /\ \A i \in 1 .. Len(s) : Append(s, x)[i] = s[i]
         /\ Append(s, x)[Len(s) + 1] = x
OBVIOUS

LEMMA TailFacts ==
  ASSUME NEW S, NEW s \in Seq(S), s # <<>>
  PROVE  /\ Head(s) \in S
         /\ Tail(s) \in Seq(S)
         /\ Len(Tail(s)) = Len(s) - 1
         /\ \A i \in 1 .. Len(Tail(s)) : Tail(s)[i] = s[i + 1]
OBVIOUS

(* A remainder is in range, and differs from the number by a multiple of   *)
(* the divisor.                                                            *)
LEMMA ModDef ==
  ASSUME NEW m \in Nat \ {0}, NEW a \in Int
  PROVE  /\ a % m \in 0 .. (m - 1)
         /\ a \div m \in Int
         /\ a = m * (a \div m) + (a % m)
OBVIOUS

(* The multiples of m are m apart.                                         *)
LEMMA MultipleGap ==
  ASSUME NEW m \in Nat \ {0}, NEW k \in Int, m * k < m, - m < m * k
  PROVE  k = 0
<1>1. k <= 0
  <2>1. SUFFICES ASSUME k >= 1
                 PROVE  FALSE
    OBVIOUS
  <2>2. m * (k - 1) >= 0
    BY <2>1
  <2>3. m * k = m * (k - 1) + m
    OBVIOUS
  <2> QED
    BY <2>2, <2>3
<1>2. k >= 0
  <2>1. SUFFICES ASSUME k <= -1
                 PROVE  FALSE
    OBVIOUS
  <2>2. m * (-1 - k) >= 0
    BY <2>1
  <2>3. m * k = - m - m * (-1 - k)
    OBVIOUS
  <2> QED
    BY <2>2, <2>3
<1> QED
  BY <1>1, <1>2

(* There is one way to write a number as a multiple of m and a remainder.  *)
LEMMA ModUnique ==
  ASSUME NEW m \in Nat \ {0}, NEW k \in Int, NEW r \in 0 .. (m - 1)
  PROVE  (m * k + r) % m = r
<1> DEFINE a == m * k + r
           d == a \div m
           s == a % m
<1>1. a \in Int
  OBVIOUS
<1>2. s \in 0 .. (m - 1) /\ d \in Int /\ a = m * d + s
  BY <1>1, ModDef
<1>3. m * (k - d) = s - r
  <2>1. m * (k - d) = m * k - m * d
    BY <1>2
  <2>2. m * k + r = m * d + s
    BY <1>2
  <2>3. m * k \in Int /\ m * d \in Int
    BY <1>2
  <2> HIDE DEF a, d, s
  <2> QED
    BY <1>2, <2>1, <2>2, <2>3
<1> HIDE DEF a, d, s
<1>4. k - d = 0
  BY <1>2, <1>3, MultipleGap
<1>5. s - r = 0
  BY <1>2, <1>3, <1>4
<1> QED
  BY <1>2, <1>5 DEF s, a

(* Numbers that are a multiple of m apart have the same remainder.         *)
LEMMA ModShift ==
  ASSUME NEW m \in Nat \ {0}, NEW a \in Int, NEW k \in Int
  PROVE  (a + m * k) % m = a % m
<1> DEFINE d == a \div m
           r == a % m
<1>1. r \in 0 .. (m - 1) /\ d \in Int /\ a = m * d + r
  BY ModDef
<1> HIDE DEF d, r
<1>2. a + m * k = m * (d + k) + r
  <2>1. m * (d + k) = m * d + m * k
    BY <1>1
  <2> QED
    BY <1>1, <2>1
<1>3. (m * (d + k) + r) % m = r
  BY <1>1, ModUnique
<1> QED
  BY <1>2, <1>3 DEF r

(* What the counters wrap around at.                                       *)
IsMultiple(u, m) == \E c \in Nat \ {0} : u = m * c

(* A number is a multiple of itself.                                       *)
LEMMA SelfMultiple ==
  ASSUME NEW u \in Nat \ {0}
  PROVE  IsMultiple(u, u)
<1>1. 1 \in Nat \ {0} /\ u = u * 1
  OBVIOUS
<1> QED
  BY <1>1 DEF IsMultiple

(* Reducing a number modulo a multiple of m does not change what it is,    *)
(* after an addition, modulo m.                                            *)
LEMMA ModAdd ==
  ASSUME NEW m \in Nat \ {0}, NEW u \in Nat \ {0}, IsMultiple(u, m),
         NEW a \in Int, NEW b \in Int
  PROVE  ((a % u) + b) % m = (a + b) % m
<1> DEFINE d == a \div u
           r == a % u
<1>1. PICK c \in Nat \ {0} : u = m * c
  BY DEF IsMultiple
<1>2. r \in 0 .. (u - 1) /\ d \in Int /\ a = u * d + r
  BY ModDef, Zenon
<1> HIDE DEF d, r
<1>3. r \in Int /\ d \in Int /\ a = u * d + r
  BY <1>2
<1>4. a + b = (r + b) + m * (c * d)
  <2>1. u * d = m * (c * d)
    BY <1>1, <1>3
  <2>2. c * d \in Int /\ m * (c * d) \in Int
    BY <1>3
  <2> QED
    BY <1>3, <2>1, <2>2
<1>5. r + b \in Int /\ c * d \in Int
  BY <1>3
<1>6. ((r + b) + m * (c * d)) % m = (r + b) % m
  BY <1>5, ModShift, Zenon
<1> QED
  BY <1>4, <1>6 DEF r

(* The same with a subtraction, and the number on its right.               *)
LEMMA ModSub ==
  ASSUME NEW u \in Nat \ {0}, NEW a \in Int, NEW b \in Int
  PROVE  (a - (b % u)) % u = (a - b) % u
<1> DEFINE d == b \div u
           r == b % u
<1>1. r \in Int /\ d \in Int /\ b = u * d + r
  BY ModDef
<1> HIDE DEF d, r
<1>2. a - r = (a - b) + u * d
  BY <1>1
<1>3. a - b \in Int
  OBVIOUS
<1>4. ((a - b) + u * d) % u = (a - b) % u
  BY <1>1, <1>3, ModShift, Zenon
<1> QED
  BY <1>2, <1>4 DEF r

(* Remainders of two numbers less than m apart differ.                     *)
LEMMA ModDiffer ==
  ASSUME NEW m \in Nat \ {0}, NEW a \in Int, NEW b \in Int,
         a < b, b - a < m
  PROVE  a % m # b % m
<1>1. SUFFICES ASSUME a % m = b % m
               PROVE  FALSE
  OBVIOUS
<1> DEFINE d == a \div m
           e == b \div m
<1>2. /\ d \in Int /\ e \in Int
      /\ a = m * d + (a % m) /\ b = m * e + (b % m)
      /\ a % m \in Int
  BY ModDef
<1> HIDE DEF d, e
<1>3. m * (e - d) = b - a
  <2>1. m * (e - d) = m * e - m * d /\ m * e \in Int /\ m * d \in Int
    BY <1>2
  <2> QED
    BY <1>1, <1>2, <2>1
<1>4. e - d = 0
  BY <1>2, <1>3, MultipleGap
<1> QED
  BY <1>2, <1>3, <1>4

(* A number below m is its own remainder.                                  *)
LEMMA ModSmall ==
  ASSUME NEW m \in Nat \ {0}, NEW r \in 0 .. (m - 1)
  PROVE  r % m = r
<1>1. (m * 0 + r) % m = r
  BY ModUnique
<1> QED
  BY <1>1

-----------------------------------------------------------------------------
(* A buffer of m slots.                                                    *)
IsBuffer(buf, m) == buf = [i \in 0 .. (m - 1) |-> buf[i]]

(* k entries of the buffer buf, from the position of the counter rd on.    *)
Window(buf, rd, k, m) == [i \in 1 .. k |-> buf[(rd + i - 1) % m]]

(* It has k entries.                                                       *)
LEMMA WindowLen ==
  \A buf, rd, m : \A k \in Nat : Len(Window(buf, rd, k, m)) = k
<1> TAKE buf, rd, m
<1> TAKE k \in Nat
<1> DEFINE S == {buf[(rd + i - 1) % m] : i \in 1 .. k}
<1>1. Window(buf, rd, k, m) \in [1 .. k -> S]
  BY DEF Window
<1> HIDE DEF S
<1>2. Window(buf, rd, k, m) \in Seq(S)
  BY <1>1, ArrayFacts
<1> QED
  BY <1>1, <1>2, LengthFacts

(* It is a sequence of entries.                                            *)
LEMMA WindowSeq ==
  ASSUME NEW m \in Nat \ {0}, NEW S, NEW buf \in [0 .. (m - 1) -> S],
         NEW rd \in Int, NEW k \in Nat
  PROVE  Window(buf, rd, k, m) \in Seq(S)
<1>1. \A i \in 1 .. k : buf[(rd + i - 1) % m] \in S
  <2> TAKE i \in 1 .. k
  <2>1. rd + i - 1 \in Int
    OBVIOUS
  <2>2. (rd + i - 1) % m \in 0 .. (m - 1)
    BY <2>1, ModDef
  <2> QED
    BY <2>2
<1>2. Window(buf, rd, k, m) \in [1 .. k -> S]
  BY <1>1 DEF Window
<1> QED
  BY <1>2, ArrayFacts

(* A put makes the count one larger.                                       *)
LEMMA CountPut ==
  ASSUME NEW u \in Nat \ {0}, NEW rd \in Int, NEW wr \in Int, ((wr - rd) % u) + 1 < u
  PROVE  (((wr + 1) % u) - rd) % u = ((wr - rd) % u) + 1
<1> DEFINE cnt == (wr - rd) % u
           d == (wr - rd) \div u
<1>1. wr - rd \in Int /\ wr + 1 \in Int /\ - rd \in Int
  OBVIOUS
<1>2. cnt \in 0 .. (u - 1) /\ d \in Int /\ wr - rd = u * d + cnt
  BY <1>1, ModDef, Zenon
<1>3. (((wr + 1) % u) + (- rd)) % u = ((wr + 1) + (- rd)) % u
  <2>1. IsMultiple(u, u)
    BY SelfMultiple
  <2>2. \A a \in Int, b \in Int : ((a % u) + b) % u = (a + b) % u
    BY <2>1, ModAdd, Zenon
  <2> QED
    BY <1>1, <2>2, Zenon
<1>4. (wr + 1) % u \in Int
  BY <1>1, ModDef
<1>5. cnt + 1 \in 0 .. (u - 1)
  BY <1>2
<1> HIDE DEF cnt, d
<1>6. (wr + 1) + (- rd) = u * d + (cnt + 1)
  BY <1>2
<1>7. (u * d + (cnt + 1)) % u = cnt + 1
  BY <1>2, <1>5, ModUnique, Zenon
<1>8. ((wr + 1) % u) - rd = ((wr + 1) % u) + (- rd)
  BY <1>4
<1> QED
  BY <1>3, <1>6, <1>7, <1>8 DEF cnt

(* A take makes the count one smaller.                                     *)
LEMMA CountTake ==
  ASSUME NEW u \in Nat \ {0}, NEW rd \in Int, NEW wr \in Int, (wr - rd) % u > 0
  PROVE  (wr - ((rd + 1) % u)) % u = ((wr - rd) % u) - 1
<1> DEFINE cnt == (wr - rd) % u
           d == (wr - rd) \div u
<1>1. wr - rd \in Int /\ rd + 1 \in Int
  OBVIOUS
<1>2. cnt \in 0 .. (u - 1) /\ d \in Int /\ wr - rd = u * d + cnt
  BY <1>1, ModDef, Zenon
<1>3. (wr - ((rd + 1) % u)) % u = (wr - (rd + 1)) % u
  BY <1>1, ModSub, Zenon
<1>4. cnt - 1 \in 0 .. (u - 1)
  BY <1>2
<1> HIDE DEF cnt, d
<1>5. wr - (rd + 1) = u * d + (cnt - 1)
  BY <1>2
<1>6. (u * d + (cnt - 1)) % u = cnt - 1
  BY <1>2, <1>4, ModUnique, Zenon
<1> QED
  BY <1>3, <1>5, <1>6 DEF cnt

(* Putting an entry into a buffer that is not full appends it: the slot    *)
(* written is the one after the last entry, and none of the entries.       *)
LEMMA PutWindow ==
  \A m \in Nat \ {0}, u \in Nat \ {0} : IsMultiple(u, m) =>
    \A buf, v : \A rd \in Int, wr \in Int : IsBuffer(buf, m) /\ (wr - rd) % u < m =>
      Window([buf EXCEPT ![wr % m] = v], rd, ((wr - rd) % u) + 1, m)
        = Append(Window(buf, rd, (wr - rd) % u, m), v)
<1> TAKE m \in Nat \ {0}, u \in Nat \ {0}
<1> HAVE IsMultiple(u, m)
<1> TAKE buf, v
<1> TAKE rd \in Int, wr \in Int
<1> HAVE IsBuffer(buf, m) /\ (wr - rd) % u < m
<1> DEFINE S == {v} \cup {buf[i] : i \in 0 .. (m - 1)}
<1>0. buf \in [0 .. (m - 1) -> S] /\ v \in S
  BY DEF IsBuffer
<1> HIDE DEF S
<1> DEFINE cnt == (wr - rd) % u
           new == [buf EXCEPT ![wr % m] = v]
           old == Window(buf, rd, cnt, m)
<1>1. cnt \in Nat /\ cnt < m /\ wr - rd \in Int /\ wr % m \in 0 .. (m - 1)
  <2>1. wr - rd \in Int
    OBVIOUS
  <2>2. cnt \in 0 .. (u - 1) /\ wr % m \in 0 .. (m - 1)
    BY <2>1, ModDef, Zenon
  <2> QED
    BY <2>1, <2>2
<1>2. (rd + cnt) % m = wr % m
  <2>0. \A a \in Int, b \in Int : ((a % u) + b) % m = (a + b) % m
    BY ModAdd, Zenon
  <2>1. (((wr - rd) % u) + rd) % m = ((wr - rd) + rd) % m
    BY <1>1, <2>0, Zenon
  <2>2. (wr - rd) + rd = wr /\ rd + cnt = ((wr - rd) % u) + rd
    BY <1>1
  <2> QED
    BY <2>1, <2>2
<1> HIDE DEF cnt
<1>3. \A i \in 1 .. cnt : (rd + i - 1) % m # wr % m
  <2> TAKE i \in 1 .. cnt
  <2>0. i \in Nat /\ 1 <= i /\ i <= cnt /\ cnt \in Nat /\ cnt < m
    BY <1>1
  <2>1. /\ rd + i - 1 \in Int /\ rd + cnt \in Int
        /\ rd + i - 1 < rd + cnt /\ (rd + cnt) - (rd + i - 1) < m
    BY <2>0
  <2>2. (rd + i - 1) % m # (rd + cnt) % m
    BY <2>1, ModDiffer, Zenon
  <2> QED
    BY <1>2, <2>2
<1>4. new \in [0 .. (m - 1) -> S]
  BY <1>0, <1>1
<1>5. /\ Window(new, rd, cnt + 1, m) \in Seq(S) /\ Len(Window(new, rd, cnt + 1, m)) = cnt + 1
      /\ \A i \in 1 .. cnt + 1 : Window(new, rd, cnt + 1, m)[i] = new[(rd + i - 1) % m]
  <2>1. cnt + 1 \in Nat
    BY <1>1
  <2> HIDE DEF new
  <2>2. Window(new, rd, cnt + 1, m) \in Seq(S)
    BY <1>4, <2>1, <1>0, WindowSeq, Zenon
  <2> QED
    BY <2>1, <2>2, WindowLen, SMT DEF Window
<1>6. /\ old \in Seq(S) /\ Len(old) = cnt
      /\ \A i \in 1 .. cnt : old[i] = buf[(rd + i - 1) % m]
  <2>1. old \in Seq(S)
    BY <1>1, <1>0, WindowSeq, Zenon
  <2> QED
    BY <1>1, <2>1, WindowLen, SMT DEF Window
<1> HIDE DEF old
<1>7. /\ Append(old, v) \in Seq(S) /\ Len(Append(old, v)) = cnt + 1
      /\ \A i \in 1 .. cnt : Append(old, v)[i] = old[i]
      /\ Append(old, v)[cnt + 1] = v
  BY <1>0, <1>1, <1>6
<1>8. ASSUME NEW i \in 1 .. cnt + 1
      PROVE  Window(new, rd, cnt + 1, m)[i] = Append(old, v)[i]
  <2>1. CASE i = cnt + 1
    <3>1. rd + i - 1 = rd + cnt
      BY <1>1, <2>1
    <3>2. new[(rd + i - 1) % m] = v
      BY <1>0, <1>1, <1>2, <3>1
    <3> QED
      BY <1>5, <1>7, <2>1, <3>2, Zenon
  <2>2. CASE i # cnt + 1
    <3>1. i \in 1 .. cnt
      BY <1>1, <2>2
    <3>2. rd + i - 1 \in Int
      BY <3>1
    <3>3. (rd + i - 1) % m \in 0 .. (m - 1)
      BY <3>2, ModDef, Zenon
    <3>4. new[(rd + i - 1) % m] = buf[(rd + i - 1) % m]
      BY <1>0, <1>3, <3>1, <3>3
    <3> QED
      BY <1>5, <1>6, <1>7, <3>1, <3>4, Zenon
  <2> QED
    BY <2>1, <2>2, Zenon
<1> HIDE DEF new
<1>9. Window(new, rd, cnt + 1, m) = Append(old, v)
  BY <1>5, <1>7, <1>8, EqualFacts, Zenon
<1> QED
  BY <1>9, Zenon DEF new, old, cnt

(* Taking an entry from a buffer that is not empty removes the first one.  *)
LEMMA TakeWindow ==
  \A m \in Nat \ {0}, u \in Nat \ {0} : IsMultiple(u, m) =>
    \A buf : \A rd \in Int, k \in Nat \ {0} : IsBuffer(buf, m) =>
      /\ Window(buf, rd, k, m) # <<>>
      /\ Head(Window(buf, rd, k, m)) = buf[rd % m]
      /\ Window(buf, (rd + 1) % u, k - 1, m) = Tail(Window(buf, rd, k, m))
<1> SUFFICES ASSUME NEW m \in Nat \ {0}, NEW u \in Nat \ {0}, IsMultiple(u, m), NEW buf,
                    NEW rd \in Int, NEW k \in Nat \ {0}, IsBuffer(buf, m)
             PROVE  /\ Window(buf, rd, k, m) # <<>>
                    /\ Head(Window(buf, rd, k, m)) = buf[rd % m]
                    /\ Window(buf, (rd + 1) % u, k - 1, m) = Tail(Window(buf, rd, k, m))
  BY Zenon
<1> DEFINE S == {buf[i] : i \in 0 .. (m - 1)}
<1>0. buf \in [0 .. (m - 1) -> S]
  BY DEF IsBuffer
<1> HIDE DEF S
<1> DEFINE old == Window(buf, rd, k, m)
           new == Window(buf, (rd + 1) % u, k - 1, m)
<1>1. /\ old \in Seq(S) /\ Len(old) = k
      /\ \A i \in 1 .. k : old[i] = buf[(rd + i - 1) % m]
  <2>1. k \in Nat
    OBVIOUS
  <2>2. old \in Seq(S)
    BY <2>1, <1>0, WindowSeq, Zenon
  <2> QED
    BY <2>1, <2>2, WindowLen, SMT DEF Window
<1>2. (rd + 1) % u \in Int /\ k - 1 \in Nat /\ rd + 1 \in Int
  <2>1. rd + 1 \in Int /\ k - 1 \in Nat
    OBVIOUS
  <2>2. (rd + 1) % u \in 0 .. (u - 1)
    BY <2>1, ModDef, Zenon
  <2> QED
    BY <2>1, <2>2
<1>3. /\ new \in Seq(S) /\ Len(new) = k - 1
      /\ \A i \in 1 .. k - 1 : new[i] = buf[(((rd + 1) % u) + i - 1) % m]
  <2>1. new \in Seq(S)
    BY <1>2, <1>0, WindowSeq, Zenon
  <2> QED
    BY <1>2, <2>1, WindowLen, SMT DEF Window
<1> HIDE DEF old, new
<1>4. old # <<>> /\ Head(old) = old[1] /\ rd + 1 - 1 = rd
  BY <1>1
<1>5. /\ Tail(old) \in Seq(S) /\ Len(Tail(old)) = k - 1
      /\ \A i \in 1 .. k - 1 : Tail(old)[i] = old[i + 1]
  BY <1>1, <1>4, TailFacts
<1>6. ASSUME NEW i \in 1 .. k - 1
      PROVE  new[i] = Tail(old)[i]
  <2>1. i - 1 \in Int /\ i + 1 \in 1 .. k
    OBVIOUS
  <2>0. \A a \in Int, b \in Int : ((a % u) + b) % m = (a + b) % m
    BY ModAdd, Zenon
  <2>2. (((rd + 1) % u) + (i - 1)) % m = ((rd + 1) + (i - 1)) % m
    BY <1>2, <2>0, <2>1, Zenon
  <2>3. /\ ((rd + 1) % u) + i - 1 = ((rd + 1) % u) + (i - 1)
        /\ (rd + 1) + (i - 1) = rd + (i + 1) - 1
    BY <1>2
  <2>4. new[i] = buf[(rd + (i + 1) - 1) % m]
    BY <1>3, <2>2, <2>3
  <2> QED
    BY <1>1, <1>5, <2>1, <2>4, Zenon
<1>7. new = Tail(old)
  BY <1>3, <1>5, <1>6, EqualFacts, Zenon
<1>8. Head(old) = buf[rd % m]
  <2>1. 1 \in 1 .. k
    OBVIOUS
  <2> QED
    BY <1>1, <1>4, <2>1
<1> QED
  BY <1>4, <1>7, <1>8 DEF old, new

=============================================================================
