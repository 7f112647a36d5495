---------------------------- MODULE RingArithmetic ----------------------------
(***************************************************************************)
(* Facts about rings: N cells, of which n are in use from tail on.  A cell *)
(* is a place in an endless stream modulo N.  A remainder may be taken     *)
(* before or after adding (ModSum), and places less than N apart are in    *)
(* different cells (ModApart); from these follows that a ring is a queue.  *)
(***************************************************************************)
EXTENDS Integers, Sequences, SequenceTheorems, TLAPS

LEMMA Quotient ==
  ASSUME NEW N \in Nat \ {0}, NEW x \in Nat
  PROVE  /\ x \div N \in Nat
         /\ x % N \in 0 .. N - 1
         /\ x = N * (x \div N) + (x % N)
  BY SMTT(30)

LEMMA Multiples ==
  ASSUME NEW N \in Nat \ {0}, NEW p \in Nat, NEW q \in Nat, p < q
  PROVE  N * p + N <= N * q
<1>1. q - p - 1 \in Nat
  OBVIOUS
<1>2. N * (q - p - 1) \in Nat
  BY <1>1, SMTT(30)
<1>3. N * (q - p - 1) = N * q - N * p - N
  BY SMTT(30)
<1>4. N * q \in Nat /\ N * p \in Nat
  BY SMTT(30)
<1> QED BY <1>2, <1>3, <1>4

(* Quotient and remainder are unique.                                      *)
LEMMA Division ==
  ASSUME NEW N \in Nat \ {0}, NEW p \in Nat, NEW q \in Nat,
         NEW r \in 0 .. N - 1, NEW s \in 0 .. N - 1, N * p + r = N * q + s
  PROVE  p = q /\ r = s
<1>1. N * q \in Nat /\ N * p \in Nat
  BY SMTT(30)
<1>2. ~(p < q)
  BY <1>1, Multiples
<1>3. ~(q < p)
  BY <1>1, Multiples
<1> QED BY <1>1, <1>2, <1>3

LEMMA ModSum ==
  ASSUME NEW N \in Nat \ {0}, NEW x \in Nat, NEW y \in Nat
  PROVE  ((x % N) + y) % N = (x + y) % N
<1> DEFINE m == x % N
           s == (m + y) % N
           t == (x + y) % N
           a == x \div N
           b == (m + y) \div N
           c == (x + y) \div N
<1>1. a \in Nat /\ m \in 0 .. N - 1 /\ x = N * a + m
  BY Quotient
<1>2. b \in Nat /\ s \in 0 .. N - 1 /\ m + y = N * b + s
  <2>1. m + y \in Nat
    BY <1>1
  <2> QED BY <2>1, Quotient
<1>3. c \in Nat /\ t \in 0 .. N - 1 /\ x + y = N * c + t
  <2>1. x + y \in Nat
    OBVIOUS
  <2> QED BY <2>1, Quotient
<1> HIDE DEF a, b, c, s, t, m
<1>4. N * (a + b) = N * a + N * b
  BY <1>1, <1>2, SMTT(30)
<1>5. N * a \in Nat /\ N * b \in Nat /\ N * c \in Nat /\ a + b \in Nat
  BY <1>1, <1>2, <1>3, SMTT(30)
<1>6. N * (a + b) + s = N * c + t
  BY <1>1, <1>2, <1>3, <1>4, <1>5
<1>7. s = t
  BY <1>2, <1>3, <1>5, <1>6, Division, SMTT(30)
<1> QED BY <1>7 DEF s, t, m

LEMMA ModApart ==
  ASSUME NEW N \in Nat \ {0}, NEW x \in Nat, NEW y \in Nat, x < y, y < x + N
  PROVE  x % N # y % N
<1> DEFINE a == x \div N
           b == y \div N
           r == x % N
           s == y % N
<1>1. a \in Nat /\ r \in 0 .. N - 1 /\ x = N * a + r
  BY Quotient
<1>2. b \in Nat /\ s \in 0 .. N - 1 /\ y = N * b + s
  BY Quotient
<1> HIDE DEF a, b, r, s
<1>3. N * a \in Nat /\ N * b \in Nat
  BY <1>1, <1>2, SMTT(30)
<1>4. ~(a < b /\ r = s)
  BY <1>1, <1>2, <1>3, Multiples
<1>5. ~(b < a /\ r = s)
  BY <1>1, <1>2, <1>3, Multiples
<1>6. ~(b = a /\ r = s)
  BY <1>1, <1>2, <1>3
<1> QED BY <1>1, <1>2, <1>4, <1>5, <1>6 DEF r, s

(* Within the ring nothing wraps.                                          *)
LEMMA ModInside ==
  ASSUME NEW N \in Nat \ {0}, NEW x \in 0 .. N - 1
  PROVE  x % N = x
  BY SMTT(30)

-----------------------------------------------------------------------------
Cell(N, tail, i) == (tail + i - 1) % N

(* What a ring holds.                                                      *)
Content(buf, N, tail, n) == [i \in 1 .. n |-> buf[Cell(N, tail, i)]]

(* How much it holds is not told by its ends alone: a full ring is taken   *)
(* for an empty one.                                                       *)
Distance(N, tail, head) ==
  IF head >= tail THEN head - tail ELSE head + N - tail

LEMMA CellInRing ==
  ASSUME NEW N \in Nat \ {0}, NEW tail \in 0 .. N - 1, NEW i \in Nat \ {0}
  PROVE  Cell(N, tail, i) \in 0 .. N - 1
<1>1. tail + i - 1 \in Nat
  OBVIOUS
<1> QED BY <1>1, Quotient DEF Cell

(* The places in use and the next k ones are different cells.              *)
LEMMA CellsApart ==
  ASSUME NEW N \in Nat \ {0}, NEW tail \in 0 .. N - 1,
         NEW n \in Nat, NEW k \in Nat, n + k <= N,
         NEW i \in 1 .. n, NEW j \in 1 .. k
  PROVE  Cell(N, tail, i) # Cell(N, tail, n + j)
<1> DEFINE x == tail + i - 1
           y == tail + (n + j) - 1
<1>1. x \in Nat /\ y \in Nat /\ x < y /\ y < x + N
  OBVIOUS
<1> HIDE DEF x, y
<1>2. x % N # y % N
  BY <1>1, ModApart
<1> QED BY <1>2 DEF Cell, x, y

(* Places counted from the first free one.                                 *)
LEMMA CellFrom ==
  ASSUME NEW N \in Nat \ {0}, NEW tail \in 0 .. N - 1,
         NEW n \in Nat, NEW k \in Nat
  PROVE  (((tail + n) % N) + k) % N = Cell(N, tail, n + k + 1)
<1> DEFINE x == tail + n
<1>1. x \in Nat /\ x + k = tail + (n + k + 1) - 1
  OBVIOUS
<1> HIDE DEF x
<1>2. ((x % N) + k) % N = (x + k) % N
  BY <1>1, ModSum
<1> QED BY <1>1, <1>2 DEF Cell, x

(* Head and distance say the same.                                         *)
LEMMA HeadOf ==
  ASSUME NEW N \in Nat \ {0}, NEW tail \in 0 .. N - 1, NEW head \in 0 .. N - 1
  PROVE  /\ Distance(N, tail, head) \in 0 .. N - 1
         /\ head = (tail + Distance(N, tail, head)) % N
<1>1. CASE head >= tail
  <2>1. tail + Distance(N, tail, head) = head
    BY <1>1 DEF Distance
  <2> QED BY <1>1, <2>1, ModInside DEF Distance
<1>2. CASE ~(head >= tail)
  <2>1. tail + Distance(N, tail, head) = N * 1 + head
    BY <1>2, SMTT(30) DEF Distance
  <2> DEFINE x == N * 1 + head
  <2>2. x \in Nat /\ x = N * 1 + head
    OBVIOUS
  <2> HIDE DEF x
  <2>3. x \div N \in Nat /\ x % N \in 0 .. N - 1 /\ x = N * (x \div N) + (x % N)
    BY <2>2, Quotient
  <2>4. x % N = head
    BY <2>2, <2>3, Division
  <2> QED BY <1>2, <2>1, <2>2, <2>4 DEF Distance
<1> QED BY <1>1, <1>2

LEMMA DistanceOf ==
  ASSUME NEW N \in Nat \ {0}, NEW tail \in 0 .. N - 1, NEW m \in 0 .. N - 1
  PROVE  Distance(N, tail, (tail + m) % N) = m
<1> DEFINE head == (tail + m) % N
           d == Distance(N, tail, head)
<1>1. head \in 0 .. N - 1
  BY Quotient
<1> HIDE DEF head
<1>2. d \in 0 .. N - 1 /\ head = (tail + d) % N
  BY <1>1, HeadOf
<1>3. (tail + d) % N = (tail + m) % N
  BY <1>2 DEF head
<1> HIDE DEF d
<1> DEFINE x == tail + d
           y == tail + m
<1>4. /\ x \in Nat /\ y \in Nat /\ x % N = y % N
      /\ x < y + N /\ y < x + N
      /\ x = y => d = m
  BY <1>2, <1>3
<1> HIDE DEF x, y
<1>5. ~(x < y) /\ ~(y < x)
  BY <1>4, ModApart
<1>6. d = m
  BY <1>4, <1>5
<1> QED BY <1>6 DEF d, head

(* Once round the ring.                                                    *)
LEMMA RoundTheRing ==
  ASSUME NEW N \in Nat \ {0}, NEW tail \in 0 .. N - 1
  PROVE  (tail + N) % N = tail
<1> DEFINE x == tail + N
<1>1. x \in Nat /\ x = N * 1 + tail
  BY SMTT(30)
<1> HIDE DEF x
<1>2. x \div N \in Nat /\ x % N \in 0 .. N - 1 /\ x = N * (x \div N) + (x % N)
  BY <1>1, Quotient
<1>3. x % N = tail
  BY <1>1, <1>2, Division
<1> QED BY <1>3 DEF x

(* The first free cell.                                                    *)
LEMMA HeadCell ==
  ASSUME NEW N \in Nat \ {0}, NEW tail \in 0 .. N - 1, NEW head \in 0 .. N - 1
  PROVE  head = Cell(N, tail, Distance(N, tail, head) + 1)
<1> DEFINE d == Distance(N, tail, head)
<1>1. d \in 0 .. N - 1 /\ head = (tail + d) % N
  BY HeadOf
<1> HIDE DEF d
<1>2. tail + (d + 1) - 1 = tail + d
  BY <1>1
<1> QED BY <1>1, <1>2 DEF Cell, d

(* The head moves on by k.                                                 *)
LEMMA HeadMoved ==
  ASSUME NEW N \in Nat \ {0}, NEW tail \in 0 .. N - 1, NEW head \in 0 .. N - 1,
         NEW k \in Nat
  PROVE  /\ Distance(N, tail, head) + k < N =>
              Distance(N, tail, (head + k) % N) = Distance(N, tail, head) + k
         /\ Distance(N, tail, head) + k = N => (head + k) % N = tail
<1> DEFINE d == Distance(N, tail, head)
           x == tail + d
           h == (head + k) % N
<1>1. d \in 0 .. N - 1 /\ head = x % N
  BY HeadOf
<1>2. x \in Nat
  BY <1>1
<1> HIDE DEF x
<1>3. ((x % N) + k) % N = (x + k) % N
  BY <1>2, ModSum
<1>4. h = (x + k) % N
  BY <1>1, <1>3
<1> HIDE DEF d, h
<1>5. x + k = tail + (d + k)
  BY <1>1 DEF x
<1>6. ASSUME d + k < N
      PROVE  Distance(N, tail, h) = d + k
  <2> DEFINE m == d + k
  <2>1. m \in 0 .. N - 1 /\ h = (tail + m) % N
    BY <1>1, <1>4, <1>5, <1>6
  <2> HIDE DEF m
  <2>2. Distance(N, tail, (tail + m) % N) = m
    BY <2>1, DistanceOf
  <2> QED BY <2>1, <2>2 DEF m
<1>7. ASSUME d + k = N
      PROVE  h = tail
  BY <1>4, <1>5, <1>7, RoundTheRing
<1> QED BY <1>6, <1>7 DEF d, h

(* The tail moves on by k.                                                 *)
LEMMA TailMoved ==
  ASSUME NEW N \in Nat \ {0}, NEW tail \in 0 .. N - 1, NEW head \in 0 .. N - 1,
         NEW k \in 0 .. Distance(N, tail, head)
  PROVE  Distance(N, (tail + k) % N, head) = Distance(N, tail, head) - k
<1> DEFINE d == Distance(N, tail, head)
           m == d - k
           x == tail + k
           t == x % N
<1>1. d \in 0 .. N - 1 /\ head = (tail + d) % N
  BY HeadOf
<1> HIDE DEF d
<1>2. k \in Nat /\ m \in 0 .. N - 1 /\ x \in Nat /\ x + m = tail + d
  BY <1>1 DEF d
<1> HIDE DEF m, x
<1>3. t \in 0 .. N - 1
  BY <1>2, Quotient
<1>4. (t + m) % N = (x + m) % N
  <2>1. m \in Nat
    BY <1>2
  <2>2. ((x % N) + m) % N = (x + m) % N
    BY <1>2, <2>1, ModSum
  <2> QED BY <2>2
<1> HIDE DEF t
<1>5. Distance(N, t, (t + m) % N) = m
  BY <1>2, <1>3, DistanceOf
<1>6. Distance(N, t, head) = m
  BY <1>1, <1>2, <1>4, <1>5
<1> QED BY <1>6 DEF d, m, x, t

-----------------------------------------------------------------------------
LEMMA ContentSeq ==
  ASSUME NEW N \in Nat \ {0}, NEW buf \in [0 .. N - 1 -> Nat],
         NEW tail \in 0 .. N - 1, NEW n \in Nat
  PROVE  /\ Content(buf, N, tail, n) \in Seq(Nat)
         /\ Len(Content(buf, N, tail, n)) = n
         /\ \A i \in 1 .. n : Content(buf, N, tail, n)[i] = buf[Cell(N, tail, i)]
<1>1. \A i \in 1 .. n : buf[Cell(N, tail, i)] \in Nat
  BY CellInRing
<1>2. Content(buf, N, tail, n) \in [1 .. n -> Nat]
  BY <1>1 DEF Content
<1> QED BY <1>2 DEF Content

Repeat(v, k) == [j \in 1 .. k |-> v]

(* The first n places hold the same; places n + 1 to m hold v.             *)
SamePlaces(buf, new, N, tail, n) ==
  \A i \in 1 .. n : new[Cell(N, tail, i)] = buf[Cell(N, tail, i)]

NewPlaces(new, N, tail, n, m, v) ==
  \A i \in n + 1 .. m : new[Cell(N, tail, i)] = v

Appended(all, old, v, k) == all = old \o Repeat(v, k)

(* Writing v into the next k cells appends it k times.                     *)
LEMMA ContentPush ==
  ASSUME NEW N \in Nat \ {0}, NEW tail \in 0 .. N - 1, NEW n \in Nat,
         NEW buf \in [0 .. N - 1 -> Nat], NEW new \in [0 .. N - 1 -> Nat],
         NEW v \in Nat, NEW k \in Nat, NEW m \in Nat, n + k <= m, m <= n + k,
         SamePlaces(buf, new, N, tail, n), NewPlaces(new, N, tail, n, m, v)
  PROVE  Appended(Content(new, N, tail, m), Content(buf, N, tail, n), v, k)
<1> DEFINE old == Content(buf, N, tail, n)
           add == Repeat(v, k)
           all == Content(new, N, tail, m)
<1>0. m = n + k
  OBVIOUS
<1>1. /\ old \in Seq(Nat) /\ Len(old) = n
      /\ \A i \in 1 .. n : old[i] = buf[Cell(N, tail, i)]
  BY ContentSeq, ZenonT(60)
<1>2. /\ all \in Seq(Nat) /\ Len(all) = m
      /\ \A i \in 1 .. m : all[i] = new[Cell(N, tail, i)]
  BY ContentSeq, ZenonT(60)
<1>3. add \in Seq(Nat) /\ Len(add) = k /\ \A j \in 1 .. k : add[j] = v
  BY <1>0 DEF Repeat
<1> HIDE DEF old, add, all
<1>4. /\ old \o add \in Seq(Nat) /\ Len(old \o add) = n + k
      /\ \A i \in 1 .. n + k :
           (old \o add)[i] = IF i <= n THEN old[i] ELSE add[i - n]
  <2>1. /\ old \o add \in Seq(Nat) /\ Len(old \o add) = Len(old) + Len(add)
        /\ \A i \in 1 .. Len(old) + Len(add) :
             (old \o add)[i] = IF i <= Len(old) THEN old[i]
                              ELSE add[i - Len(old)]
    <3>1. old \in Seq(Nat) /\ add \in Seq(Nat)
      BY <1>1, <1>3
    <3> QED BY <3>1, ConcatProperties
  <2> QED BY <1>0, <1>1, <1>3, <2>1
<1>5. ASSUME NEW i \in 1 .. n + k
      PROVE  all[i] = (old \o add)[i]
  <2>1. CASE i <= n
    <3>1. i \in 1 .. n /\ i \in 1 .. m
      BY <1>0, <2>1
    <3> QED BY <1>1, <1>2, <1>4, <2>1, <3>1 DEF SamePlaces
  <2>2. CASE ~(i <= n)
    <3>1. i - n \in 1 .. k /\ i \in n + 1 .. m /\ i \in 1 .. m
      BY <1>0, <2>2
    <3>2. new[Cell(N, tail, i)] = v
      BY <3>1 DEF NewPlaces
    <3> QED BY <1>2, <1>3, <1>4, <2>2, <3>1, <3>2
  <2> QED BY <2>1, <2>2
<1>6. all = old \o add
  BY <1>0, <1>2, <1>4, <1>5, SeqEqual
<1> QED BY <1>6 DEF Appended, old, add, all

(* Moving the tail on by k takes k from the front.                         *)
LEMMA ContentPop ==
  ASSUME NEW N \in Nat \ {0}, NEW buf \in [0 .. N - 1 -> Nat],
         NEW tail \in 0 .. N - 1, NEW n \in Nat, NEW k \in 0 .. n
  PROVE  Content(buf, N, (tail + k) % N, n - k)
           = SubSeq(Content(buf, N, tail, n), k + 1, n)
<1> DEFINE old == Content(buf, N, tail, n)
           first == (tail + k) % N
           new == Content(buf, N, first, n - k)
           rest == SubSeq(old, k + 1, n)
<1>1. /\ old \in Seq(Nat) /\ Len(old) = n
      /\ \A i \in 1 .. n : old[i] = buf[Cell(N, tail, i)]
  BY ContentSeq
<1>2. first \in 0 .. N - 1
  BY Quotient
<1>3. /\ new \in Seq(Nat) /\ Len(new) = n - k
      /\ \A i \in 1 .. n - k : new[i] = buf[Cell(N, first, i)]
  <2>1. n - k \in Nat
    OBVIOUS
  <2> HIDE DEF first
  <2> QED BY <1>2, <2>1, ContentSeq, ZenonT(60)
<1>4. ASSUME NEW i \in 1 .. n - k
      PROVE  Cell(N, first, i) = Cell(N, tail, k + i)
  <2>1. k \in Nat /\ i - 1 \in Nat /\ k + (i - 1) + 1 = k + i
    OBVIOUS
  <2>2. (first + (i - 1)) % N = Cell(N, tail, k + (i - 1) + 1)
    BY <2>1, CellFrom
  <2>3. first + (i - 1) = first + i - 1
    BY <1>2
  <2> QED BY <2>1, <2>2, <2>3 DEF Cell
<1> HIDE DEF old, first, new
<1>5. /\ rest \in Seq(Nat) /\ Len(rest) = n - k
      /\ \A i \in 1 .. n - k : rest[i] = old[k + i]
  <2>1. /\ k + 1 \in Int /\ n \in Int
        /\ \A i \in k + 1 .. n : old[i] \in Nat
    BY <1>1, ElementOfSeq
  <2>2. /\ rest \in Seq(Nat)
        /\ Len(rest) = IF k + 1 <= n THEN n - (k + 1) + 1 ELSE 0
        /\ \A i \in 1 .. n - (k + 1) + 1 : rest[i] = old[k + 1 + i - 1]
    BY <2>1, SubSeqProperties, SMTT(30)
  <2> QED BY <2>2
<1> HIDE DEF rest
<1>6. ASSUME NEW i \in 1 .. n - k
      PROVE  new[i] = rest[i]
  <2>1. k + i \in 1 .. n
    OBVIOUS
  <2> QED BY <1>1, <1>3, <1>4, <1>5, <2>1, ZenonT(60)
<1>7. new = rest
  BY <1>3, <1>5, <1>6, SeqEqual
<1> QED BY <1>7 DEF new, first, rest, old

-----------------------------------------------------------------------------
(* A ring with two cursors, as a queue.                                    *)
Queue(buf, N, tail, head) == Content(buf, N, tail, Distance(N, tail, head))

(* The next k cells hold v.                                                *)
Behind(buf, N, head, k, v) == \A j \in 0 .. k - 1 : buf[(head + j) % N] = v

Popped(rest, all, k) == all = SubSeq(all, 1, k) \o rest

LEMMA QueueSeq ==
  ASSUME NEW N \in Nat \ {0}, NEW tail \in 0 .. N - 1, NEW head \in 0 .. N - 1,
         NEW buf \in [0 .. N - 1 -> Nat]
  PROVE  /\ Queue(buf, N, tail, head) \in Seq(Nat)
         /\ Len(Queue(buf, N, tail, head)) = Distance(N, tail, head)
<1> DEFINE d == Distance(N, tail, head)
<1>1. d \in Nat
  BY HeadOf
<1> HIDE DEF d
<1>2. Content(buf, N, tail, d) \in Seq(Nat) /\ Len(Content(buf, N, tail, d)) = d
  BY <1>1, ContentSeq
<1> QED BY <1>2 DEF Queue, d

LEMMA BehindApart ==
  ASSUME NEW N \in Nat \ {0}, NEW tail \in 0 .. N - 1, NEW head \in 0 .. N - 1,
         NEW i \in 1 .. Distance(N, tail, head), NEW j \in Nat,
         Distance(N, tail, head) + j < N
  PROVE  Cell(N, tail, i) # (head + j) % N
<1> DEFINE d == Distance(N, tail, head)
           k == j + 1
<1>1. d \in 0 .. N - 1 /\ head = (tail + d) % N
  BY HeadOf
<1> HIDE DEF d
<1>2. k \in Nat /\ d \in Nat /\ d + k <= N /\ i \in 1 .. d /\ k \in 1 .. k
      /\ d + k = d + j + 1
  BY <1>1 DEF d
<1>3. (((tail + d) % N) + j) % N = Cell(N, tail, d + j + 1)
  BY <1>2, CellFrom
<1> HIDE DEF k
<1>4. Cell(N, tail, i) # Cell(N, tail, d + k)
  BY <1>2, CellsApart
<1> QED BY <1>1, <1>2, <1>3, <1>4

LEMMA QueuePush ==
  ASSUME NEW N \in Nat \ {0}, NEW tail \in 0 .. N - 1, NEW head \in 0 .. N - 1,
         NEW buf \in [0 .. N - 1 -> Nat], NEW new \in [0 .. N - 1 -> Nat],
         NEW v \in Nat, NEW k \in Nat, NEW h \in 0 .. N - 1,
         h = (head + k) % N, Distance(N, tail, head) + k < N,
         SamePlaces(buf, new, N, tail, Distance(N, tail, head)),
         Behind(new, N, head, k, v)
  PROVE  Appended(Queue(new, N, tail, h), Queue(buf, N, tail, head), v, k)
<1> DEFINE d == Distance(N, tail, head)
           m == Distance(N, tail, h)
<1>1. d \in 0 .. N - 1 /\ head = (tail + d) % N
  BY HeadOf
<1>2. m = d + k
  BY HeadMoved
<1> HIDE DEF d, m
<1>3. d \in Nat /\ m \in Nat /\ d + k <= m /\ m <= d + k
  BY <1>1, <1>2
<1>4. ASSUME NEW i \in d + 1 .. m
      PROVE  new[Cell(N, tail, i)] = v
  <2> DEFINE j == i - d - 1
  <2>1. j \in 0 .. k - 1 /\ j \in Nat
    BY <1>3
  <2>2. d + j + 1 = i
    BY <1>3
  <2> HIDE DEF j
  <2>3. (((tail + d) % N) + j) % N = Cell(N, tail, d + j + 1)
    BY <1>3, <2>1, CellFrom, ZenonT(60)
  <2>4. (head + j) % N = Cell(N, tail, i)
    BY <1>1, <2>2, <2>3
  <2> QED BY <2>1, <2>4 DEF Behind
<1>5. SamePlaces(buf, new, N, tail, d) /\ NewPlaces(new, N, tail, d, m, v)
  BY <1>4 DEF NewPlaces, d
<1>6. Appended(Content(new, N, tail, m), Content(buf, N, tail, d), v, k)
  BY <1>3, <1>5, ContentPush
<1> QED BY <1>6 DEF Queue, d, m

LEMMA QueuePop ==
  ASSUME NEW N \in Nat \ {0}, NEW tail \in 0 .. N - 1, NEW head \in 0 .. N - 1,
         NEW buf \in [0 .. N - 1 -> Nat],
         NEW k \in 0 .. Distance(N, tail, head),
         NEW t \in 0 .. N - 1, t = (tail + k) % N
  PROVE  Popped(Queue(buf, N, t, head), Queue(buf, N, tail, head), k)
<1> DEFINE d == Distance(N, tail, head)
           all == Queue(buf, N, tail, head)
           rest == Queue(buf, N, t, head)
<1>1. d \in 0 .. N - 1
  BY HeadOf
<1>2. all \in Seq(Nat) /\ Len(all) = d
  BY QueueSeq
<1>3. Distance(N, t, head) = d - k
  BY TailMoved
<1> HIDE DEF d
<1>4. d \in Nat /\ k \in 0 .. d
  BY <1>1 DEF d
<1>5. Content(buf, N, (tail + k) % N, d - k)
        = SubSeq(Content(buf, N, tail, d), k + 1, d)
  BY <1>4, ContentPop, ZenonT(60)
<1>6. rest = SubSeq(all, k + 1, d)
  BY <1>3, <1>5 DEF Queue, d
<1> HIDE DEF all, rest
<1>7. SubSeq(all, 1, k) \o SubSeq(all, k + 1, d) = SubSeq(all, 1, d)
  <2>1. /\ 1 \in 1 .. Len(all) + 1 /\ k \in 1 - 1 .. Len(all)
        /\ d \in k .. Len(all)
    BY <1>2, <1>4
  <2> QED BY <1>2, <2>1, ConcatAdjacentSubSeq
<1>8. SubSeq(all, 1, d) = all
  BY <1>2, SubSeqFull
<1> QED BY <1>6, <1>7, <1>8 DEF Popped, all, rest

=============================================================================
