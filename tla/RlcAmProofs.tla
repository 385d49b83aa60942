---------------------------- MODULE RlcAmProofs -----------------------------
(***************************************************************************)
(* The windows of an acknowledged-mode bearer, for any modulus of twice    *)
(* the window size, any sizes and any losses.                              *)
(***************************************************************************)
EXTENDS RlcAm, FiniteSetTheorems, TLAPS

-----------------------------------------------------------------------------
(* The inductive invariant. Every state variable of the windows is the     *)
(* remainder of a number that only grows: a of VT(A), r of VR(R), ms of    *)
(* VR(MS), h of VR(H), and Sent of VT(S).                                  *)

Sent == FirstSn + pdus

\* The sequence number of the n-th PDU.
SnOf(n) == n % Modulus

Ordered(a, r, ms, h, s) ==
    /\ {a, r, ms, h, s} \subseteq Nat
    /\ a <= r /\ r <= ms /\ ms <= h /\ h <= s /\ s <= a + WindowSize

\* The sequence numbers of lo..hi - 1.
SnRange(lo, hi) == {SnOf(n) : n \in lo..hi - 1}

\* The PDUs of a buffer have the numbers lo..hi - 1, under their remainders.
Numbered(buffer, lo, hi) ==
    \A sn \in DOMAIN buffer : buffer[sn].n \in lo..hi - 1 /\ SnOf(buffer[sn].n) = sn

\* The reception buffer has neither the PDU of VR(R) nor that of VR(MS).
Reception(buffer, r, ms, h) ==
    /\ Numbered(buffer, r, h)
    /\ SnOf(r) \notin DOMAIN buffer /\ SnOf(ms) \notin DOMAIN buffer

\* While the reordering timer runs, VR(X) is above VR(R), and VR(MS) is the
\* first number missing from VR(X) on, or below VR(X).
Reordered(timer, vrX, buffer, r, ms, h) ==
    timer => \E x \in r + 1..h : /\ vrX = SnOf(x)
                                 /\ \A n \in x..ms - 1 : SnOf(n) \in DOMAIN buffer

\* What is neither delivered nor in the reception buffer (the numbers rx) is
\* in one of the buffers of the transmitting side.
Kept(txed, retx, rx, a, r, s) ==
    /\ Numbered(txed, a, s) /\ Numbered(retx, a, s)
    /\ DOMAIN txed \cap DOMAIN retx = {}
    /\ \A n \in r..s - 1 : SnOf(n) \in rx \cup DOMAIN txed \cup DOMAIN retx

\* No PDU under way is a window behind VR(H), or behind one sent before it.
UnderWay(data, h, s) ==
    /\ data \in Seq(Range(data))
    /\ \A i \in 1..Len(data) : data[i].pdu.n \in 0..s - 1 /\ h <= data[i].pdu.n + WindowSize
    /\ \A i, j \in 1..Len(data) : i < j => data[i].pdu.n < data[j].pdu.n + WindowSize

\* A STATUS PDU was true when it was sent, with VR(R) at b, and ACK_SN is that
\* of k. What it reports missing (of kept, the numbers of txed and retx) is not
\* acknowledged in the meantime, and what it acknowledges is received.
Report(s, kept, rx, r, b, k) ==
    /\ s.ackSn = SnOf(k)
    /\ b < k => SnOf(b) \in s.nacks
    /\ \A sn \in s.nacks : \E n \in b..k - 1 : sn = SnOf(n) /\ sn \in kept
    /\ \A n \in b..k - 1 : SnOf(n) \in s.nacks \/ n < r \/ SnOf(n) \in rx

Reports(pending, prohibit, kept, rx, a, r, ms) ==
    /\ pending # {} => prohibit
    /\ \A s, t \in pending : s = t
    /\ \A s \in pending : \E b \in a..r : \E k \in b..ms : Report(s, kept, rx, r, b, k)

Counters(a, r, ms, h) ==
    /\ m_vtA = SnOf(a) /\ m_vtS = SnOf(Sent)
    /\ m_vrR = SnOf(r) /\ m_vrMs = SnOf(ms) /\ m_vrH = SnOf(h)

Windows(a, r, ms, h) ==
    /\ Ordered(a, r, ms, h, Sent)
    /\ Counters(a, r, ms, h)
    /\ Reception(m_rxonBuffer, r, ms, h)
    /\ Reordered(m_reorderingTimer, m_vrX, m_rxonBuffer, r, ms, h)
    /\ Kept(m_txedBuffer, m_retxBuffer, DOMAIN m_rxonBuffer, a, r, Sent)
    /\ UnderWay(dataPdus, h, Sent)
    /\ Reports(statusPdus, m_statusProhibitTimer, DOMAIN m_txedBuffer \cup DOMAIN m_retxBuffer,
               DOMAIN m_rxonBuffer, a, r, ms)

Inv ==
    /\ pdus \in Nat /\ aborted = "no"
    /\ \E a, r, ms, h \in 0..Sent : Windows(a, r, ms, h)

-----------------------------------------------------------------------------
(* Sequence numbers stand for the numbers that the bearer would use if it  *)
(* had no modulus, and two of these within a modulus of each other are     *)
(* told apart.                                                             *)

\* The window is half of the range of sequence numbers.
LEMMA Sizes == Modulus \in Nat \ {0} /\ WindowSize \in Nat \ {0} /\ Modulus = 2 * WindowSize
BY RlcAssumption

\* Quotient and remainder.
LEMMA Division ==
    ASSUME NEW n \in Nat, NEW k \in Nat \ {0}
    PROVE  \E q \in Nat, r \in 0..k - 1 : n = k * q + r /\ n % k = r
<1>1. n \div k \in Nat /\ n % k \in 0..k - 1 /\ n = k * (n \div k) + (n % k)
    OBVIOUS
<1> QED BY <1>1, Zenon

\* Quotient and remainder are unique.
LEMMA Unique ==
    ASSUME NEW k \in Nat \ {0}, NEW p \in Int, NEW q \in Int, NEW r \in 0..k - 1,
           NEW s \in 0..k - 1, k * p + r = k * q + s
    PROVE  r = s
<1>1. k * (p - q) = s - r
    OBVIOUS
<1>2. ASSUME p - q >= 1 PROVE FALSE
    <2>1. k * (p - q) >= k * 1
        BY <1>2
    <2> QED BY <1>1, <2>1
<1>3. ASSUME p - q <= -1 PROVE FALSE
    <2>1. k * (p - q) <= k * (-1)
        BY <1>3
    <2> QED BY <1>1, <2>1
<1>4. p = q
    BY <1>2, <1>3
<1> QED BY <1>4

\* Adding to a number and to its remainder is the same.
LEMMA ModPlus ==
    ASSUME NEW n \in Nat, NEW j \in Nat, NEW k \in Nat \ {0}
    PROVE  ((n % k) + j) % k = (n + j) % k
<1>1. PICK a \in Nat, r \in 0..k - 1 : n = k * a + r /\ n % k = r
    BY Division, Zenon
<1>2. r + j \in Nat /\ n + j \in Nat
    OBVIOUS
<1>3. PICK b \in Nat, s \in 0..k - 1 : r + j = k * b + s /\ (r + j) % k = s
    BY <1>2, Division, Zenon
<1>4. PICK c \in Nat, t \in 0..k - 1 : n + j = k * c + t /\ (n + j) % k = t
    BY <1>2, Division, Zenon
<1>5. a + b \in Int /\ c \in Int /\ n + j = k * (a + b) + s
    <2>1. n + j = k * a + (k * b + s)
        BY <1>1, <1>3
    <2>2. k * (a + b) = k * a + k * b
        OBVIOUS
    <2> QED BY <2>1, <2>2
<1>6. s = t
    BY <1>4, <1>5, Unique, Zenon
<1> QED BY <1>1, <1>3, <1>4, <1>6, Zenon

\* A number below the modulus is its own remainder.
LEMMA ModSmall ==
    ASSUME NEW k \in Nat \ {0}, NEW d \in 0..k - 1
    PROVE  d % k = d
OBVIOUS

\* A modulus more makes no difference.
LEMMA ModWrap ==
    ASSUME NEW n \in Nat, NEW k \in Nat \ {0}
    PROVE  (n + k) % k = n % k
<1>1. PICK a \in Nat, r \in 0..k - 1 : n = k * a + r /\ n % k = r
    BY Division, Zenon
<1>2. n + k \in Nat
    OBVIOUS
<1>3. PICK c \in Nat, t \in 0..k - 1 : n + k = k * c + t /\ (n + k) % k = t
    BY <1>2, Division, Zenon
<1>4. k * (a + 1) + r = k * c + t /\ a + 1 \in Int /\ c \in Int
    BY <1>1, <1>3
<1>5. r = t
    BY <1>4, Unique, Zenon
<1> QED BY <1>1, <1>3, <1>5, Zenon

-----------------------------------------------------------------------------
(* Sequence numbers as remainders.                                         *)

\* A remainder is a sequence number.
LEMMA SnOfType == ASSUME NEW n \in Nat PROVE SnOf(n) \in Sn
<1>1. PICK q \in Nat, r \in 0..Modulus - 1 : n = Modulus * q + r /\ n % Modulus = r
    BY Sizes, Division, Zenon
<1> QED BY <1>1, Zenon DEF SnOf, Sn

\* operator+ of sequence numbers, and the numbers they stand for.
LEMMA PlusIs == ASSUME NEW n \in Nat, NEW j \in Nat PROVE Plus(SnOf(n), j) = SnOf(n + j)
BY Sizes, ModPlus, Zenon DEF SnOf, Plus

\* The distance of a number that is less than a modulus ahead.
LEMMA DistanceIs ==
    ASSUME NEW x \in Nat, NEW y \in Nat, x <= y, y - x < Modulus
    PROVE  Distance(SnOf(x), SnOf(y)) = y - x
<1> DEFINE k == Modulus
<1>0. k \in Nat \ {0}
    BY Sizes
<1> HIDE DEF k
<1>1. PICK p \in Nat, u \in 0..k - 1 : x = k * p + u /\ x % k = u
    BY <1>0, Division, Zenon
<1>2. PICK q \in Nat, t \in 0..k - 1 : y = k * q + t /\ y % k = t
    BY <1>0, Division, Zenon
<1>3. t + k - u \in Nat
    BY <1>0
<1>4. PICK c \in Nat, d \in 0..k - 1 : t + k - u = k * c + d /\ (t + k - u) % k = d
    BY <1>0, <1>3, Division, Zenon
<1>5. /\ k * (((c + q) - 1) - p) = ((k * c + k * q) - k) - k * p
      /\ ((c + q) - 1) - p \in Int
    BY <1>0
<1>6. k * (((c + q) - 1) - p) + d = k * 0 + (y - x)
    <2>1. k * c + d = t + k - u /\ k * q = y - t /\ k * p = x - u
        BY <1>0, <1>1, <1>2, <1>4
    <2>2. k * c \in Int /\ k * q \in Int /\ k * p \in Int /\ k * 0 = 0
        BY <1>0
    <2> HIDE DEF k
    <2> QED BY <1>0, <1>5, <2>1, <2>2
<1>7. y - x \in 0..k - 1 /\ 0 \in Int
    BY <1>0 DEF k
<1>8. d = y - x
    BY <1>0, <1>5, <1>6, <1>7, Unique, Zenon
<1> QED BY <1>1, <1>2, <1>4, <1>8, Zenon DEF Distance, SnOf, k

\* And of one that is less than a modulus behind.
LEMMA DistanceBack ==
    ASSUME NEW x \in Nat, NEW y \in Nat, y < x, x - y < Modulus
    PROVE  Distance(SnOf(x), SnOf(y)) = Modulus - (x - y)
<1>1. /\ y + Modulus \in Nat /\ x <= y + Modulus /\ (y + Modulus) - x < Modulus
      /\ (y + Modulus) - x = Modulus - (x - y)
    BY Sizes
<1>2. SnOf(y + Modulus) = SnOf(y)
    BY Sizes, ModWrap, Zenon DEF SnOf
<1> QED BY <1>1, <1>2, DistanceIs, Zenon

\* Of two numbers less than a modulus apart, the sequence numbers differ.
LEMMA SameNumber ==
    ASSUME NEW x \in Nat, NEW y \in Nat, x - y < Modulus, y - x < Modulus, SnOf(x) = SnOf(y)
    PROVE  x = y
<1>1. CASE x <= y
    <2>1. Distance(SnOf(x), SnOf(x)) = y - x
        BY <1>1, DistanceIs, Zenon
    <2>2. x <= x /\ x - x < Modulus /\ x - x = 0
        BY Sizes
    <2>3. Distance(SnOf(x), SnOf(x)) = 0
        BY <2>2, DistanceIs, Zenon
    <2> QED BY <2>1, <2>3
<1>2. CASE y < x
    <2>1. Distance(SnOf(x), SnOf(x)) = Modulus - (x - y)
        BY <1>2, DistanceBack, Zenon
    <2>2. x <= x /\ x - x < Modulus /\ x - x = 0
        BY Sizes
    <2>3. Distance(SnOf(x), SnOf(x)) = 0
        BY <2>2, DistanceIs, Zenon
    <2> QED BY <1>2, <2>1, <2>3, Sizes
<1> QED BY <1>1, <1>2

\* A sequence number is that of a number from x on, at its distance.
LEMMA Unwrap ==
    ASSUME NEW x \in Nat, NEW sn \in Sn
    PROVE  \E y \in Nat : x <= y /\ y - x < Modulus /\ sn = SnOf(y)
                           /\ Distance(SnOf(x), sn) = y - x
<1> DEFINE k == Modulus
<1>0. k \in Nat \ {0} /\ sn \in 0..k - 1
    BY Sizes DEF Sn
<1> HIDE DEF k
<1>1. PICK p \in Nat, u \in 0..k - 1 : x = k * p + u /\ x % k = u
    BY <1>0, Division, Zenon
<1> DEFINE y == IF u <= sn THEN k * p + sn ELSE k * (p + 1) + sn
<1>2. k * p \in Nat /\ k * (p + 1) \in Nat /\ k * (p + 1) = k * p + k
    BY <1>0
<1>3. y \in Nat /\ x <= y /\ y - x < k
    <2>1. CASE u <= sn
        BY <1>0, <1>1, <1>2, <2>1
    <2>2. CASE ~(u <= sn)
        BY <1>0, <1>1, <1>2, <2>2
    <2> QED BY <2>1, <2>2
<1>4. PICK c \in Nat, d \in 0..k - 1 : y = k * c + d /\ y % k = d
    BY <1>0, <1>3, Division, Zenon
<1>5. p \in Int /\ p + 1 \in Int /\ c \in Int
    OBVIOUS
<1>6. d = sn
    <2>1. CASE u <= sn
        <3>1. k * c + d = k * p + sn
            BY <1>4, <2>1, Zenon
        <3> QED BY <3>1, <1>0, <1>5, Unique, Zenon
    <2>2. CASE ~(u <= sn)
        <3>1. k * c + d = k * (p + 1) + sn
            BY <1>4, <2>2, Zenon
        <3> QED BY <3>1, <1>0, <1>5, Unique, Zenon
    <2> QED BY <2>1, <2>2, Zenon
<1>7. sn = SnOf(y)
    BY <1>4, <1>6, Zenon DEF SnOf, k
<1> HIDE DEF y
<1>8. Distance(SnOf(x), SnOf(y)) = y - x
    BY <1>3, DistanceIs, Zenon DEF k
<1> QED BY <1>3, <1>7, <1>8, Zenon DEF k

-----------------------------------------------------------------------------
(* Least numbers, maps and sequences.                                      *)

\* A set of natural numbers has a least one.
LEMMA LeastExists ==
    ASSUME NEW S, S \subseteq Nat, S # {}
    PROVE  \E x \in S : \A y \in S : x <= y
<1>0. IsWellFoundedOn({p \in Nat \X Nat : p[1] < p[2]}, Nat)
    BY NatLessThanWellFounded, Zenon DEF OpToRel
<1>1. \E R : R = {p \in Nat \X Nat : p[1] < p[2]} /\ IsWellFoundedOn(R, Nat)
    BY <1>0, Zenon
<1>2. PICK R : R = {p \in Nat \X Nat : p[1] < p[2]} /\ IsWellFoundedOn(R, Nat)
    BY <1>1, Zenon
<1>3. PICK x \in S : \A y \in S : <<y, x>> \notin R
    BY <1>2, WFMin, Zenon
<1>4. \A y \in S : <<y, x>> \notin {p \in Nat \X Nat : p[1] < p[2]}
    BY <1>2, <1>3, Zenon
<1>5. \A y \in S : ~(y < x)
    BY <1>4, Zenon
<1>6. \A y \in S : x <= y
    BY <1>5
<1> QED BY <1>6, Zenon

\* Min() is that one.
LEMMA MinFacts ==
    ASSUME NEW S, S \subseteq Nat, S # {}
    PROVE  Min(S) \in S /\ Min(S) \in Nat /\ \A y \in S : Min(S) <= y
<1>1. Min(S) \in S /\ \A y \in S : Min(S) <= y
    BY LeastExists, Zenon DEF Min
<1> QED BY <1>1, Zenon

\* A least element is Min().
LEMMA MinIs ==
    ASSUME NEW S, S \subseteq Nat, NEW m \in S, \A y \in S : m <= y
    PROVE  Min(S) = m
<1>1. Min(S) \in S /\ \A y \in S : Min(S) <= y
    BY MinFacts, Zenon
<1>2. Min(S) <= m /\ m <= Min(S) /\ Min(S) \in Nat /\ m \in Nat
    BY <1>1, Zenon
<1> QED BY <1>2

\* FirstMissing() is the first number from x on that buffer has not, if there
\* is one within a modulus.
LEMMA FirstMissingIs ==
    ASSUME NEW buffer, NEW x \in Nat, NEW z \in Nat, x <= z, z - x < Modulus,
           SnOf(z) \notin DOMAIN buffer
    PROVE  \E y \in Nat : /\ x <= y /\ y <= z
                          /\ FirstMissing(buffer, SnOf(x)) = SnOf(y)
                          /\ SnOf(y) \notin DOMAIN buffer
                          /\ \A n \in x..y - 1 : SnOf(n) \in DOMAIN buffer
<1> DEFINE S == {k \in Sn : Plus(SnOf(x), k) \notin DOMAIN buffer}
<1>1. S \subseteq Nat
    BY Sizes DEF Sn
<1>2. \A k \in Sn : k \in S <=> SnOf(x + k) \notin DOMAIN buffer
    <2> TAKE k \in Sn
    <2>1. k \in Nat
        BY Sizes DEF Sn
    <2> QED BY <2>1, PlusIs, Zenon
<1>3. z - x \in Sn /\ x + (z - x) = z
    BY Sizes DEF Sn
<1>4. z - x \in S
    BY <1>2, <1>3, Zenon
<1> DEFINE m == Min(S)
<1>5. m \in S /\ m \in Nat /\ \A k \in S : m <= k
    BY <1>1, <1>4, MinFacts, Zenon
<1>6. m \in Sn
    BY <1>5, Zenon
<1>7. FirstMissing(buffer, SnOf(x)) = SnOf(x + m)
    BY <1>5, PlusIs, Zenon DEF FirstMissing
<1>8. SnOf(x + m) \notin DOMAIN buffer
    BY <1>2, <1>5, <1>6, Zenon
<1> HIDE DEF S, m
<1>9. x + m \in Nat /\ x <= x + m /\ x + m <= z
    BY <1>4, <1>5
<1>10. ASSUME NEW n \in x..(x + m) - 1 PROVE SnOf(n) \in DOMAIN buffer
    <2>1. n - x \in Sn /\ ~(m <= n - x) /\ x + (n - x) = n
        BY <1>5, <1>6, Sizes DEF Sn
    <2>2. n - x \notin S
        BY <1>5, <2>1, Zenon
    <2> QED BY <1>2, <2>1, <2>2, Zenon
<1> QED BY <1>7, <1>8, <1>9, <1>10, Zenon

\* What Without() leaves: the PDUs before the i-th, and those after it.
LEMMA WithoutFacts ==
    ASSUME NEW T, NEW s \in Seq(T), NEW i \in 1..Len(s)
    PROVE  /\ Without(s, i) \in Seq(T)
           /\ Len(Without(s, i)) = Len(s) - 1
           /\ \A j \in 1..Len(s) - 1 : Without(s, i)[j] = IF j < i THEN s[j] ELSE s[j + 1]
<1> DEFINE p == SubSeq(s, 1, i - 1)
           q == SubSeq(s, i + 1, Len(s))
<1>0. Len(s) \in Nat /\ i \in Nat /\ 1 <= i /\ i <= Len(s)
    OBVIOUS
<1>1. p \in Seq(T) /\ Len(p) = i - 1 /\ \A j \in 1..i - 1 : p[j] = s[j]
    BY <1>0
<1>2. q \in Seq(T) /\ Len(q) = Len(s) - i /\ \A j \in 1..Len(s) - i : q[j] = s[i + j]
    BY <1>0
<1> HIDE DEF p, q
<1>3. p \o q \in Seq(T) /\ Len(p \o q) = Len(p) + Len(q)
    <2>1. p \in Seq(T) /\ q \in Seq(T)
        BY <1>1, <1>2
    <2> QED BY <2>1
<1>4. /\ \A j \in 1..Len(p) : (p \o q)[j] = p[j]
      /\ \A j \in 1..Len(q) : (p \o q)[Len(p) + j] = q[j]
    <2>1. p \in Seq(T) /\ q \in Seq(T) /\ Len(p) \in Nat /\ Len(q) \in Nat
        BY <1>1, <1>2
    <2> QED BY <2>1
<1>5. ASSUME NEW j \in 1..Len(s) - 1 PROVE (p \o q)[j] = IF j < i THEN s[j] ELSE s[j + 1]
    <2>1. CASE j < i
        <3>1. j \in 1..i - 1 /\ j \in 1..Len(p)
            BY <1>0, <1>1, <2>1
        <3> QED BY <1>1, <1>4, <2>1, <3>1, Zenon
    <2>2. CASE ~(j < i)
        <3>1. PICK m \in 1..Len(q) : j = Len(p) + m /\ i + m = j + 1
            <4>1. (j - i) + 1 \in 1..Len(q) /\ j = Len(p) + ((j - i) + 1) /\ i + ((j - i) + 1) = j + 1
                BY <1>0, <1>1, <1>2, <2>2
            <4> QED BY <4>1, Zenon
        <3>2. (p \o q)[j] = q[m] /\ q[m] = s[i + m]
            BY <1>2, <1>4, <3>1, Zenon
        <3> QED BY <2>2, <3>1, <3>2, Zenon
    <2> QED BY <2>1, <2>2, Zenon
<1>6. Len(p \o q) = Len(s) - 1 /\ Without(s, i) = p \o q
    BY <1>0, <1>1, <1>2, <1>3 DEF Without, p, q
<1> QED BY <1>3, <1>5, <1>6, Zenon

-----------------------------------------------------------------------------
(* Receiving a data PDU.                                                   *)

\* A number outside of lo..hi - 1 that is less than a modulus away has no PDU in
\* a buffer of these numbers.
LEMMA NotNumbered ==
    ASSUME NEW buffer, NEW lo \in Nat, NEW hi \in Nat, Numbered(buffer, lo, hi),
           NEW n \in Nat, n \notin lo..hi - 1, n - lo < Modulus, hi - n <= Modulus
    PROVE  SnOf(n) \notin DOMAIN buffer
<1> SUFFICES ASSUME SnOf(n) \in DOMAIN buffer PROVE FALSE
    BY Zenon
<1>1. PICK m : m \in lo..hi - 1 /\ SnOf(m) = SnOf(n)
    BY Zenon DEF Numbered
<1>2. m \in Nat /\ m - n < Modulus /\ n - m < Modulus
    BY <1>1, Sizes
<1>3. m = n
    BY <1>1, <1>2, SameNumber, Zenon
<1> QED BY <1>1, <1>3, Zenon

\* What the order of the windows says of their distances.
LEMMA OrderedFacts ==
    ASSUME NEW a, NEW r, NEW ms, NEW h, NEW s, Ordered(a, r, ms, h, s)
    PROVE  /\ a \in Nat /\ r \in Nat /\ ms \in Nat /\ h \in Nat /\ s \in Nat
           /\ a <= r /\ a <= ms /\ a <= h /\ a <= s /\ r <= ms /\ r <= h /\ r <= s
           /\ ms <= h /\ ms <= s /\ h <= s /\ s <= a + WindowSize /\ s <= r + WindowSize
           /\ s - a < Modulus /\ s - r < Modulus /\ h - a < Modulus /\ h - r < Modulus
           /\ ms - a < Modulus /\ ms - r < Modulus /\ r - a < Modulus /\ h - ms < Modulus
BY Sizes DEF Ordered

\* A PDU that is not a window behind VR(H) and that is found inside of the
\* receiving window is not below VR(R).
LEMMA InsideWindow ==
    ASSUME NEW a, NEW r, NEW ms, NEW h, NEW s, Ordered(a, r, ms, h, s),
           NEW n \in Nat, n < s, h <= n + WindowSize, IsInsideReceivingWindow(SnOf(r), SnOf(n))
    PROVE  r <= n /\ n - r < WindowSize /\ Distance(SnOf(r), SnOf(n)) = n - r
<1>1. r \in Nat /\ h \in Nat /\ a \in Nat /\ s \in Nat /\ r <= h /\ s <= r + WindowSize
    BY Sizes DEF Ordered
<1>2. ASSUME n < r PROVE FALSE
    <2>1. r - n < Modulus /\ ~(Modulus - (r - n) < WindowSize)
        BY <1>1, <1>2, Sizes
    <2>2. Distance(SnOf(r), SnOf(n)) = Modulus - (r - n)
        BY <1>1, <1>2, <2>1, DistanceBack, Zenon
    <2> QED BY <2>1, <2>2, Zenon DEF IsInsideReceivingWindow
<1>3. r <= n /\ n - r < WindowSize /\ n - r < Modulus
    BY <1>1, <1>2, Sizes
<1> QED BY <1>1, <1>3, DistanceIs, Zenon

\* The buffer with a PDU, which stays as it is if it has that PDU already.
Placed(buffer, pdu) ==
    IF SnOf(pdu.n) \in DOMAIN buffer THEN buffer ELSE Put(buffer, SnOf(pdu.n), pdu)

\* A PDU is placed under its own number.
LEMMA PlacedFacts ==
    ASSUME NEW buffer, NEW pdu, NEW lo \in Nat, NEW hi \in Nat, NEW hi2 \in Nat,
           Numbered(buffer, lo, hi), pdu.n \in lo..hi2 - 1, hi <= hi2
    PROVE  /\ DOMAIN Placed(buffer, pdu) = DOMAIN buffer \cup {SnOf(pdu.n)}
           /\ Numbered(Placed(buffer, pdu), lo, hi2)
<1>1. \A n \in lo..hi - 1 : n \in lo..hi2 - 1
    OBVIOUS
<1>2. Numbered(buffer, lo, hi2)
    BY <1>1, Zenon DEF Numbered
<1>3. CASE SnOf(pdu.n) \in DOMAIN buffer
    BY <1>2, <1>3, Zenon DEF Placed
<1>4. CASE SnOf(pdu.n) \notin DOMAIN buffer
    <2>1. PICK k : k = SnOf(pdu.n)
        BY Zenon
    <2>2. PICK f : /\ f = Placed(buffer, pdu) /\ DOMAIN f = DOMAIN buffer \cup {k}
                   /\ f[k] = pdu /\ \A j \in DOMAIN buffer : j # k => f[j] = buffer[j]
        <3>1. PICK f : f = Placed(buffer, pdu)
            BY Zenon
        <3>2. f = Put(buffer, k, pdu)
            BY <1>4, <2>1, <3>1, Zenon DEF Placed
        <3> QED BY <3>1, <3>2, Zenon DEF Put
    <2>3. ASSUME NEW sn \in DOMAIN f PROVE f[sn].n \in lo..hi2 - 1 /\ SnOf(f[sn].n) = sn
        <3>1. CASE sn = k
            BY <2>1, <2>2, <3>1, Zenon
        <3>2. CASE sn # k
            <4>1. sn \in DOMAIN buffer /\ f[sn] = buffer[sn]
                BY <2>2, <3>2, Zenon
            <4> QED BY <1>2, <4>1, Zenon DEF Numbered
        <3> QED BY <3>1, <3>2, Zenon
    <2>4. Numbered(f, lo, hi2)
        BY <2>3, Zenon DEF Numbered
    <2> QED BY <2>1, <2>2, <2>4, Zenon
<1> QED BY <1>3, <1>4, Zenon

\* VR(H), VR(MS) and VR(R) after the PDU is placed: the last two are the first
\* numbers missing from where they were, and the order stays.
NextH(n, h) == IF n >= h THEN n + 1 ELSE h

Advanced(B, buffer, n, r, ms, h, r2, ms2, h2) ==
    /\ DOMAIN B = DOMAIN buffer \cup {SnOf(n)} /\ Numbered(B, r, h2)
    /\ h <= h2 /\ ms <= ms2 /\ r <= r2
    /\ FirstMissing(B, SnOf(ms)) = SnOf(ms2) /\ SnOf(ms2) \notin DOMAIN B
    /\ \A m \in ms..ms2 - 1 : SnOf(m) \in DOMAIN B
    /\ SnOf(r2) \notin DOMAIN B /\ \A m \in r..r2 - 1 : SnOf(m) \in DOMAIN B
    /\ IF n = r THEN FirstMissing(B, SnOf(r)) = SnOf(r2) ELSE r2 = r

\* VR(R) <= VR(MS) <= VR(H) stays when a PDU is placed.
LEMMA Advance ==
    ASSUME NEW a, NEW r, NEW ms, NEW h, NEW s, Ordered(a, r, ms, h, s),
           NEW buffer, Reception(buffer, r, ms, h),
           NEW pdu, pdu.n \in Nat, r <= pdu.n, pdu.n < s
    PROVE  \E ms2, r2 \in Nat :
             /\ Ordered(a, r2, ms2, NextH(pdu.n, h), s)
             /\ Advanced(Placed(buffer, pdu), buffer, pdu.n, r, ms, h, r2, ms2, NextH(pdu.n, h))
<1>0. PICK n \in Nat : n = pdu.n
    BY Zenon
<1> DEFINE B == Placed(buffer, pdu)
           h2 == IF n >= h THEN n + 1 ELSE h
<1>1. /\ a \in Nat /\ r \in Nat /\ ms \in Nat /\ h \in Nat /\ s \in Nat
      /\ a <= r /\ r <= ms /\ ms <= h /\ h <= s /\ s <= a + WindowSize
    BY DEF Ordered
<1>2. h2 \in Nat /\ h <= h2 /\ h2 <= s /\ n \in r..h2 - 1 /\ h2 - r < Modulus /\ h2 - ms < Modulus
    <2>1. r <= n /\ n < s
        BY <1>0, Zenon
    <2> QED BY <1>1, <2>1, Sizes
<1> HIDE DEF h2
<1>3. DOMAIN B = DOMAIN buffer \cup {SnOf(n)} /\ Numbered(B, r, h2)
    BY <1>0, <1>1, <1>2, PlacedFacts, Zenon DEF Reception
<1>4. SnOf(h2) \notin DOMAIN B
    <2>1. h2 \notin r..h2 - 1 /\ h2 - h2 <= Modulus
        BY <1>1, <1>2, Sizes
    <2> QED BY <1>1, <1>2, <1>3, <2>1, NotNumbered, Zenon
<1> HIDE DEF B
<1>5. ms <= h2 /\ h2 - ms < Modulus
    BY <1>1, <1>2
<1>6. PICK ms2 \in Nat : /\ ms <= ms2 /\ ms2 <= h2 /\ FirstMissing(B, SnOf(ms)) = SnOf(ms2)
                         /\ SnOf(ms2) \notin DOMAIN B
                         /\ \A m \in ms..ms2 - 1 : SnOf(m) \in DOMAIN B
    BY <1>1, <1>2, <1>4, <1>5, FirstMissingIs, Zenon
<1>7. r <= ms2 /\ ms2 - r < Modulus
    <2>1. ms <= ms2 /\ ms2 <= h2
        BY <1>6, Zenon
    <2> QED BY <1>1, <1>2, <2>1, Sizes
<1>8. PICK r2 \in Nat : /\ r <= r2 /\ r2 <= ms2 /\ SnOf(r2) \notin DOMAIN B
                        /\ \A m \in r..r2 - 1 : SnOf(m) \in DOMAIN B
                        /\ IF n = r THEN FirstMissing(B, SnOf(r)) = SnOf(r2) ELSE r2 = r
    <2>1. CASE n = r
        BY <1>1, <1>6, <1>7, <2>1, FirstMissingIs, Zenon
    <2>2. CASE n # r
        <3>1. n - r < Modulus /\ r - n < Modulus /\ r <= r /\ \A m \in r..r - 1 : FALSE
            BY <1>1, <1>2, Sizes
        <3>2. SnOf(n) # SnOf(r)
            BY <1>1, <2>2, <3>1, SameNumber, Zenon
        <3>3. SnOf(r) \notin DOMAIN B
            BY <1>3, <3>2, Zenon DEF Reception
        <3> QED BY <1>1, <1>7, <2>2, <3>1, <3>3, Zenon
    <2> QED BY <2>1, <2>2, Zenon
<1>9. Ordered(a, r2, ms2, h2, s)
    <2>1. ms2 <= h2 /\ r <= r2 /\ r2 <= ms2
        BY <1>6, <1>8, Zenon
    <2> QED BY <1>1, <1>2, <2>1 DEF Ordered
<1>10. Advanced(B, buffer, n, r, ms, h, r2, ms2, h2)
    BY <1>2, <1>3, <1>6, <1>8, Zenon DEF Advanced
<1> QED BY <1>0, <1>9, <1>10, Zenon DEF B, h2, NextH

\* The PDUs that are delivered are those from VR(R) to the first one missing.
LEMMA SequenceFacts ==
    ASSUME NEW d \in Nat, NEW B, NEW sn, NEW run, run = [i \in 1..d |-> B[Plus(sn, i - 1)]]
    PROVE  Len(run) = d /\ DOMAIN run = 1..d /\ \A i \in 1..d : run[i] = B[Plus(sn, i - 1)]
OBVIOUS

RunOf(run, B, r, y) ==
    DOMAIN run = 1..y - r /\ \A i \in 1..y - r : run[i] = B[Plus(SnOf(r), i - 1)]
SnsOf(run) == {SnOf(run[i].n) : i \in DOMAIN run}
HasAll(B, r, y) == \A m \in r..y - 1 : SnOf(m) \in DOMAIN B

\* They have the numbers from VR(R) on.
LEMMA RunFacts ==
    ASSUME NEW B, NEW r \in Nat, NEW y \in Nat, NEW h, r <= y, Numbered(B, r, h),
           HasAll(B, r, y), NEW run, RunOf(run, B, r, y)
    PROVE  SnsOf(run) = SnRange(r, y)
<1>a. DOMAIN run = 1..y - r /\ \A i \in 1..y - r : run[i] = B[Plus(SnOf(r), i - 1)]
    BY Zenon DEF RunOf
<1>0. /\ \A i \in 1..y - r : i - 1 \in Nat /\ r + (i - 1) \in r..y - 1
      /\ \A m \in r..y - 1 : (m - r) + 1 \in 1..y - r /\ r + (((m - r) + 1) - 1) = m
    OBVIOUS
<1>3. ASSUME NEW i \in 1..y - r PROVE SnOf(run[i].n) = SnOf(r + (i - 1))
    <2>1. i - 1 \in Nat /\ r + (i - 1) \in r..y - 1
        BY <1>0, Zenon
    <2>2. run[i] = B[SnOf(r + (i - 1))]
        BY <1>a, <2>1, PlusIs, Zenon
    <2> QED BY <2>1, <2>2, Zenon DEF Numbered, HasAll
<1>5. ASSUME NEW m \in r..y - 1 PROVE \E i \in DOMAIN run : SnOf(m) = SnOf(run[i].n)
    <2>1. (m - r) + 1 \in 1..y - r /\ r + (((m - r) + 1) - 1) = m
        BY <1>0, Zenon
    <2> QED BY <1>a, <1>3, <2>1, Zenon
<1>6. ASSUME NEW i \in DOMAIN run PROVE \E m \in r..y - 1 : SnOf(run[i].n) = SnOf(m)
    <2>1. i \in 1..y - r /\ r + (i - 1) \in r..y - 1
        BY <1>a, <1>0, Zenon
    <2> QED BY <1>3, <2>1, Zenon
<1>7. {SnOf(run[i].n) : i \in DOMAIN run} \subseteq {SnOf(m) : m \in r..y - 1}
    BY <1>6, Zenon
<1>8. ASSUME NEW sn \in {SnOf(m) : m \in r..y - 1} PROVE sn \in {SnOf(run[i].n) : i \in DOMAIN run}
    <2>1. PICK m \in r..y - 1 : sn = SnOf(m)
        BY Zenon
    <2>2. PICK i \in DOMAIN run : sn = SnOf(run[i].n)
        BY <1>5, <2>1, Zenon
    <2> QED BY <2>2, Zenon
<1> QED BY <1>7, <1>8, Zenon DEF SnsOf, SnRange

\* The reception buffer without the delivered PDUs.
Delivered(b2, B, r, r2) == b2 = Restrict(B, DOMAIN B \ SnRange(r, r2))
Retains(b2, B, lo, hi) == \A m \in lo..hi - 1 : SnOf(m) \in DOMAIN B => SnOf(m) \in DOMAIN b2

\* What stays is above the new VR(R), and all of that stays.
LEMMA Delivery ==
    ASSUME NEW a, NEW r2, NEW ms2, NEW h2, NEW s, Ordered(a, r2, ms2, h2, s),
           NEW r \in Nat, a <= r, r <= r2, NEW B, Numbered(B, r, h2),
           SnOf(r2) \notin DOMAIN B, SnOf(ms2) \notin DOMAIN B,
           NEW b2, Delivered(b2, B, r, r2)
    PROVE  Reception(b2, r2, ms2, h2) /\ Retains(b2, B, r2, s)
<1>1. /\ DOMAIN b2 = DOMAIN B \ {SnOf(m) : m \in r..r2 - 1}
      /\ \A sn \in DOMAIN B \ {SnOf(m) : m \in r..r2 - 1} : b2[sn] = B[sn]
    BY Zenon DEF Delivered, SnRange, Restrict
<1>2. /\ a \in Nat /\ r2 \in Nat /\ h2 \in Nat /\ s \in Nat /\ s <= r + WindowSize
    BY Sizes DEF Ordered
<1>3. ASSUME NEW sn \in DOMAIN b2 PROVE b2[sn].n \in r2..h2 - 1 /\ SnOf(b2[sn].n) = sn
    <2>1. PICK m : m = B[sn].n
        BY Zenon
    <2>2. m \in r..h2 - 1 /\ SnOf(m) = sn /\ b2[sn].n = m /\ m \notin r..r2 - 1
        BY <1>1, <2>1, Zenon DEF Numbered
    <2>3. m \in r2..h2 - 1
        BY <1>2, <2>2
    <2> QED BY <2>2, <2>3, Zenon
<1>4. ASSUME NEW m \in r2..s - 1, SnOf(m) \in DOMAIN B PROVE SnOf(m) \in DOMAIN b2
    <2>1. ASSUME NEW q \in r..r2 - 1 PROVE SnOf(m) # SnOf(q)
        <3>1. m \in Nat /\ q \in Nat /\ m - q < Modulus /\ q - m < Modulus /\ m # q
            BY <1>2, Sizes
        <3> QED BY <3>1, SameNumber, Zenon
    <2> QED BY <1>1, <1>4, <2>1, Zenon
<1>5. Retains(b2, B, r2, s)
    BY <1>4, Zenon DEF Retains
<1> QED BY <1>1, <1>3, <1>5, Zenon DEF Reception, Numbered

\* The reordering timer stays as long as VR(X) is above VR(R), and starts anew
\* with VR(H) when something is missing.
Runs(timer, vrX, r) ==
    /\ timer
    /\ vrX # SnOf(r)
    /\ IsInsideReceivingWindow(SnOf(r), vrX) \/ vrX = Plus(SnOf(r), WindowSize)
Starts(timer, vrX, r, h) == ~Runs(timer, vrX, r) /\ Distance(SnOf(r), SnOf(h)) > 0

Rearmed(timer2, vrX2, timer, vrX, r, h) ==
    /\ timer2 <=> Runs(timer, vrX, r) \/ Starts(timer, vrX, r, h)
    /\ vrX2 = IF Starts(timer, vrX, r, h) THEN SnOf(h) ELSE vrX

\* From lo to hi, b2 has the PDUs that buffer has, and all from ms on.
RetainsAll(b2, buffer, ms, lo, hi) ==
    \A m \in lo..hi - 1 : m >= ms \/ SnOf(m) \in DOMAIN buffer => SnOf(m) \in DOMAIN b2

\* VR(X) stays above VR(R), with nothing missing from it to VR(MS).
LEMMA ReorderingFacts ==
    ASSUME NEW a, NEW r, NEW ms, NEW h, NEW s, Ordered(a, r, ms, h, s),
           NEW r2, NEW ms2, NEW h2, Ordered(a, r2, ms2, h2, s), h <= h2,
           NEW timer, NEW vrX, NEW buffer, Reordered(timer, vrX, buffer, r, ms, h),
           NEW b2, RetainsAll(b2, buffer, ms, r2, ms2),
           NEW timer2, NEW vrX2, Rearmed(timer2, vrX2, timer, vrX, r2, h2)
    PROVE  Reordered(timer2, vrX2, b2, r2, ms2, h2)
<1> DEFINE runs == Runs(timer, vrX, r2)
           starts == Starts(timer, vrX, r2, h2)
<1>0. /\ runs <=> /\ timer /\ vrX # SnOf(r2)
                  /\ \/ IsInsideReceivingWindow(SnOf(r2), vrX)
                     \/ vrX = Plus(SnOf(r2), WindowSize)
      /\ starts <=> ~runs /\ Distance(SnOf(r2), SnOf(h2)) > 0
    BY Zenon DEF Runs, Starts
<1> HIDE DEF runs, starts
<1>1. /\ a \in Nat /\ r \in Nat /\ ms \in Nat /\ h \in Nat /\ s \in Nat
      /\ r2 \in Nat /\ ms2 \in Nat /\ h2 \in Nat
      /\ a <= r /\ r2 <= ms2 /\ ms2 <= h2 /\ h2 <= s /\ s <= a + WindowSize
    BY DEF Ordered
<1>2. ASSUME starts
      PROVE  \E x \in r2 + 1..h2 : SnOf(h2) = SnOf(x) /\ \A n \in x..ms2 - 1 : SnOf(n) \in DOMAIN b2
    <2>1. r2 <= h2 /\ h2 - r2 < Modulus
        BY OrderedFacts, Zenon
    <2>2. h2 - r2 > 0
        BY <1>0, <1>1, <1>2, <2>1, DistanceIs, Zenon
    <2>3. h2 \in r2 + 1..h2 /\ \A n \in h2..ms2 - 1 : FALSE
        BY <1>1, <2>2
    <2> QED BY <2>3, Zenon
<1>3. ASSUME runs
      PROVE  \E x \in r2 + 1..h2 : vrX = SnOf(x) /\ \A n \in x..ms2 - 1 : SnOf(n) \in DOMAIN b2
    <2>1. PICK x \in r + 1..h : vrX = SnOf(x) /\ \A n \in x..ms - 1 : SnOf(n) \in DOMAIN buffer
        BY <1>0, <1>3, Zenon DEF Reordered
    <2>2. x \in Nat /\ r < x /\ x <= h
        BY <1>1
    <2>3. ASSUME x < r2 PROVE FALSE
        <3>1. /\ r2 - x < Modulus /\ ~(Modulus - (r2 - x) < WindowSize)
              /\ r2 + WindowSize \in Nat /\ WindowSize \in Nat
              /\ x - (r2 + WindowSize) < Modulus /\ (r2 + WindowSize) - x < Modulus
              /\ x # r2 + WindowSize
            BY <1>1, <2>2, <2>3, Sizes
        <3>2. Distance(SnOf(r2), SnOf(x)) = Modulus - (r2 - x)
            BY <1>1, <2>2, <2>3, <3>1, DistanceBack, Zenon
        <3>3. ~IsInsideReceivingWindow(SnOf(r2), vrX)
            BY <2>1, <3>1, <3>2, Zenon DEF IsInsideReceivingWindow
        <3>4. vrX = SnOf(r2 + WindowSize)
            BY <1>0, <1>1, <1>3, <3>1, <3>3, PlusIs, Zenon
        <3> QED BY <2>1, <2>2, <3>1, <3>4, SameNumber, Zenon
    <2>4. x # r2
        BY <1>0, <1>3, <2>1, Zenon
    <2>5. x \in r2 + 1..h2
        BY <1>1, <2>2, <2>3, <2>4
    <2>6. ASSUME NEW n \in x..ms2 - 1 PROVE SnOf(n) \in DOMAIN b2
        <3>1. n \in r2..ms2 - 1 /\ (n >= ms \/ n \in x..ms - 1)
            BY <1>1, <2>2, <2>5
        <3> QED BY <2>1, <3>1, Zenon DEF RetainsAll
    <2> QED BY <2>1, <2>5, <2>6, Zenon
<1>4. CASE starts
    BY <1>2, <1>4, Zenon DEF Reordered, Rearmed, starts
<1>5. CASE ~starts
    BY <1>3, <1>5, Zenon DEF Reordered, Rearmed, runs, starts
<1> QED BY <1>4, <1>5, Zenon

\* What is received need not be kept.
LEMMA KeptAfterDelivery ==
    ASSUME NEW txed, NEW retx, NEW rx, NEW a, NEW r \in Nat, NEW s \in Nat,
           Kept(txed, retx, rx, a, r, s), NEW r2 \in Nat, r <= r2,
           NEW rx2, \A m \in r2..s - 1 : SnOf(m) \in rx => SnOf(m) \in rx2
    PROVE  Kept(txed, retx, rx2, a, r2, s)
<1>1. \A m \in r2..s - 1 : m \in r..s - 1
    OBVIOUS
<1> QED BY <1>1, Zenon DEF Kept

\* What a STATUS PDU says stays true while PDUs are received.
LEMMA ReportsAfterDelivery ==
    ASSUME NEW pending, NEW prohibit, NEW kept, NEW rx, NEW a \in Nat, NEW r \in Nat, NEW ms \in Nat,
           Reports(pending, prohibit, kept, rx, a, r, ms),
           NEW r2 \in Nat, r <= r2, NEW ms2 \in Nat, ms <= ms2, NEW s \in Nat, ms <= s,
           NEW rx2, \A m \in r2..s - 1 : SnOf(m) \in rx => SnOf(m) \in rx2
    PROVE  Reports(pending, prohibit, kept, rx2, a, r2, ms2)
<1>1. ASSUME NEW p \in pending
      PROVE  \E b \in a..r2 : \E k \in b..ms2 : Report(p, kept, rx2, r2, b, k)
    <2>1. PICK b \in a..r : \E k \in b..ms : Report(p, kept, rx, r, b, k)
        BY Zenon DEF Reports
    <2>2. PICK k \in b..ms : Report(p, kept, rx, r, b, k)
        BY <2>1, Zenon
    <2>3. b \in a..r2 /\ k \in b..ms2 /\ k \in Nat /\ b \in Nat /\ k <= s
        OBVIOUS
    <2>4. ASSUME NEW n \in b..k - 1 PROVE SnOf(n) \in p.nacks \/ n < r2 \/ SnOf(n) \in rx2
        <3>1. (n < r => n < r2) /\ (n < r2 \/ n \in r2..s - 1)
            BY <2>3
        <3> QED BY <2>2, <3>1, Zenon DEF Report
    <2>5. Report(p, kept, rx2, r2, b, k)
        BY <2>2, <2>4, Zenon DEF Report
    <2> QED BY <2>3, <2>5, Zenon
<1> QED BY <1>1, Zenon DEF Reports

\* A STATUS PDU stays true when the transmitting side keeps more.
LEMMA ReportsOfMore ==
    ASSUME NEW pending, NEW prohibit, NEW kept, NEW rx, NEW a, NEW r, NEW ms,
           Reports(pending, prohibit, kept, rx, a, r, ms), NEW kept2, kept \subseteq kept2
    PROVE  Reports(pending, prohibit, kept2, rx, a, r, ms)
<1>1. ASSUME NEW p, NEW b, NEW k, Report(p, kept, rx, r, b, k) PROVE Report(p, kept2, rx, r, b, k)
    BY <1>1, Zenon DEF Report
<1> QED BY <1>1, Zenon DEF Reports

\* A sequence is one of its own elements.
LEMMA SequenceOfRange ==
    ASSUME NEW T, NEW q \in Seq(T)
    PROVE  q \in Seq(Range(q)) /\ Len(q) \in Nat
<1>1. q \in [1..Len(q) -> T] /\ Len(q) \in Nat /\ DOMAIN q = 1..Len(q)
    OBVIOUS
<1>2. q \in [1..Len(q) -> Range(q)]
    BY <1>1, Zenon DEF Range
<1> QED BY <1>1, <1>2

\* A PDU arrives or is lost.
LEMMA UnderWayWithout ==
    ASSUME NEW data, NEW h, NEW s, UnderWay(data, h, s), NEW i \in 1..Len(data), NEW h2,
           \A j \in 1..Len(data) : j # i => h2 <= data[j].pdu.n + WindowSize
    PROVE  UnderWay(Without(data, i), h2, s)
<1>1. PICK T : data \in Seq(T)
    BY Zenon DEF UnderWay
<1>2. PICK q : q = Without(data, i)
    BY Zenon
<1>3. /\ q \in Seq(T) /\ Len(q) = Len(data) - 1
      /\ \A j \in 1..Len(data) - 1 : q[j] = IF j < i THEN data[j] ELSE data[j + 1]
    BY <1>1, <1>2, WithoutFacts, Zenon
<1>4. q \in Seq(Range(q)) /\ Len(data) \in Nat
    BY <1>1, <1>3, SequenceOfRange, Zenon
<1>5. PICK f : f = [j \in 1..Len(q) |-> IF j < i THEN j ELSE j + 1]
    BY Zenon
<1>6. /\ \A j \in 1..Len(q) : f[j] \in 1..Len(data) /\ f[j] # i
      /\ \A j, l \in 1..Len(q) : j < l => f[j] < f[l]
    <2>1. PICK n \in Nat : n = Len(data) /\ n - 1 = Len(q) /\ i \in 1..n
        BY <1>3, <1>4, Zenon
    <2> QED BY <1>5, <2>1
<1>7. \A j \in 1..Len(q) : q[j] = data[f[j]]
    BY <1>3, <1>5, Zenon
<1>8. UnderWay(q, h2, s)
    BY <1>4, <1>6, <1>7, Zenon DEF UnderWay
<1> QED BY <1>2, <1>8, Zenon

\* A PDU is sent: none before it is a window ahead.
LEMMA UnderWayAppend ==
    ASSUME NEW data, NEW h, NEW s \in Nat, UnderWay(data, h, s), NEW s2 \in Nat, s <= s2,
           NEW e, e.pdu.n \in 0..s2 - 1, h <= e.pdu.n + WindowSize, s <= e.pdu.n + WindowSize
    PROVE  UnderWay(Append(data, e), h, s2)
<1>1. PICK T : data \in Seq(T)
    BY Zenon DEF UnderWay
<1>2. PICK q : q = Append(data, e)
    BY Zenon
<1>3. PICK n \in Nat : n = Len(data)
    BY <1>1, SequenceOfRange, Zenon
<1>4. /\ q \in Seq(T \cup {e}) /\ Len(q) = n + 1
      /\ (\A j \in 1..n : q[j] = data[j]) /\ q[n + 1] = e
    BY <1>1, <1>2, <1>3
<1>5. q \in Seq(Range(q))
    BY <1>4, SequenceOfRange, Zenon
<1>6. /\ \A j \in 1..n + 1 : j = n + 1 \/ j \in 1..n
      /\ \A j, l \in 1..n + 1 : j < l => j \in 1..n
      /\ \A m \in 0..s - 1 : m \in 0..s2 - 1
    OBVIOUS
<1>7. ASSUME NEW j \in 1..n PROVE data[j].pdu.n < e.pdu.n + WindowSize
    <2>1. PICK m \in 0..s - 1 : m = data[j].pdu.n
        BY <1>3, Zenon DEF UnderWay
    <2>2. PICK m2 \in Nat : m2 = e.pdu.n /\ s <= m2 + WindowSize
        OBVIOUS
    <2>3. m < m2 + WindowSize
        BY <2>2, Sizes
    <2> QED BY <2>1, <2>2, <2>3, Zenon
<1>8. ASSUME NEW j \in 1..n + 1 PROVE q[j].pdu.n \in 0..s2 - 1 /\ h <= q[j].pdu.n + WindowSize
    BY <1>3, <1>4, <1>6, Zenon DEF UnderWay
<1>9. ASSUME NEW j \in 1..n + 1, NEW l \in 1..n + 1, j < l
      PROVE  q[j].pdu.n < q[l].pdu.n + WindowSize
    BY <1>3, <1>4, <1>6, <1>7, <1>9, Zenon DEF UnderWay
<1>10. UnderWay(q, h, s2)
    BY <1>4, <1>5, <1>8, <1>9, Zenon DEF UnderWay
<1> QED BY <1>2, <1>10, Zenon

-----------------------------------------------------------------------------
(* The buffers of the transmitting side.                                   *)

\* Every PDU of g is one of f or of e, under the same sequence number.
Among(g, f, e) ==
    \A sn \in DOMAIN g : \/ sn \in DOMAIN f /\ g[sn] = f[sn]
                         \/ sn \in DOMAIN e /\ g[sn] = e[sn]

\* Buffers that hold such PDUs only.
LEMMA NumberedAmong ==
    ASSUME NEW f, NEW e, NEW g, NEW lo, NEW hi, Numbered(f, lo, hi), Numbered(e, lo, hi), Among(g, f, e)
    PROVE  Numbered(g, lo, hi)
<1>1. ASSUME NEW sn \in DOMAIN g PROVE g[sn].n \in lo..hi - 1 /\ SnOf(g[sn].n) = sn
    <2>1. CASE sn \in DOMAIN f /\ g[sn] = f[sn]
        BY <2>1, Zenon DEF Numbered
    <2>2. CASE sn \in DOMAIN e /\ g[sn] = e[sn]
        BY <2>2, Zenon DEF Numbered
    <2> QED BY <2>1, <2>2, Zenon DEF Among
<1> QED BY <1>1, Zenon DEF Numbered

\* A PDU moves from one buffer to the other.
LEMMA KeptAfterMove ==
    ASSUME NEW txed, NEW retx, NEW rx, NEW a, NEW r, NEW s, Kept(txed, retx, rx, a, r, s),
           NEW txed2, Among(txed2, txed, retx), NEW retx2, Among(retx2, txed, retx),
           DOMAIN txed2 \cup DOMAIN retx2 = DOMAIN txed \cup DOMAIN retx,
           DOMAIN txed2 \cap DOMAIN retx2 = {}
    PROVE  Kept(txed2, retx2, rx, a, r, s)
<1>1. Numbered(txed2, a, s) /\ Numbered(retx2, a, s)
    BY NumberedAmong, Zenon DEF Kept
<1>2. ASSUME NEW n \in r..s - 1 PROVE SnOf(n) \in rx \cup DOMAIN txed2 \cup DOMAIN retx2
    BY Zenon DEF Kept
<1> QED BY <1>1, <1>2, Zenon DEF Kept

\* Every PDU of the buffers is outstanding.
LEMMA OutstandingFacts ==
    ASSUME NEW a \in Nat, NEW s \in Nat, a <= s, s - a < Modulus, NEW buffer, Numbered(buffer, a, s),
           NEW sn \in DOMAIN buffer
    PROVE  /\ sn \in Sn
           /\ Distance(SnOf(a), sn) \in Nat
           /\ Distance(SnOf(a), sn) < Distance(SnOf(a), SnOf(s))
           /\ Plus(SnOf(a), Distance(SnOf(a), sn)) = sn
<1>1. PICK n : n \in a..s - 1 /\ SnOf(n) = sn
    BY Zenon DEF Numbered
<1>2. n \in Nat /\ a <= n /\ n - a < Modulus /\ n - a \in Nat /\ n - a < s - a /\ a + (n - a) = n
    BY <1>1, Sizes
<1>3. Distance(SnOf(a), SnOf(n)) = n - a /\ Distance(SnOf(a), SnOf(s)) = s - a
    BY <1>2, DistanceIs, Zenon
<1>4. sn \in Sn
    BY <1>1, <1>2, SnOfType, Zenon
<1>5. Plus(SnOf(a), n - a) = SnOf(n)
    BY <1>2, PlusIs, Zenon
<1> QED BY <1>1, <1>2, <1>3, <1>4, <1>5, Zenon

-----------------------------------------------------------------------------
(* Receiving a STATUS PDU.                                                 *)

\* The numbers of lo..hi - 1 are those at a distance, and that many.
LEMMA SnRangeFacts ==
    ASSUME NEW a \in Nat, NEW k \in Nat, a <= k, k - a < Modulus
    PROVE  /\ SnRange(a, k) = {sn \in Sn : Distance(SnOf(a), sn) < k - a}
           /\ Cardinality(SnRange(a, k)) = k - a
<1>1. ASSUME NEW n \in a..k - 1 PROVE SnOf(n) \in Sn /\ Distance(SnOf(a), SnOf(n)) < k - a
    <2>1. n \in Nat /\ a <= n /\ n - a < Modulus /\ n - a < k - a
        BY Sizes
    <2> QED BY <2>1, DistanceIs, SnOfType, Zenon
<1>2. ASSUME NEW sn \in Sn, Distance(SnOf(a), sn) < k - a PROVE sn \in SnRange(a, k)
    <2>1. PICK y \in Nat : a <= y /\ sn = SnOf(y) /\ Distance(SnOf(a), sn) = y - a
        BY Unwrap, Zenon
    <2>2. y - a < k - a
        BY <1>2, <2>1, Zenon
    <2>3. y \in a..k - 1
        BY <2>1, <2>2
    <2> QED BY <2>1, <2>3, Zenon DEF SnRange
<1>3. SnRange(a, k) \subseteq {sn \in Sn : Distance(SnOf(a), sn) < k - a}
    BY <1>1, Zenon DEF SnRange
<1>4. SnRange(a, k) = {sn \in Sn : Distance(SnOf(a), sn) < k - a}
    BY <1>2, <1>3, Zenon
<1>5. Cardinality(SnRange(a, k)) = Cardinality(a..k - 1) /\ IsFiniteSet(a..k - 1)
    <2>1. PICK f : f = [n \in a..k - 1 |-> SnOf(n)]
        BY Zenon
    <2>2. ASSUME NEW m \in a..k - 1, NEW n \in a..k - 1, f[m] = f[n] PROVE m = n
        <3>1. SnOf(m) = SnOf(n)
            BY <2>1, <2>2, Zenon
        <3>2. m \in Nat /\ n \in Nat /\ m - n < Modulus /\ n - m < Modulus
            BY Sizes
        <3> QED BY <3>1, <3>2, SameNumber, Zenon
    <2>3. f \in [a..k - 1 -> SnRange(a, k)] /\ \A sn \in SnRange(a, k) : \E n \in a..k - 1 : f[n] = sn
        BY <2>1, Zenon DEF SnRange
    <2>4. f \in Bijection(a..k - 1, SnRange(a, k))
        BY <2>2, <2>3, Zenon DEF Bijection, Injection, Surjection, IsInjective
    <2>5. ExistsBijection(a..k - 1, SnRange(a, k))
        BY <2>4, Zenon DEF ExistsBijection
    <2>6. a \in Int /\ k - 1 \in Int
        OBVIOUS
    <2>7. IsFiniteSet(a..k - 1)
        BY <2>6, FS_Interval, Zenon
    <2> QED BY <2>5, <2>7, FS_Bijection, Zenon
<1>6. Cardinality(a..k - 1) = k - a
    <2>1. a \in Int /\ k - 1 \in Int /\ (IF a > k - 1 THEN 0 ELSE (k - 1) - a + 1) = k - a
        OBVIOUS
    <2> QED BY <2>1, FS_Interval, Zenon
<1> QED BY <1>4, <1>5, <1>6, Zenon

\* What a STATUS PDU reports are the numbers from VT(A) to ACK_SN, and the first
\* one that it reports missing is the new VT(A).
ReportedBy(p, a, s) ==
    {sn \in {sn \in Sn : Distance(SnOf(a), sn) < Distance(SnOf(a), SnOf(s))} :
        Distance(SnOf(a), sn) < Distance(SnOf(a), p.ackSn)}

VtAAfter(p, a, reported) ==
    Plus(SnOf(a), Min({Distance(SnOf(a), sn) : sn \in p.nacks} \cup {Cardinality(reported)}))

\* The numbers that a STATUS PDU is about, and the new VT(A).
LEMMA StatusFacts ==
    ASSUME NEW a, NEW r, NEW ms, NEW h, NEW s, Ordered(a, r, ms, h, s),
           NEW b \in a..r, NEW k \in b..ms, NEW p, NEW kept, NEW rx, Report(p, kept, rx, r, b, k)
    PROVE  /\ ReportedBy(p, a, s) = SnRange(a, k)
           /\ p.nacks \subseteq SnRange(a, k)
           /\ VtAAfter(p, a, SnRange(a, k)) = SnOf(b)
<1>1. /\ a \in Nat /\ b \in Nat /\ k \in Nat /\ s \in Nat /\ a <= b /\ b <= k /\ k <= s /\ a <= k /\ a <= s
      /\ k - a < Modulus /\ s - a < Modulus
    <2>1. /\ a \in Nat /\ r \in Nat /\ ms \in Nat /\ s \in Nat /\ a <= r /\ r <= ms /\ ms <= s
          /\ s - a < Modulus
        BY OrderedFacts, Zenon
    <2> QED BY <2>1, Sizes
<1>2. Distance(SnOf(a), SnOf(s)) = s - a /\ Distance(SnOf(a), p.ackSn) = k - a
    BY <1>1, DistanceIs, Zenon DEF Report
<1>3. \A d \in Nat : d < k - a => d < s - a
    BY <1>1
<1>4. \A sn \in Sn : Distance(SnOf(a), sn) \in Nat
    <2> TAKE sn \in Sn
    <2>1. PICK y \in Nat : a <= y /\ Distance(SnOf(a), sn) = y - a
        BY <1>1, Unwrap, Zenon
    <2> QED BY <1>1, <2>1
<1>5. SnRange(a, k) = {sn \in Sn : Distance(SnOf(a), sn) < k - a} /\ Cardinality(SnRange(a, k)) = k - a
    BY <1>1, SnRangeFacts, Zenon
<1>6. ReportedBy(p, a, s) = SnRange(a, k)
    BY <1>2, <1>3, <1>4, <1>5, Zenon DEF ReportedBy
<1>7. ASSUME NEW sn \in p.nacks
      PROVE  \E n \in b..k - 1 : /\ sn = SnOf(n) /\ sn \in SnRange(a, k)
                                 /\ Distance(SnOf(a), sn) = n - a
    <2>1. PICK n \in b..k - 1 : sn = SnOf(n)
        BY Zenon DEF Report
    <2>2. n \in a..k - 1 /\ n \in Nat /\ a <= n /\ n - a < Modulus
        BY <1>1, Sizes
    <2> QED BY <1>1, <2>1, <2>2, DistanceIs, Zenon DEF SnRange
<1>8. p.nacks \subseteq SnRange(a, k)
    BY <1>7, Zenon
<1> DEFINE S == {Distance(SnOf(a), sn) : sn \in p.nacks} \cup {Cardinality(SnRange(a, k))}
<1>9. S \subseteq Nat /\ \A d \in S : b - a <= d
    <2>1. ASSUME NEW sn \in p.nacks PROVE Distance(SnOf(a), sn) \in Nat /\ b - a <= Distance(SnOf(a), sn)
        <3>1. PICK n \in b..k - 1 : Distance(SnOf(a), sn) = n - a
            BY <1>7, Zenon
        <3>2. n - a \in Nat /\ b - a <= n - a
            BY <1>1
        <3> QED BY <3>1, <3>2, Zenon
    <2>2. k - a \in Nat /\ b - a <= k - a
        BY <1>1
    <2> QED BY <1>5, <2>1, <2>2, Zenon
<1>10. b - a \in S
    <2>1. CASE b < k
        <3>1. b - a < Modulus
            BY <1>1, Sizes
        <3>2. Distance(SnOf(a), SnOf(b)) = b - a /\ SnOf(b) \in p.nacks
            BY <1>1, <2>1, <3>1, DistanceIs, Zenon DEF Report
        <3> QED BY <3>2, Zenon
    <2>2. CASE ~(b < k)
        <3>1. b = k
            BY <1>1, <2>2
        <3> QED BY <1>5, <3>1, Zenon
    <2> QED BY <2>1, <2>2, Zenon
<1>11. Min(S) = b - a
    BY <1>9, <1>10, MinIs, Zenon
<1>12. b - a \in Nat /\ a + (b - a) = b
    BY <1>1
<1>13. Plus(SnOf(a), b - a) = SnOf(b)
    BY <1>1, <1>12, PlusIs, Zenon
<1> QED BY <1>6, <1>8, <1>11, <1>13, Zenon DEF VtAAfter

\* What a STATUS PDU makes of the buffers txed and retx.
AfterStatus(txed2, retx2, txed, retx, nacks, acked) ==
    /\ DOMAIN txed2 = (DOMAIN txed \ nacks) \ acked
    /\ DOMAIN retx2 = (DOMAIN retx \cup (nacks \cap DOMAIN txed)) \ acked
    /\ Among(txed2, txed, retx) /\ Among(retx2, txed, retx)

\* The buffers after a STATUS PDU: what it acknowledges is gone and received,
\* what it reports missing is to be sent again.
LEMMA KeptAfterStatus ==
    ASSUME NEW a, NEW r, NEW ms, NEW h, NEW s, Ordered(a, r, ms, h, s),
           NEW b \in a..r, NEW k \in b..ms, NEW p,
           Kept(m_txedBuffer, m_retxBuffer, DOMAIN m_rxonBuffer, a, r, s),
           Report(p, DOMAIN m_txedBuffer \cup DOMAIN m_retxBuffer, DOMAIN m_rxonBuffer, r, b, k),
           AfterStatus(m_txedBuffer', m_retxBuffer', m_txedBuffer, m_retxBuffer, p.nacks,
                       SnRange(a, k) \ p.nacks)
    PROVE  /\ Kept(m_txedBuffer', m_retxBuffer', DOMAIN m_rxonBuffer, b, r, s)
           /\ p.nacks \subseteq DOMAIN m_retxBuffer'
           /\ (SnRange(a, k) \ p.nacks) \cap DOMAIN m_txedBuffer \cap DOMAIN m_retxBuffer = {}
<1> DEFINE acked == SnRange(a, k) \ p.nacks
<1>0. /\ DOMAIN m_txedBuffer' = (DOMAIN m_txedBuffer \ p.nacks) \ acked
      /\ DOMAIN m_retxBuffer' = (DOMAIN m_retxBuffer \cup (p.nacks \cap DOMAIN m_txedBuffer)) \ acked
      /\ Among(m_txedBuffer', m_txedBuffer, m_retxBuffer) /\ Among(m_retxBuffer', m_txedBuffer, m_retxBuffer)
    BY Zenon DEF AfterStatus
<1>1. /\ a \in Nat /\ b \in Nat /\ k \in Nat /\ r \in Nat /\ s \in Nat /\ a <= b /\ b <= k /\ b <= r
      /\ a <= r /\ k <= s /\ s - a < Modulus
    <2>1. /\ a \in Nat /\ r \in Nat /\ ms \in Nat /\ s \in Nat /\ a <= r /\ r <= ms /\ ms <= s
          /\ s - a < Modulus
        BY OrderedFacts, Zenon
    <2> QED BY <2>1, Sizes
<1>2. ASSUME NEW n \in a..b - 1 PROVE SnOf(n) \in acked
    <2>1. n \in a..k - 1
        BY <1>1
    <2>2. ASSUME NEW m \in b..k - 1 PROVE SnOf(n) # SnOf(m)
        <3>1. m \in Nat /\ n \in Nat /\ m - n < Modulus /\ n - m < Modulus /\ n # m
            BY <1>1, Sizes
        <3> QED BY <3>1, SameNumber, Zenon
    <2>3. SnOf(n) \notin p.nacks
        BY <2>2, Zenon DEF Report
    <2> QED BY <2>1, <2>3, Zenon DEF SnRange
<1>4. ASSUME NEW g, Numbered(g, a, s), DOMAIN g \cap acked = {} PROVE Numbered(g, b, s)
    <2> SUFFICES ASSUME NEW sn \in DOMAIN g PROVE g[sn].n \in b..s - 1 /\ SnOf(g[sn].n) = sn
        BY Zenon DEF Numbered
    <2>1. PICK n : n = g[sn].n /\ n \in a..s - 1 /\ SnOf(n) = sn
        BY <1>4, Zenon DEF Numbered
    <2>2. n \notin a..b - 1
        BY <1>2, <1>4, <2>1, Zenon
    <2>3. n \in b..s - 1
        BY <1>1, <2>1, <2>2
    <2> QED BY <2>1, <2>3, Zenon
<1>5. Numbered(m_txedBuffer', b, s) /\ Numbered(m_retxBuffer', b, s)
    <2>1. Numbered(m_txedBuffer', a, s) /\ Numbered(m_retxBuffer', a, s)
        BY <1>0, NumberedAmong, Zenon DEF Kept
    <2> QED BY <1>0, <1>4, <2>1, Zenon
<1>6. ASSUME NEW n \in r..s - 1
      PROVE  SnOf(n) \in DOMAIN m_rxonBuffer \cup DOMAIN m_txedBuffer' \cup DOMAIN m_retxBuffer'
    <2>1. SnOf(n) \in DOMAIN m_rxonBuffer \cup DOMAIN m_txedBuffer \cup DOMAIN m_retxBuffer
        BY Zenon DEF Kept
    <2>2. ASSUME SnOf(n) \in acked PROVE SnOf(n) \in DOMAIN m_rxonBuffer
        <3>1. PICK m \in a..k - 1 : SnOf(n) = SnOf(m)
            BY <2>2, Zenon DEF SnRange
        <3>2. m \in Nat /\ n \in Nat /\ m - n < Modulus /\ n - m < Modulus
            BY <1>1, Sizes
        <3>3. n = m
            BY <3>1, <3>2, SameNumber, Zenon
        <3>4. n \in b..k - 1 /\ ~(n < r)
            BY <1>1, <3>3
        <3>5. SnOf(n) \notin p.nacks
            BY <2>2, Zenon
        <3> QED BY <3>4, <3>5, Zenon DEF Report
    <2> QED BY <1>0, <2>1, <2>2, Zenon
<1>7. p.nacks \subseteq DOMAIN m_retxBuffer'
    BY <1>0, Zenon DEF Report
<1>8. DOMAIN m_txedBuffer \cap DOMAIN m_retxBuffer = {}
    BY Zenon DEF Kept
<1>9. DOMAIN m_txedBuffer' \cap DOMAIN m_retxBuffer' = {}
    BY <1>0, <1>8, Zenon
<1> QED BY <1>5, <1>6, <1>7, <1>8, <1>9, Zenon DEF Kept

\* A STATUS PDU is true when it is sent, however few NACKs fit.
MissingIn(buffer, r, ms) ==
    {sn \in Sn \ DOMAIN buffer : Distance(SnOf(r), sn) < Distance(SnOf(r), SnOf(ms))}
NacksOf(missing, r, room) ==
    {sn \in missing :
        Cardinality({m \in missing : Distance(SnOf(r), m) < Distance(SnOf(r), sn)}) < room}
AckSnOf(missing, nacks, r, ms) ==
    Plus(SnOf(r), Min({Distance(SnOf(r), sn) : sn \in (missing \ nacks) \cup {SnOf(ms)}}))

\* TransmitStatus(): what is reported missing is kept, the rest is received.
LEMMA NewReport ==
    ASSUME NEW a, NEW r, NEW ms, NEW h, NEW s, Ordered(a, r, ms, h, s),
           NEW buffer, Reception(buffer, r, ms, h),
           NEW txed, NEW retx, Kept(txed, retx, DOMAIN buffer, a, r, s), NEW room \in Nat \ {0},
           NEW missing, missing = MissingIn(buffer, r, ms),
           NEW nacks, nacks = NacksOf(missing, r, room),
           NEW p, p.nacks = nacks, p.ackSn = AckSnOf(missing, nacks, r, ms)
    PROVE  \E k \in r..ms : Report(p, DOMAIN txed \cup DOMAIN retx, DOMAIN buffer, r, r, k)
<1> DEFINE D(sn) == Distance(SnOf(r), sn)
           Before(sn) == {m \in missing : D(m) < D(sn)}
           S == {D(sn) : sn \in (missing \ nacks) \cup {SnOf(ms)}}
<1>1. r \in Nat /\ ms \in Nat /\ s \in Nat /\ r <= ms /\ ms <= s /\ ms - r < Modulus
    BY OrderedFacts, Zenon
<1>0. /\ missing = {sn \in Sn \ DOMAIN buffer : D(sn) < D(SnOf(ms))}
      /\ nacks = {sn \in missing : Cardinality(Before(sn)) < room}
      /\ p.ackSn = Plus(SnOf(r), Min(S))
    BY Zenon DEF MissingIn, NacksOf, AckSnOf
<1>2. D(SnOf(ms)) = ms - r
    BY <1>1, DistanceIs, Zenon
<1>3. ASSUME NEW sn \in missing PROVE \E n \in r..ms - 1 : sn = SnOf(n) /\ D(sn) = n - r
    <2>1. PICK n \in Nat : r <= n /\ sn = SnOf(n) /\ D(sn) = n - r
        BY <1>0, <1>1, Unwrap, Zenon
    <2>2. n - r < ms - r
        BY <1>0, <1>2, <2>1, Zenon
    <2>3. n \in r..ms - 1
        BY <1>1, <2>1, <2>2
    <2> QED BY <2>1, <2>3, Zenon
<1>4. ASSUME NEW n \in r..ms - 1, SnOf(n) \notin DOMAIN buffer PROVE SnOf(n) \in missing /\ D(SnOf(n)) = n - r
    <2>1. n \in Nat /\ r <= n /\ n - r < Modulus /\ n - r < ms - r
        BY <1>1, Sizes
    <2>2. D(SnOf(n)) = n - r /\ SnOf(n) \in Sn
        BY <1>1, <2>1, DistanceIs, SnOfType, Zenon
    <2> QED BY <1>0, <1>2, <1>4, <2>1, <2>2, Zenon
<1>5. \A sn \in missing : D(sn) \in Nat
    <2> TAKE sn \in missing
    <2>1. PICK n \in r..ms - 1 : D(sn) = n - r
        BY <1>3, Zenon
    <2>2. n - r \in Nat
        BY <1>1
    <2> QED BY <2>1, <2>2, Zenon
<1>6. S \subseteq Nat /\ S # {} /\ ms - r \in S
    <2>1. ms - r \in Nat
        BY <1>1
    <2> QED BY <1>2, <1>5, <2>1, Zenon
<1>7. PICK d \in Nat : d = Min(S) /\ d \in S /\ \A e \in S : d <= e
    <2> HIDE DEF S
    <2> QED BY <1>6, MinFacts, Zenon
<1>8. PICK k \in Nat : k = r + d
    BY <1>1
<1>9. k \in r..ms /\ k - r = d
    <2>1. d <= ms - r
        BY <1>6, <1>7, Zenon
    <2> QED BY <1>1, <1>8, <2>1
<1>10. p.ackSn = SnOf(k)
    BY <1>0, <1>1, <1>7, <1>8, PlusIs, Zenon
<1>11. nacks \subseteq missing /\ \A sn \in missing : sn \in nacks <=> Cardinality(Before(sn)) < room
    BY <1>0, Zenon
<1>12. ASSUME r < k PROVE SnOf(r) \in nacks
    <2>1. r \in r..ms - 1 /\ r - r = 0
        BY <1>1, <1>9, <1>12
    <2>2. SnOf(r) \in missing /\ D(SnOf(r)) = 0
        BY <1>4, <2>1, Zenon DEF Reception
    <2>3. \A x \in Nat : ~(x < 0)
        OBVIOUS
    <2>4. Before(SnOf(r)) = {}
        BY <1>5, <2>2, <2>3, Zenon
    <2>5. Cardinality(Before(SnOf(r))) = 0
        BY <2>4, FS_EmptySet, Zenon
    <2>6. 0 < room
        OBVIOUS
    <2> QED BY <1>11, <2>2, <2>5, <2>6, Zenon
<1>13. IsFiniteSet(missing)
    <2>1. IsFiniteSet(0..Modulus - 1)
        <3>1. 0 \in Int /\ Modulus - 1 \in Int
            BY Sizes
        <3> QED BY <3>1, FS_Interval, Zenon
    <2>2. missing \in SUBSET (0..Modulus - 1)
        BY <1>0, Zenon DEF Sn
    <2> QED BY <2>1, <2>2, FS_Subset, Zenon
<1>14. ASSUME NEW sn \in nacks PROVE \E n \in r..k - 1 : sn = SnOf(n)
    <2>1. PICK n \in r..ms - 1 : sn = SnOf(n) /\ D(sn) = n - r
        BY <1>3, <1>11, Zenon
    <2>2. ASSUME k <= n PROVE FALSE
        <3>1. d # ms - r /\ d <= n - r
            BY <1>1, <1>9, <2>2
        <3>2. PICK q \in missing \ nacks : D(q) = d
            BY <1>2, <1>7, <3>1, Zenon
        <3>3. \A x, y, z \in Nat : x < y /\ y <= z => x < z
            OBVIOUS
        <3>4. Before(q) \in SUBSET Before(sn) /\ Before(sn) \in SUBSET missing
            <4>1. D(q) <= D(sn) /\ D(q) \in Nat /\ D(sn) \in Nat
                BY <1>5, <1>11, <2>1, <3>1, <3>2, Zenon
            <4> QED BY <1>5, <3>3, <4>1, Zenon
        <3> HIDE DEF Before
        <3>5. IsFiniteSet(Before(sn)) /\ IsFiniteSet(Before(q))
            BY <1>13, <3>4, FS_Subset, Zenon
        <3>6. Cardinality(Before(q)) <= Cardinality(Before(sn))
            BY <3>4, <3>5, FS_Subset, Zenon
        <3>7. Cardinality(Before(q)) \in Nat /\ Cardinality(Before(sn)) \in Nat
            BY <3>5, FS_CardinalityType, Zenon
        <3>8. Cardinality(Before(sn)) < room /\ ~(Cardinality(Before(q)) < room)
            BY <1>11, <3>2, Zenon
        <3> QED BY <3>6, <3>7, <3>8
    <2>3. n \in r..k - 1
        BY <1>1, <2>2
    <2> QED BY <2>1, <2>3, Zenon
<1>15. ASSUME NEW sn \in nacks PROVE sn \in DOMAIN txed \cup DOMAIN retx
    <2>1. PICK n \in r..ms - 1 : sn = SnOf(n)
        BY <1>3, <1>11, Zenon
    <2>2. n \in r..s - 1
        BY <1>1
    <2>3. sn \notin DOMAIN buffer
        BY <1>0, <1>11, Zenon
    <2> QED BY <2>1, <2>2, <2>3, Zenon DEF Kept
<1>16. ASSUME NEW n \in r..k - 1 PROVE SnOf(n) \in nacks \/ SnOf(n) \in DOMAIN buffer
    <2>1. n \in r..ms - 1 /\ ~(d <= n - r)
        BY <1>1, <1>9
    <2>2. SnOf(n) \notin DOMAIN buffer => SnOf(n) \in missing /\ D(SnOf(n)) = n - r
        BY <1>4, <2>1, Zenon
    <2> QED BY <1>7, <2>1, <2>2, Zenon
<1>17. Report(p, DOMAIN txed \cup DOMAIN retx, DOMAIN buffer, r, r, k)
    BY <1>10, <1>12, <1>14, <1>15, <1>16, Zenon DEF Report
<1> QED BY <1>9, <1>17, Zenon

-----------------------------------------------------------------------------
(* The steps.                                                              *)

\* The bounds of the existential quantifiers of Inv.
LEMMA OrderedRange ==
    ASSUME NEW a, NEW r, NEW ms, NEW h, NEW s, Ordered(a, r, ms, h, s)
    PROVE  a \in 0..s /\ r \in 0..s /\ ms \in 0..s /\ h \in 0..s
BY DEF Ordered

\* VT(A) may move up to VR(R).
LEMMA OrderedFrom ==
    ASSUME NEW a, NEW r, NEW ms, NEW h, NEW s, Ordered(a, r, ms, h, s)
    PROVE  r \in a..r /\ \A b \in a..r : Ordered(b, r, ms, h, s)
BY Sizes DEF Ordered

\* The witnesses of Inv after a step.
LEMMA InvNext ==
    ASSUME NEW a, NEW r, NEW ms, NEW h, pdus' \in Nat, aborted' = "no", Windows(a, r, ms, h)'
    PROVE  Inv'
<1>1. Ordered(a, r, ms, h, Sent')
    BY Zenon DEF Windows
<1>2. a \in 0..Sent' /\ r \in 0..Sent' /\ ms \in 0..Sent' /\ h \in 0..Sent'
    BY <1>1, OrderedRange, Zenon
<1> QED BY <1>2, Zenon DEF Inv

\* The variables that the invariant is about.
txWindow == <<m_txedBuffer, m_retxBuffer, m_vtA, m_vtS, pdus>>
rxWindow == <<m_rxonBuffer, m_vrR, m_vrX, m_vrMs, m_vrH, m_reorderingTimer>>
reportVars == <<statusPdus, m_statusProhibitTimer>>

\* The number of PDUs before is a number.
LEMMA FirstSnType == FirstSn \in Nat
BY RlcAssumption

\* So is the number of PDUs sent.
LEMMA SentType == ASSUME pdus \in Nat PROVE Sent \in Nat
BY FirstSnType DEF Sent

\* A step that leaves the windows, the buffers and the PDUs alone.
LEMMA UnchangedStep ==
    ASSUME Inv, UNCHANGED txWindow, UNCHANGED rxWindow, UNCHANGED reportVars, UNCHANGED dataPdus,
           UNCHANGED aborted
    PROVE  Inv'
<1>1. PICK a, r, ms, h \in 0..Sent : Windows(a, r, ms, h)
    BY Zenon DEF Inv
<1>2. Windows(a, r, ms, h)'
    BY <1>1, Zenon DEF Windows, Counters, Sent, txWindow, rxWindow, reportVars
<1> QED BY <1>2, InvNext, Zenon DEF Inv, txWindow

\* At first the windows and the buffers are empty.
LEMMA InitInv == Init => Inv
<1> SUFFICES ASSUME Init PROVE Inv
    BY Zenon
<1>1. pdus \in Nat /\ aborted = "no" /\ Sent = FirstSn /\ FirstSn \in Nat
    BY RlcAssumption DEF Init, Sent
<1>2. PICK x : x = FirstSn
    BY Zenon
<1>3. Ordered(x, x, x, x, Sent)
    BY <1>1, <1>2, Sizes DEF Ordered
<1>4. Counters(x, x, x, x)
    BY <1>1, <1>2, Zenon DEF Init, Counters, SnOf
<1>5. /\ DOMAIN m_rxonBuffer = {} /\ DOMAIN m_txedBuffer = {} /\ DOMAIN m_retxBuffer = {}
      /\ statusPdus = {} /\ dataPdus = <<>> /\ m_reorderingTimer = FALSE
    BY Zenon DEF Init, EmptyMap
<1>6. Reception(m_rxonBuffer, x, x, x) /\ Reordered(m_reorderingTimer, m_vrX, m_rxonBuffer, x, x, x)
    BY <1>5, Zenon DEF Reception, Numbered, Reordered
<1>7. \A n \in x..Sent - 1 : FALSE
    BY <1>1, <1>2
<1>8. Kept(m_txedBuffer, m_retxBuffer, DOMAIN m_rxonBuffer, x, x, Sent)
    BY <1>5, <1>7, Zenon DEF Kept, Numbered
<1>9. UnderWay(dataPdus, x, Sent)
    <2>1. dataPdus \in Seq(Nat) /\ \A i \in 1..Len(dataPdus) : FALSE
        BY <1>5
    <2> QED BY <2>1, SequenceOfRange, Zenon DEF UnderWay
<1>10. Reports(statusPdus, m_statusProhibitTimer, DOMAIN m_txedBuffer \cup DOMAIN m_retxBuffer,
               DOMAIN m_rxonBuffer, x, x, x)
    BY <1>5, Zenon DEF Reports
<1>11. Windows(x, x, x, x) /\ x \in 0..Sent
    BY <1>3, <1>4, <1>6, <1>8, <1>9, <1>10, OrderedRange, Zenon DEF Windows
<1> QED BY <1>1, <1>11, Zenon DEF Inv

\* No STATUS PDU is under way when the prohibit time ends.
LEMMA ExpireStatusProhibitTimerStep == ASSUME Inv, ExpireStatusProhibitTimer PROVE Inv'
<1>1. PICK a, r, ms, h \in 0..Sent : Windows(a, r, ms, h)
    BY Zenon DEF Inv
<1>2. /\ UNCHANGED txWindow /\ UNCHANGED rxWindow /\ UNCHANGED <<dataPdus, statusPdus, aborted, pdus>>
      /\ statusPdus' = {}
    BY Zenon DEF ExpireStatusProhibitTimer, txVars, macVars, history, txWindow, rxWindow
<1>3. Reports(statusPdus', m_statusProhibitTimer', DOMAIN m_txedBuffer' \cup DOMAIN m_retxBuffer',
              DOMAIN m_rxonBuffer', a, r, ms)
    BY <1>2, Zenon DEF Reports
<1>4. Windows(a, r, ms, h)'
    BY <1>1, <1>2, <1>3, Zenon DEF Windows, Counters, Sent, txWindow, rxWindow
<1> QED BY <1>2, <1>4, InvNext, Zenon DEF Inv

\* A loss changes nothing but what is under way.
LEMMA LoseStep == ASSUME Inv, Lose PROVE Inv'
<1>1. PICK a, r, ms, h \in 0..Sent : Windows(a, r, ms, h)
    BY Zenon DEF Inv
<1>2. UNCHANGED txWindow /\ UNCHANGED rxWindow /\ UNCHANGED <<m_statusProhibitTimer, aborted, pdus>>
    BY Zenon DEF Lose, txVars, rxVars, history, txWindow, rxWindow
<1>3. CASE (\E i \in DOMAIN dataPdus : dataPdus' = Without(dataPdus, i)) /\ UNCHANGED statusPdus
    <2>1. PICK i \in DOMAIN dataPdus : dataPdus' = Without(dataPdus, i)
        BY <1>3, Zenon
    <2>2. UnderWay(dataPdus, h, Sent)
        BY <1>1, Zenon DEF Windows
    <2>3. i \in 1..Len(dataPdus)
        <3>1. dataPdus \in Seq(Range(dataPdus))
            BY <2>2, Zenon DEF UnderWay
        <3> QED BY <3>1
    <2>4. \A j \in 1..Len(dataPdus) : j # i => h <= dataPdus[j].pdu.n + WindowSize
        BY <2>2, Zenon DEF UnderWay
    <2>5. UnderWay(dataPdus', h, Sent)
        BY <2>1, <2>2, <2>3, <2>4, UnderWayWithout, Zenon
    <2>6. Windows(a, r, ms, h)'
        BY <1>1, <1>2, <1>3, <2>5, Zenon DEF Windows, Counters, Sent, txWindow, rxWindow
    <2> QED BY <1>2, <2>6, InvNext, Zenon DEF Inv
<1>4. CASE (\E s \in statusPdus : statusPdus' = statusPdus \ {s}) /\ UNCHANGED dataPdus
    <2>1. statusPdus' \subseteq statusPdus
        BY <1>4, Zenon
    <2>2. Reports(statusPdus', m_statusProhibitTimer', DOMAIN m_txedBuffer' \cup DOMAIN m_retxBuffer',
                  DOMAIN m_rxonBuffer', a, r, ms)
        BY <1>1, <1>2, <2>1, Zenon DEF Windows, Reports, txWindow, rxWindow
    <2>3. Windows(a, r, ms, h)'
        BY <1>1, <1>2, <1>4, <2>2, Zenon DEF Windows, Counters, Sent, txWindow, rxWindow
    <2> QED BY <1>2, <2>3, InvNext, Zenon DEF Inv
<1> QED BY <1>3, <1>4, Zenon DEF Lose

\* A retransmission: the PDU is found, and moves from one buffer to the other.
LEMMA RetransmitStep ==
    ASSUME Inv, NEW room, Retransmit(room), UNCHANGED m_vtA, UNCHANGED rxWindow, UNCHANGED reportVars
    PROVE  Inv'
<1>1. PICK a, r, ms, h \in 0..Sent : Windows(a, r, ms, h)
    BY Zenon DEF Inv
<1>2. PICK s \in Nat : s = Sent
    BY SentType, Zenon DEF Inv
<1>3. /\ Ordered(a, r, ms, h, s) /\ m_vtA = SnOf(a) /\ m_vtS = SnOf(s)
      /\ Kept(m_txedBuffer, m_retxBuffer, DOMAIN m_rxonBuffer, a, r, s) /\ UnderWay(dataPdus, h, s)
    BY <1>1, <1>2, Zenon DEF Windows, Counters
<1>4. a \in Nat /\ h \in Nat /\ a <= s /\ s - a < Modulus /\ s <= a + WindowSize /\ h <= s
    BY <1>3, OrderedFacts, Zenon
<1>5. Numbered(m_txedBuffer, a, s) /\ Numbered(m_retxBuffer, a, s)
    BY <1>3, Zenon DEF Kept
<1>6. \A sn \in DOMAIN m_retxBuffer : /\ sn \in Outstanding /\ Distance(m_vtA, sn) \in Nat
                                      /\ Plus(m_vtA, Distance(m_vtA, sn)) = sn
    BY <1>3, <1>4, <1>5, OutstandingFacts, Zenon DEF Outstanding
<1>7. DOMAIN m_retxBuffer \cap Outstanding = DOMAIN m_retxBuffer /\ DOMAIN m_retxBuffer # {}
    BY <1>6, Zenon DEF Retransmit
<1>8. PICK S : S = {Distance(m_vtA, sn) : sn \in DOMAIN m_retxBuffer}
    BY Zenon
<1>9. Min(S) \in S
    <2>1. S \subseteq Nat /\ S # {}
        BY <1>6, <1>7, <1>8, Zenon
    <2> QED BY <2>1, MinFacts, Zenon
<1>10. PICK k : k = Plus(m_vtA, Min(S))
    BY Zenon
<1>11. k \in DOMAIN m_retxBuffer
    BY <1>6, <1>8, <1>9, <1>10, Zenon
<1>12. /\ UNCHANGED <<aborted, m_vtS, pdus>>
       /\ \/ UNCHANGED <<m_txedBuffer, m_retxBuffer, dataPdus>>
          \/ /\ \E poll : dataPdus' = Append(dataPdus, [pdu |-> m_retxBuffer[k], poll |-> poll])
             /\ m_txedBuffer' = Put(m_txedBuffer, k, m_retxBuffer[k])
             /\ m_retxBuffer' = Restrict(m_retxBuffer, DOMAIN m_retxBuffer \ {k})
    BY <1>7, <1>8, <1>10, Zenon DEF Retransmit
<1>13. CASE UNCHANGED <<m_txedBuffer, m_retxBuffer, dataPdus>>
    BY <1>12, <1>13, UnchangedStep, Zenon DEF txWindow
<1>14. CASE /\ \E poll : dataPdus' = Append(dataPdus, [pdu |-> m_retxBuffer[k], poll |-> poll])
            /\ m_txedBuffer' = Put(m_txedBuffer, k, m_retxBuffer[k])
            /\ m_retxBuffer' = Restrict(m_retxBuffer, DOMAIN m_retxBuffer \ {k})
    <2>1. PICK poll : dataPdus' = Append(dataPdus, [pdu |-> m_retxBuffer[k], poll |-> poll])
        BY <1>14, Zenon
    <2>2. PICK e : e = [pdu |-> m_retxBuffer[k], poll |-> poll]
        BY Zenon
    <2>3. e.pdu.n \in a..s - 1
        BY <1>5, <1>11, <2>2, Zenon DEF Numbered
    <2>4. PICK n : n = e.pdu.n
        BY Zenon
    <2>5. n \in 0..s - 1 /\ h <= n + WindowSize /\ s <= n + WindowSize /\ s <= s
        <3>1. n \in a..s - 1
            BY <2>3, <2>4, Zenon
        <3> QED BY <1>4, <3>1, Sizes
    <2>6. UnderWay(dataPdus', h, s)
        BY <1>3, <2>1, <2>2, <2>4, <2>5, UnderWayAppend, Zenon
    <2>7. /\ DOMAIN m_txedBuffer' = DOMAIN m_txedBuffer \cup {k} /\ m_txedBuffer'[k] = m_retxBuffer[k]
          /\ \A j \in DOMAIN m_txedBuffer : j # k => m_txedBuffer'[j] = m_txedBuffer[j]
        BY <1>14, Zenon DEF Put
    <2>8. /\ DOMAIN m_retxBuffer' = DOMAIN m_retxBuffer \ {k}
          /\ \A j \in DOMAIN m_retxBuffer \ {k} : m_retxBuffer'[j] = m_retxBuffer[j]
        BY <1>14, Zenon DEF Restrict
    <2>9. Among(m_txedBuffer', m_txedBuffer, m_retxBuffer) /\ Among(m_retxBuffer', m_txedBuffer, m_retxBuffer)
        BY <1>11, <2>7, <2>8, Zenon DEF Among
    <2>10. /\ DOMAIN m_txedBuffer' \cup DOMAIN m_retxBuffer' = DOMAIN m_txedBuffer \cup DOMAIN m_retxBuffer
           /\ DOMAIN m_txedBuffer' \cap DOMAIN m_retxBuffer' = {}
        <3>1. DOMAIN m_txedBuffer \cap DOMAIN m_retxBuffer = {}
            BY <1>3, Zenon DEF Kept
        <3> QED BY <1>11, <2>7, <2>8, <3>1, Zenon
    <2>11. Kept(m_txedBuffer', m_retxBuffer', DOMAIN m_rxonBuffer, a, r, s)
        BY <1>3, <2>9, <2>10, KeptAfterMove, Zenon
    <2>12. Windows(a, r, ms, h)'
        BY <1>1, <1>2, <1>12, <2>6, <2>10, <2>11, Zenon
           DEF Windows, Counters, Sent, rxWindow, reportVars
    <2> QED BY <1>12, <2>12, InvNext, Zenon DEF Inv
<1> QED BY <1>12, <1>13, <1>14, Zenon

\* A new PDU, which is the last one of the window at most.
LEMMA TransmitNewStep ==
    ASSUME Inv, NEW room, TransmitNew(room), UNCHANGED m_vtA, UNCHANGED rxWindow, UNCHANGED reportVars
    PROVE  Inv'
<1>1. PICK a, r, ms, h \in 0..Sent : Windows(a, r, ms, h)
    BY Zenon DEF Inv
<1>2. PICK s \in Nat : s = Sent
    BY SentType, Zenon DEF Inv
<1>3. /\ Ordered(a, r, ms, h, s) /\ m_vtA = SnOf(a) /\ m_vtS = SnOf(s)
      /\ Kept(m_txedBuffer, m_retxBuffer, DOMAIN m_rxonBuffer, a, r, s) /\ UnderWay(dataPdus, h, s)
    BY <1>1, <1>2, Zenon DEF Windows, Counters
<1>4. /\ a \in Nat /\ r \in Nat /\ h \in Nat /\ a <= r /\ a <= s /\ h <= s /\ s <= a + WindowSize
    BY <1>3, OrderedFacts, Zenon
<1>5. /\ DOMAIN m_retxBuffer = {} /\ m_vtS # m_vtMs /\ m_vtS' = Plus(m_vtS, 1)
      /\ pdus' = pdus + 1 /\ UNCHANGED <<m_retxBuffer, aborted>>
      /\ \E p : /\ p.n = Sent /\ m_txedBuffer' = Put(m_txedBuffer, m_vtS, p)
                /\ dataPdus' = Append(dataPdus, [pdu |-> p, poll |-> TRUE])
    BY Zenon DEF TransmitNew, Sent
<1>6. PICK p : /\ p.n = s /\ m_txedBuffer' = Put(m_txedBuffer, m_vtS, p)
               /\ dataPdus' = Append(dataPdus, [pdu |-> p, poll |-> TRUE])
    BY <1>2, <1>5, Zenon
<1>7. Sent' = s + 1 /\ pdus' \in Nat /\ s + 1 \in Nat
    <2>1. pdus \in Nat /\ pdus' = pdus + 1 /\ s = FirstSn + pdus /\ FirstSn \in Nat
        BY <1>2, <1>5, FirstSnType, Zenon DEF Inv, Sent
    <2> QED BY <2>1 DEF Sent
<1>8. s # a + WindowSize
    <2>1. m_vtMs = SnOf(a + WindowSize)
        BY <1>3, <1>4, Sizes, PlusIs, Zenon DEF m_vtMs
    <2> QED BY <1>3, <1>5, <2>1, Zenon
<1>9. Ordered(a, r, ms, h, s + 1)
    BY <1>3, <1>8, Sizes DEF Ordered
<1>10. m_vtS' = SnOf(s + 1)
    <2>1. 1 \in Nat
        OBVIOUS
    <2> QED BY <1>3, <1>5, <2>1, PlusIs, Zenon
<1>11. UnderWay(dataPdus', h, s + 1)
    <2>1. PICK e : e = [pdu |-> p, poll |-> TRUE]
        BY Zenon
    <2>2. e.pdu.n = s
        BY <1>6, <2>1, Zenon
    <2>3. s \in 0..(s + 1) - 1 /\ s <= s + 1 /\ h <= s + WindowSize /\ s <= s + WindowSize
        BY <1>4, Sizes
    <2> QED BY <1>3, <1>6, <1>7, <2>1, <2>2, <2>3, UnderWayAppend, Zenon
<1>12. /\ DOMAIN m_txedBuffer' = DOMAIN m_txedBuffer \cup {SnOf(s)}
       /\ m_txedBuffer'[SnOf(s)] = p
       /\ \A j \in DOMAIN m_txedBuffer : j # SnOf(s) => m_txedBuffer'[j] = m_txedBuffer[j]
    BY <1>3, <1>6, Zenon DEF Put
<1>13. Kept(m_txedBuffer', m_retxBuffer', DOMAIN m_rxonBuffer, a, r, s + 1)
    <2>1. /\ \A n \in a..s - 1 : n \in a..(s + 1) - 1
          /\ s \in a..(s + 1) - 1
          /\ \A n \in r..(s + 1) - 1 : n \in r..s - 1 \/ n = s
        BY <1>4
    <2>2. ASSUME NEW sn \in DOMAIN m_txedBuffer'
          PROVE  m_txedBuffer'[sn].n \in a..(s + 1) - 1 /\ SnOf(m_txedBuffer'[sn].n) = sn
        <3>1. CASE sn = SnOf(s)
            BY <1>6, <1>12, <2>1, <3>1, Zenon
        <3>2. CASE sn # SnOf(s)
            <4>1. sn \in DOMAIN m_txedBuffer /\ m_txedBuffer'[sn] = m_txedBuffer[sn]
                BY <1>12, <3>2, Zenon
            <4> QED BY <1>3, <2>1, <4>1, Zenon DEF Kept, Numbered
        <3> QED BY <3>1, <3>2, Zenon
    <2>3. Numbered(m_txedBuffer', a, s + 1) /\ Numbered(m_retxBuffer', a, s + 1)
        BY <1>5, <2>2, Zenon DEF Numbered
    <2>4. ASSUME NEW n \in r..(s + 1) - 1
          PROVE  SnOf(n) \in DOMAIN m_rxonBuffer \cup DOMAIN m_txedBuffer' \cup DOMAIN m_retxBuffer'
        <3>1. n = s => SnOf(n) \in DOMAIN m_txedBuffer'
            BY <1>12, Zenon
        <3>2. n \in r..s - 1
                => SnOf(n) \in DOMAIN m_rxonBuffer \cup DOMAIN m_txedBuffer \cup DOMAIN m_retxBuffer
            BY <1>3, Zenon DEF Kept
        <3> QED BY <1>5, <1>12, <2>1, <3>1, <3>2, Zenon
    <2> QED BY <1>5, <2>3, <2>4, Zenon DEF Kept
<1>14. Reports(statusPdus, m_statusProhibitTimer, DOMAIN m_txedBuffer' \cup DOMAIN m_retxBuffer',
               DOMAIN m_rxonBuffer, a, r, ms)
    <2>1. DOMAIN m_txedBuffer \cup DOMAIN m_retxBuffer
             \subseteq DOMAIN m_txedBuffer' \cup DOMAIN m_retxBuffer'
        BY <1>5, <1>12, Zenon
    <2> QED BY <1>1, <2>1, ReportsOfMore, Zenon DEF Windows
<1>15. Windows(a, r, ms, h)'
    BY <1>1, <1>7, <1>9, <1>10, <1>11, <1>13, <1>14, Zenon
       DEF Windows, Counters, rxWindow, reportVars
<1> QED BY <1>5, <1>7, <1>15, InvNext, Zenon DEF Inv

\* The buffers with the PDUs sns moved to the retransmission buffer.
LEMMA MovedFacts ==
    ASSUME NEW sns, sns \subseteq DOMAIN m_txedBuffer, NEW moved, moved = MovedBuffers(sns)
    PROVE  /\ DOMAIN moved.txed = DOMAIN m_txedBuffer \ sns
           /\ DOMAIN moved.retx = DOMAIN m_retxBuffer \cup sns
           /\ Among(moved.txed, m_txedBuffer, m_retxBuffer)
           /\ Among(moved.retx, m_txedBuffer, m_retxBuffer)
<1>1. PICK f, g : /\ f = [sn \in DOMAIN m_txedBuffer \ sns |-> m_txedBuffer[sn]]
                  /\ g = [sn \in DOMAIN m_retxBuffer \cup sns |->
                            IF sn \in sns THEN m_txedBuffer[sn] ELSE m_retxBuffer[sn]]
    BY Zenon
<1>2. moved.txed = f /\ moved.retx = g
    BY <1>1, Zenon DEF MovedBuffers, Restrict
<1>3. /\ DOMAIN f = DOMAIN m_txedBuffer \ sns /\ DOMAIN g = DOMAIN m_retxBuffer \cup sns
      /\ \A sn \in DOMAIN m_txedBuffer \ sns : f[sn] = m_txedBuffer[sn]
      /\ \A sn \in DOMAIN m_retxBuffer \cup sns :
            g[sn] = IF sn \in sns THEN m_txedBuffer[sn] ELSE m_retxBuffer[sn]
    BY <1>1, Zenon
<1>4. Among(f, m_txedBuffer, m_retxBuffer) /\ Among(g, m_txedBuffer, m_retxBuffer)
    BY <1>3, Zenon DEF Among
<1> QED BY <1>2, <1>3, <1>4, Zenon

\* The poll timer moves PDUs from one buffer to the other.
LEMMA ExpirePollRetransmitTimerStep == ASSUME Inv, ExpirePollRetransmitTimer PROVE Inv'
<1>1. PICK a, r, ms, h \in 0..Sent : Windows(a, r, ms, h)
    BY Zenon DEF Inv
<1>2. Kept(m_txedBuffer, m_retxBuffer, DOMAIN m_rxonBuffer, a, r, Sent)
    BY <1>1, Zenon DEF Windows
<1>3. PICK sns : /\ sns \subseteq DOMAIN m_txedBuffer
                 /\ m_txedBuffer' = MovedBuffers(sns).txed /\ m_retxBuffer' = MovedBuffers(sns).retx
    BY Zenon DEF ExpirePollRetransmitTimer
<1>4. /\ UNCHANGED <<m_vtA, m_vtS, pdus, dataPdus, aborted>> /\ UNCHANGED rxWindow /\ UNCHANGED reportVars
    BY Zenon DEF ExpirePollRetransmitTimer, rxVars, macVars, history, rxWindow, reportVars
<1>5. /\ DOMAIN m_txedBuffer' = DOMAIN m_txedBuffer \ sns
      /\ DOMAIN m_retxBuffer' = DOMAIN m_retxBuffer \cup sns
      /\ Among(m_txedBuffer', m_txedBuffer, m_retxBuffer)
      /\ Among(m_retxBuffer', m_txedBuffer, m_retxBuffer)
    BY <1>3, MovedFacts, Zenon
<1>6. /\ DOMAIN m_txedBuffer' \cup DOMAIN m_retxBuffer' = DOMAIN m_txedBuffer \cup DOMAIN m_retxBuffer
      /\ DOMAIN m_txedBuffer' \cap DOMAIN m_retxBuffer' = {}
    <2>1. DOMAIN m_txedBuffer \cap DOMAIN m_retxBuffer = {}
        BY <1>2, Zenon DEF Kept
    <2> QED BY <1>3, <1>5, <2>1, Zenon
<1>7. Kept(m_txedBuffer', m_retxBuffer', DOMAIN m_rxonBuffer, a, r, Sent)
    BY <1>2, <1>5, <1>6, KeptAfterMove, Zenon
<1>8. Windows(a, r, ms, h)'
    BY <1>1, <1>4, <1>6, <1>7, Zenon DEF Windows, Counters, Sent, rxWindow, reportVars
<1> QED BY <1>4, <1>8, InvNext, Zenon DEF Inv

\* VT(A) moves to the first number that is reported missing, or to ACK_SN.
LEMMA ReceiveStatusStep == ASSUME Inv, NEW p \in statusPdus, ReceiveStatus(p) PROVE Inv'
<1>1. PICK a, r, ms, h \in 0..Sent : Windows(a, r, ms, h)
    BY Zenon DEF Inv
<1>2. PICK s : s = Sent
    BY Zenon
<1>3. /\ Ordered(a, r, ms, h, s) /\ m_vtA = SnOf(a) /\ m_vtS = SnOf(s)
      /\ Kept(m_txedBuffer, m_retxBuffer, DOMAIN m_rxonBuffer, a, r, s)
      /\ Reports(statusPdus, m_statusProhibitTimer, DOMAIN m_txedBuffer \cup DOMAIN m_retxBuffer,
                 DOMAIN m_rxonBuffer, a, r, ms)
    BY <1>1, <1>2, Zenon DEF Windows, Counters
<1>4. PICK b \in a..r : \E k \in b..ms :
           Report(p, DOMAIN m_txedBuffer \cup DOMAIN m_retxBuffer, DOMAIN m_rxonBuffer, r, b, k)
    BY <1>3, Zenon DEF Reports
<1>5. PICK k \in b..ms :
           Report(p, DOMAIN m_txedBuffer \cup DOMAIN m_retxBuffer, DOMAIN m_rxonBuffer, r, b, k)
    BY <1>4, Zenon
<1>6. Reported(p) = ReportedBy(p, a, s)
    BY <1>3, Zenon DEF Reported, Outstanding, ReportedBy
<1>7. PICK reported : reported = SnRange(a, k)
    BY Zenon
<1>8. /\ Reported(p) = reported /\ p.nacks \subseteq reported
      /\ VtAAfter(p, a, reported) = SnOf(b)
    <2>1. Ordered(a, r, ms, h, s)
        BY <1>3, Zenon
    <2>2. PICK kept, rx : Report(p, kept, rx, r, b, k)
        BY <1>5, Zenon
    <2>3. /\ ReportedBy(p, a, s) = SnRange(a, k)
          /\ p.nacks \subseteq SnRange(a, k)
          /\ VtAAfter(p, a, SnRange(a, k)) = SnOf(b)
        BY <2>1, <2>2, StatusFacts
    <2> QED BY <1>6, <1>7, <2>3, Zenon
<1>9. Reported(p) \cap p.nacks = p.nacks
    BY <1>8, Zenon
<1>10. PICK acked : acked = reported \ p.nacks
    BY Zenon
<1>11. PICK moved : moved = MovedBuffers(p.nacks \cap DOMAIN m_txedBuffer)
    BY Zenon
<1>12. /\ m_txedBuffer' = Restrict(moved.txed, DOMAIN moved.txed \ acked)
       /\ m_retxBuffer' = Restrict(moved.retx, DOMAIN moved.retx \ acked)
       /\ m_vtA' = SnOf(b) /\ statusPdus' = statusPdus \ {p}
       /\ aborted' = IF \/ ~(p.nacks \subseteq DOMAIN m_retxBuffer')
                        \/ acked \cap DOMAIN m_txedBuffer \cap DOMAIN m_retxBuffer # {}
                     THEN "retxBuffer" ELSE "no"
    BY <1>3, <1>8, <1>9, <1>10, <1>11, Zenon DEF ReceiveStatus, VtAAfter
<1>13. UNCHANGED <<m_vtS, dataPdus, pdus, m_statusProhibitTimer>> /\ UNCHANGED rxWindow
    BY Zenon DEF ReceiveStatus, rxVars, rxWindow
<1>14. /\ DOMAIN moved.txed = DOMAIN m_txedBuffer \ p.nacks
       /\ DOMAIN moved.retx = DOMAIN m_retxBuffer \cup (p.nacks \cap DOMAIN m_txedBuffer)
       /\ Among(moved.txed, m_txedBuffer, m_retxBuffer) /\ Among(moved.retx, m_txedBuffer, m_retxBuffer)
    <2>1. p.nacks \cap DOMAIN m_txedBuffer \subseteq DOMAIN m_txedBuffer
        BY Zenon
    <2>2. PICK sns : sns = p.nacks \cap DOMAIN m_txedBuffer
        BY Zenon
    <2>3. /\ DOMAIN moved.txed = DOMAIN m_txedBuffer \ sns
          /\ DOMAIN moved.retx = DOMAIN m_retxBuffer \cup sns
          /\ Among(moved.txed, m_txedBuffer, m_retxBuffer) /\ Among(moved.retx, m_txedBuffer, m_retxBuffer)
        BY <1>11, <2>1, <2>2, MovedFacts, Zenon
    <2> QED BY <2>2, <2>3, Zenon
<1>15. /\ DOMAIN m_txedBuffer' = (DOMAIN m_txedBuffer \ p.nacks) \ acked
       /\ DOMAIN m_retxBuffer' = (DOMAIN m_retxBuffer \cup (p.nacks \cap DOMAIN m_txedBuffer)) \ acked
       /\ Among(m_txedBuffer', m_txedBuffer, m_retxBuffer) /\ Among(m_retxBuffer', m_txedBuffer, m_retxBuffer)
    <2>1. /\ DOMAIN m_txedBuffer' = DOMAIN moved.txed \ acked
          /\ \A sn \in DOMAIN moved.txed \ acked : m_txedBuffer'[sn] = moved.txed[sn]
        BY <1>12, Zenon DEF Restrict
    <2>2. /\ DOMAIN m_retxBuffer' = DOMAIN moved.retx \ acked
          /\ \A sn \in DOMAIN moved.retx \ acked : m_retxBuffer'[sn] = moved.retx[sn]
        BY <1>12, Zenon DEF Restrict
    <2>3. Among(m_txedBuffer', m_txedBuffer, m_retxBuffer)
        BY <1>14, <2>1, Zenon DEF Among
    <2>4. Among(m_retxBuffer', m_txedBuffer, m_retxBuffer)
        BY <1>14, <2>2, Zenon DEF Among
    <2> QED BY <1>14, <2>1, <2>2, <2>3, <2>4, Zenon
<1>16. /\ Kept(m_txedBuffer', m_retxBuffer', DOMAIN m_rxonBuffer, b, r, s)
       /\ p.nacks \subseteq DOMAIN m_retxBuffer'
       /\ acked \cap DOMAIN m_txedBuffer \cap DOMAIN m_retxBuffer = {}
    <2>1. AfterStatus(m_txedBuffer', m_retxBuffer', m_txedBuffer, m_retxBuffer, p.nacks,
                      SnRange(a, k) \ p.nacks)
        BY <1>7, <1>10, <1>15, Zenon DEF AfterStatus
    <2>2. Ordered(a, r, ms, h, s) /\ Kept(m_txedBuffer, m_retxBuffer, DOMAIN m_rxonBuffer, a, r, s)
        BY <1>3, Zenon
    <2>3. /\ Kept(m_txedBuffer', m_retxBuffer', DOMAIN m_rxonBuffer, b, r, s)
          /\ p.nacks \subseteq DOMAIN m_retxBuffer'
          /\ (SnRange(a, k) \ p.nacks) \cap DOMAIN m_txedBuffer \cap DOMAIN m_retxBuffer = {}
        BY <1>5, <2>1, <2>2, KeptAfterStatus, Zenon
    <2> QED BY <1>7, <1>10, <2>3, Zenon
<1>17. aborted' = "no"
    BY <1>12, <1>16, Zenon
<1>18. Ordered(b, r, ms, h, s)
    BY <1>3, OrderedFrom, Zenon
<1>19. statusPdus' = {}
    BY <1>3, <1>12, Zenon DEF Reports
<1>20. Reports(statusPdus', m_statusProhibitTimer', DOMAIN m_txedBuffer' \cup DOMAIN m_retxBuffer',
               DOMAIN m_rxonBuffer', b, r, ms)
    BY <1>19, Zenon DEF Reports
<1>21. Windows(b, r, ms, h)'
    BY <1>1, <1>2, <1>12, <1>13, <1>16, <1>18, <1>20, Zenon DEF Windows, Counters, Sent, rxWindow
<1> QED BY <1>13, <1>17, <1>21, InvNext, Zenon DEF Inv

\* A STATUS PDU is the only one under way.
LEMMA TransmitStatusStep == ASSUME Inv, NEW room \in NackRooms, TransmitStatus(room) PROVE Inv'
<1>1. PICK a, r, ms, h \in 0..Sent : Windows(a, r, ms, h)
    BY Zenon DEF Inv
<1>2. PICK s : s = Sent
    BY Zenon
<1>3. /\ Ordered(a, r, ms, h, s) /\ m_vrR = SnOf(r) /\ m_vrMs = SnOf(ms)
      /\ Reception(m_rxonBuffer, r, ms, h)
      /\ Kept(m_txedBuffer, m_retxBuffer, DOMAIN m_rxonBuffer, a, r, s)
    BY <1>1, <1>2, Zenon DEF Windows, Counters
<1>4. statusPdus = {}
    BY <1>1, Zenon DEF TransmitStatus, Windows, Reports
<1>5. PICK p : p = [ackSn |-> AckSn(room), nacks |-> Nacks(room)]
    BY Zenon
<1>6. /\ statusPdus' = {p} /\ m_statusProhibitTimer' = TRUE
      /\ UNCHANGED txWindow /\ UNCHANGED rxWindow /\ UNCHANGED <<dataPdus, aborted>>
    BY <1>4, <1>5, Zenon DEF TransmitStatus, txVars, history, txWindow, rxWindow
<1>7. PICK missing, nacks : missing = Missing /\ nacks = Nacks(room)
    BY Zenon
<1>8. /\ missing = MissingIn(m_rxonBuffer, r, ms) /\ nacks = NacksOf(missing, r, room)
      /\ p.nacks = nacks /\ p.ackSn = AckSnOf(missing, nacks, r, ms)
    BY <1>3, <1>5, <1>7, Zenon DEF Missing, Nacks, AckSn, MissingIn, NacksOf, AckSnOf
<1>9. room \in Nat \ {0}
    BY RlcAssumption, Zenon
<1>10. PICK k \in r..ms :
           Report(p, DOMAIN m_txedBuffer \cup DOMAIN m_retxBuffer, DOMAIN m_rxonBuffer, r, r, k)
    BY <1>3, <1>8, <1>9, NewReport, Zenon
<1>11. r \in a..r
    BY <1>3, OrderedFrom, Zenon
<1>12. Reports(statusPdus', m_statusProhibitTimer', DOMAIN m_txedBuffer' \cup DOMAIN m_retxBuffer',
               DOMAIN m_rxonBuffer', a, r, ms)
    BY <1>6, <1>10, <1>11, Zenon DEF Reports, txWindow, rxWindow
<1>13. Windows(a, r, ms, h)'
    BY <1>1, <1>6, <1>12, Zenon DEF Windows, Counters, Sent, txWindow, rxWindow
<1> QED BY <1>6, <1>13, InvNext, Zenon DEF Inv, txWindow

\* VR(MS) moves to the first number missing from VR(X) on, and not back.
LEMMA ExpireReorderingTimerStep == ASSUME Inv, ExpireReorderingTimer PROVE Inv'
<1>1. PICK a, r, ms, h \in 0..Sent : Windows(a, r, ms, h)
    BY Zenon DEF Inv
<1>2. PICK s : s = Sent
    BY Zenon
<1>3. /\ Ordered(a, r, ms, h, s) /\ m_vrR = SnOf(r) /\ m_vrMs = SnOf(ms) /\ m_vrH = SnOf(h)
      /\ Reception(m_rxonBuffer, r, ms, h)
      /\ Reordered(m_reorderingTimer, m_vrX, m_rxonBuffer, r, ms, h)
    BY <1>1, <1>2, Zenon DEF Windows, Counters
<1>4. /\ r \in Nat /\ ms \in Nat /\ h \in Nat /\ s \in Nat /\ r <= ms /\ ms <= h /\ h <= s /\ ms <= s
      /\ r <= h /\ h - r < Modulus
    BY <1>3, OrderedFacts, Zenon
<1>5. PICK x \in r + 1..h : m_vrX = SnOf(x) /\ \A n \in x..ms - 1 : SnOf(n) \in DOMAIN m_rxonBuffer
    BY <1>3, Zenon DEF ExpireReorderingTimer, Reordered
<1>6. SnOf(h) \notin DOMAIN m_rxonBuffer
    <2>1. h \notin r..h - 1 /\ h - h <= Modulus
        BY <1>4, Sizes
    <2>2. Numbered(m_rxonBuffer, r, h)
        BY <1>3, Zenon DEF Reception
    <2> QED BY <1>4, <2>1, <2>2, NotNumbered, Zenon
<1>7. x \in Nat /\ x <= h /\ h - x < Modulus /\ r <= x /\ r <= r
    BY <1>4, Sizes
<1>8. PICK y \in Nat : /\ x <= y /\ y <= h /\ FirstMissing(m_rxonBuffer, SnOf(x)) = SnOf(y)
                       /\ SnOf(y) \notin DOMAIN m_rxonBuffer
    BY <1>4, <1>6, <1>7, FirstMissingIs, Zenon
<1>9. ms <= y /\ y - r < Modulus /\ r <= y
    <2>1. y \notin x..ms - 1
        BY <1>5, <1>8, Zenon
    <2>2. x <= y /\ y <= h
        BY <1>8, Zenon
    <2> QED BY <1>4, <1>7, <2>1, <2>2, Sizes
<1>10. Ordered(a, r, y, h, s)
    <2>1. r <= y /\ y <= h
        BY <1>8, <1>9, Zenon
    <2> QED BY <1>3, <2>1 DEF Ordered
<1>11. /\ m_vrMs' = SnOf(y)
       /\ m_reorderingTimer' = (Distance(SnOf(r), SnOf(h)) > Distance(SnOf(r), SnOf(y)))
       /\ m_vrX' = IF m_reorderingTimer' THEN SnOf(h) ELSE m_vrX
       /\ UNCHANGED <<m_rxonBuffer, m_vrR, m_vrH, m_statusProhibitTimer>>
       /\ UNCHANGED txWindow /\ UNCHANGED <<dataPdus, statusPdus, aborted>>
    BY <1>3, <1>5, <1>8, Zenon DEF ExpireReorderingTimer, txVars, macVars, history, txWindow
<1>12. Reordered(m_reorderingTimer', m_vrX', m_rxonBuffer, r, y, h)
    <2> SUFFICES ASSUME m_reorderingTimer'
                 PROVE  \E z \in r + 1..h : /\ SnOf(h) = SnOf(z)
                                            /\ \A n \in z..y - 1 : SnOf(n) \in DOMAIN m_rxonBuffer
        BY <1>11, Zenon DEF Reordered
    <2>1. h - r > y - r
        BY <1>4, <1>8, <1>9, <1>11, DistanceIs, Zenon
    <2>2. h \in r + 1..h /\ \A n \in h..y - 1 : FALSE
        BY <1>4, <2>1
    <2> QED BY <2>2, Zenon
<1>13. Reception(m_rxonBuffer, r, y, h)
    BY <1>3, <1>8, Zenon DEF Reception
<1>14. Reports(statusPdus, m_statusProhibitTimer, DOMAIN m_txedBuffer \cup DOMAIN m_retxBuffer,
               DOMAIN m_rxonBuffer, a, r, y)
    <2>1. a \in Nat
        BY <1>3, OrderedFacts, Zenon
    <2>2. \A m \in r..s - 1 : SnOf(m) \in DOMAIN m_rxonBuffer => SnOf(m) \in DOMAIN m_rxonBuffer
        BY Zenon
    <2>3. Reports(statusPdus, m_statusProhibitTimer, DOMAIN m_txedBuffer \cup DOMAIN m_retxBuffer,
                  DOMAIN m_rxonBuffer, a, r, ms)
        BY <1>1, Zenon DEF Windows
    <2> QED BY <1>4, <1>7, <1>9, <2>1, <2>2, <2>3, ReportsAfterDelivery, Zenon
<1>15. Windows(a, r, y, h)'
    BY <1>1, <1>2, <1>10, <1>11, <1>12, <1>13, <1>14, Zenon DEF Windows, Counters, Sent, txWindow
<1> QED BY <1>11, <1>15, InvNext, Zenon DEF Inv, txWindow

\* A PDU inside of the receiving window: what becomes of the state variables.
Receiver(a, r, ms, h, s) ==
    /\ Ordered(a, r, ms, h, s)
    /\ m_vrR = SnOf(r) /\ m_vrMs = SnOf(ms) /\ m_vrH = SnOf(h)
    /\ Reception(m_rxonBuffer, r, ms, h)
    /\ Reordered(m_reorderingTimer, m_vrX, m_rxonBuffer, r, ms, h)

\* The order stays, and what the receiving side had it has or has delivered.
LEMMA PlaceStep ==
    ASSUME NEW a, NEW r, NEW ms, NEW h, NEW s, Receiver(a, r, ms, h, s),
           NEW pdu, pdu.n \in Nat, pdu.n < s, h <= pdu.n + WindowSize,
           Place(pdu), IsInsideReceivingWindow(m_vrR, SnOf(pdu.n))
    PROVE  \E r2, ms2 \in Nat :
              /\ r <= r2 /\ ms <= ms2 /\ Receiver(a, r2, ms2, NextH(pdu.n, h), s)'
              /\ \A m \in r2..s - 1 : SnOf(m) \in DOMAIN m_rxonBuffer => SnOf(m) \in DOMAIN m_rxonBuffer'
<1>0. PICK n \in Nat : n = pdu.n
    BY Zenon
<1>a. /\ Ordered(a, r, ms, h, s) /\ m_vrR = SnOf(r) /\ m_vrMs = SnOf(ms) /\ m_vrH = SnOf(h)
      /\ Reception(m_rxonBuffer, r, ms, h)
      /\ Reordered(m_reorderingTimer, m_vrX, m_rxonBuffer, r, ms, h)
    BY Zenon DEF Receiver
<1>b. IsInsideReceivingWindow(SnOf(r), SnOf(n)) /\ n < s /\ h <= n + WindowSize
    BY <1>0, <1>a, Zenon
<1>1. r <= n /\ n - r < WindowSize /\ Distance(SnOf(r), SnOf(n)) = n - r
    BY <1>a, <1>b, InsideWindow, Zenon
<1>2. /\ a \in Nat /\ r \in Nat /\ ms \in Nat /\ h \in Nat /\ s \in Nat /\ a <= r /\ r <= ms /\ ms <= h
      /\ h - r < Modulus /\ r <= h
    BY <1>a, OrderedFacts, Zenon
<1>3. PICK h2 : h2 = NextH(n, h)
    BY Zenon
<1>4. h2 \in Nat
    BY <1>2, <1>3 DEF NextH
<1>5. PICK B : B = Placed(m_rxonBuffer, pdu)
    BY Zenon
<1>6. PICK ms2, r2 \in Nat :
         Ordered(a, r2, ms2, h2, s) /\ Advanced(B, m_rxonBuffer, n, r, ms, h, r2, ms2, h2)
    BY <1>0, <1>1, <1>3, <1>5, <1>a, <1>b, Advance, Zenon
<1>7. /\ DOMAIN B = DOMAIN m_rxonBuffer \cup {SnOf(n)} /\ Numbered(B, r, h2)
      /\ h <= h2 /\ ms <= ms2 /\ r <= r2
      /\ FirstMissing(B, SnOf(ms)) = SnOf(ms2) /\ SnOf(ms2) \notin DOMAIN B
      /\ \A m \in ms..ms2 - 1 : SnOf(m) \in DOMAIN B
      /\ SnOf(r2) \notin DOMAIN B /\ \A m \in r..r2 - 1 : SnOf(m) \in DOMAIN B
      /\ IF n = r THEN FirstMissing(B, SnOf(r)) = SnOf(r2) ELSE r2 = r
    BY <1>6, Zenon DEF Advanced
<1>8. PICK run : run = IF SnOf(n) = m_vrR THEN InSequence(B) ELSE <<>>
    BY Zenon
<1>9. B = IF SnOf(n) \in DOMAIN m_rxonBuffer THEN m_rxonBuffer ELSE Put(m_rxonBuffer, SnOf(n), pdu)
    BY <1>0, <1>5, Zenon DEF Placed
<1>10. /\ m_vrH' = IF Distance(m_vrR, SnOf(n)) >= Distance(m_vrR, m_vrH) THEN Plus(SnOf(n), 1) ELSE m_vrH
       /\ m_vrMs' = FirstMissing(B, m_vrMs)
       /\ m_vrR' = Plus(m_vrR, Len(run))
       /\ m_rxonBuffer' = Restrict(B, DOMAIN B \ {run[i].n % Modulus : i \in DOMAIN run})
       /\ Reordering(m_vrR', m_vrH')
    <2>1. pdu.n % Modulus = SnOf(n)
        BY <1>0, Zenon DEF SnOf
    <2> QED BY <1>0, <1>8, <1>9, <2>1, Zenon DEF Place
<1>11. m_vrH' = SnOf(h2)
    <2>1. Distance(SnOf(r), SnOf(h)) = h - r
        BY <1>2, DistanceIs, Zenon
    <2>2. n - r >= h - r <=> n >= h
        BY <1>2
    <2>3. 1 \in Nat
        OBVIOUS
    <2>4. Plus(SnOf(n), 1) = SnOf(n + 1)
        BY <2>3, PlusIs, Zenon
    <2> QED BY <1>a, <1>1, <1>3, <1>10, <2>1, <2>2, <2>4, Zenon DEF NextH
<1>12. r2 \in Nat /\ r <= r2 /\ r2 - r < Modulus /\ r2 - r \in Nat /\ r + (r2 - r) = r2 /\ ms2 <= s
    <2>1. r <= r2 /\ r2 <= s /\ s <= r + WindowSize /\ ms2 <= s
        <3>1. r2 <= s /\ ms2 <= s
            BY <1>6, OrderedFacts, Zenon
        <3>2. s <= r + WindowSize
            BY <1>2, Sizes, <1>a DEF Ordered
        <3> QED BY <1>7, <3>1, <3>2, Zenon
    <2> QED BY <1>2, <2>1, Sizes
<1>13. Len(run) = r2 - r /\ SnsOf(run) = SnRange(r, r2)
    <2>2. CASE n = r
        <3>1. run = [i \in 1..Distance(SnOf(r), SnOf(r2)) |-> B[Plus(SnOf(r), i - 1)]]
            BY <1>a, <1>7, <1>8, <2>2, Zenon DEF InSequence
        <3>2. Distance(SnOf(r), SnOf(r2)) = r2 - r
            BY <1>2, <1>12, DistanceIs, Zenon
        <3>3. PICK d \in Nat : d = r2 - r
            BY <1>12, Zenon
        <3>4. PICK sn : sn = SnOf(r)
            BY Zenon
        <3>5. run = [i \in 1..d |-> B[Plus(sn, i - 1)]]
            BY <3>1, <3>2, <3>3, <3>4, Zenon
        <3>6. /\ Len(run) = d /\ DOMAIN run = 1..d
              /\ \A i \in 1..d : run[i] = B[Plus(sn, i - 1)]
            BY <3>5, SequenceFacts
        <3>7. RunOf(run, B, r, r2)
            BY <3>3, <3>4, <3>6, Zenon DEF RunOf
        <3>8. r \in Nat /\ r2 \in Nat /\ r <= r2 /\ Numbered(B, r, h2) /\ HasAll(B, r, r2)
            BY <1>2, <1>6, <1>7, Zenon DEF HasAll
        <3>9. SnsOf(run) = SnRange(r, r2)
            BY <3>7, <3>8, RunFacts
        <3> QED BY <3>3, <3>6, <3>9, Zenon
    <2>3. CASE n # r
        <3>1. n - r < Modulus /\ r - n < Modulus
            BY <1>1, <1>2, Sizes
        <3>2. SnOf(n) # m_vrR
            BY <1>a, <1>2, <2>3, <3>1, SameNumber, Zenon
        <3>3. run = <<>> /\ r2 = r
            BY <1>7, <1>8, <2>3, <3>2, Zenon
        <3>4. Len(run) = 0 /\ \A i \in DOMAIN run : FALSE
            BY <3>3
        <3>5. r2 - r = 0 /\ \A m \in r..r2 - 1 : FALSE
            BY <1>2, <3>3
        <3> QED BY <3>4, <3>5, Zenon DEF SnsOf, SnRange
    <2> QED BY <2>2, <2>3, Zenon
<1>14. m_vrR' = SnOf(r2)
    <2>1. Plus(SnOf(r), r2 - r) = SnOf(r + (r2 - r))
        BY <1>2, <1>12, PlusIs, Zenon
    <2> QED BY <1>a, <1>10, <1>12, <1>13, <2>1, Zenon
<1>15. Delivered(m_rxonBuffer', B, r, r2)
    <2>1. SnsOf(run) = {run[i].n % Modulus : i \in DOMAIN run}
        BY Zenon DEF SnsOf, SnOf
    <2> QED BY <1>10, <1>13, <2>1, Zenon DEF Delivered
<1>16. Reception(m_rxonBuffer', r2, ms2, h2) /\ Retains(m_rxonBuffer', B, r2, s)
    BY <1>2, <1>6, <1>7, <1>15, Delivery, Zenon
<1>17. RetainsAll(m_rxonBuffer', m_rxonBuffer, ms, r2, ms2)
    <2>1. \A m \in r2..ms2 - 1 : m \in r2..s - 1 /\ (m >= ms => m \in ms..ms2 - 1)
        BY <1>2, <1>12
    <2> QED BY <1>7, <1>16, <2>1, Zenon DEF RetainsAll, Retains
<1>18. Rearmed(m_reorderingTimer', m_vrX', m_reorderingTimer, m_vrX, r2, h2)
    BY <1>10, <1>11, <1>14, Zenon DEF Reordering, Runs, Starts, Rearmed
<1>19. Reordered(m_reorderingTimer', m_vrX', m_rxonBuffer', r2, ms2, h2)
    BY <1>a, <1>6, <1>7, <1>17, <1>18, ReorderingFacts, Zenon
<1>20. Receiver(a, r2, ms2, h2, s)'
    BY <1>a, <1>6, <1>7, <1>10, <1>11, <1>14, <1>16, <1>19, Zenon DEF Receiver
<1>21. \A m \in r2..s - 1 : SnOf(m) \in DOMAIN m_rxonBuffer => SnOf(m) \in DOMAIN m_rxonBuffer'
    BY <1>7, <1>16, Zenon DEF Retains
<1> QED BY <1>0, <1>3, <1>6, <1>7, <1>20, <1>21, Zenon

\* When the i-th PDU arrives, no other one under way is a window behind it.
LEMMA UnderWayAfterArrival ==
    ASSUME NEW h \in Nat, NEW s \in Nat, UnderWay(dataPdus, h, s), NEW i \in 1..Len(dataPdus),
           ReceiveData(i)
    PROVE  UnderWay(dataPdus', NextH(dataPdus[i].pdu.n, h), s)
<1>1. PICK n : n = dataPdus[i].pdu.n
    BY Zenon
<1>2. n \in 0..s - 1
    BY <1>1, Zenon DEF UnderWay
<1>3. PICK l \in Nat : l = Len(dataPdus)
    BY SequenceOfRange, Zenon DEF UnderWay
<1>4. ASSUME NEW j \in 1..Len(dataPdus), j # i
      PROVE  NextH(n, h) <= dataPdus[j].pdu.n + WindowSize
    <2>1. PICK m \in 0..s - 1 : m = dataPdus[j].pdu.n /\ h <= m + WindowSize
        BY <1>4, Zenon DEF UnderWay
    <2>2. j \in 1..i - 1 \/ i < j
        BY <1>3, <1>4
    <2>3. n < m + WindowSize
        BY <1>1, <2>1, <2>2, Zenon DEF UnderWay, ReceiveData
    <2>4. n + 1 <= m + WindowSize
        BY <1>2, <2>3, Sizes
    <2> QED BY <2>1, <2>4, Zenon DEF NextH
<1>5. dataPdus' = Without(dataPdus, i)
    BY Zenon DEF ReceiveData
<1> QED BY <1>1, <1>4, <1>5, UnderWayWithout, Zenon

\* A data PDU arrives, inside of the receiving window or not.
LEMMA ReceiveDataStep == ASSUME Inv, NEW i \in 1..MaxOvertaken + 1, ReceiveData(i) PROVE Inv'
<1>1. PICK a, r, ms, h \in 0..Sent : Windows(a, r, ms, h)
    BY Zenon DEF Inv
<1>2. PICK s : s = Sent
    BY Zenon
<1>3. /\ Ordered(a, r, ms, h, s) /\ UnderWay(dataPdus, h, s) /\ Receiver(a, r, ms, h, s)
    BY <1>1, <1>2, Zenon DEF Windows, Counters, Receiver
<1>4. /\ a \in Nat /\ r \in Nat /\ ms \in Nat /\ h \in Nat /\ s \in Nat /\ ms <= s
    BY <1>3, OrderedFacts, Zenon
<1>5. i \in 1..Len(dataPdus)
    <2>1. dataPdus \in Seq(Range(dataPdus)) /\ i <= Len(dataPdus)
        BY <1>3, Zenon DEF UnderWay, ReceiveData
    <2>2. i \in Nat /\ 1 <= i
        BY RlcAssumption
    <2> QED BY <2>1, <2>2
<1>6. PICK pdu : pdu = dataPdus[i].pdu
    BY Zenon
<1>7. Place(pdu) /\ pdu.n \in 0..s - 1 /\ h <= pdu.n + WindowSize
    BY <1>3, <1>5, <1>6, Zenon DEF UnderWay, ReceiveData
<1>8. UNCHANGED txWindow /\ UNCHANGED reportVars /\ UNCHANGED aborted
    BY Zenon DEF ReceiveData, txVars, history, txWindow, reportVars
<1>9. CASE IsInsideReceivingWindow(m_vrR, SnOf(pdu.n))
    <2>1. pdu.n \in Nat /\ pdu.n < s
        <3>1. PICK n \in 0..s - 1 : n = pdu.n
            BY <1>7, Zenon
        <3>2. n \in Nat /\ n < s
            BY <1>4
        <3> QED BY <3>1, <3>2, Zenon
    <2>2. PICK r2, ms2 \in Nat :
             /\ r <= r2 /\ ms <= ms2 /\ Receiver(a, r2, ms2, NextH(pdu.n, h), s)'
             /\ \A m \in r2..s - 1 : SnOf(m) \in DOMAIN m_rxonBuffer => SnOf(m) \in DOMAIN m_rxonBuffer'
        BY <1>3, <1>7, <1>9, <2>1, PlaceStep, Zenon
    <2>3. UnderWay(dataPdus', NextH(pdu.n, h), s)
        BY <1>3, <1>4, <1>5, <1>6, UnderWayAfterArrival, Zenon
    <2>4. Kept(m_txedBuffer, m_retxBuffer, DOMAIN m_rxonBuffer', a, r2, s)
        <3>1. Kept(m_txedBuffer, m_retxBuffer, DOMAIN m_rxonBuffer, a, r, s)
            BY <1>1, <1>2, Zenon DEF Windows
        <3> QED BY <1>4, <2>2, <3>1, KeptAfterDelivery, Zenon
    <2>5. Reports(statusPdus, m_statusProhibitTimer, DOMAIN m_txedBuffer \cup DOMAIN m_retxBuffer,
                  DOMAIN m_rxonBuffer', a, r2, ms2)
        <3>1. Reports(statusPdus, m_statusProhibitTimer, DOMAIN m_txedBuffer \cup DOMAIN m_retxBuffer,
                      DOMAIN m_rxonBuffer, a, r, ms)
            BY <1>1, Zenon DEF Windows
        <3> QED BY <1>4, <2>2, <3>1, ReportsAfterDelivery, Zenon
    <2>6. PICK h2 : h2 = NextH(pdu.n, h)
        BY Zenon
    <2>7. Windows(a, r2, ms2, h2)'
        BY <1>1, <1>2, <1>8, <2>2, <2>3, <2>4, <2>5, <2>6, Zenon
        DEF Windows, Counters, Receiver, Sent, txWindow, reportVars
    <2> QED BY <1>8, <2>7, InvNext, Zenon DEF Inv, txWindow
<1>10. CASE ~IsInsideReceivingWindow(m_vrR, SnOf(pdu.n))
    <2>1. UNCHANGED rxWindow
        BY <1>7, <1>10, Zenon DEF Place, SnOf, rxWindow
    <2>2. UnderWay(dataPdus', h, s)
        <3>1. dataPdus' = Without(dataPdus, i)
            BY Zenon DEF ReceiveData
        <3>2. \A j \in 1..Len(dataPdus) : j # i => h <= dataPdus[j].pdu.n + WindowSize
            BY <1>3, Zenon DEF UnderWay
        <3> QED BY <1>3, <1>5, <3>1, <3>2, UnderWayWithout, Zenon
    <2>3. Windows(a, r, ms, h)'
        BY <1>1, <1>2, <1>8, <2>1, <2>2, Zenon
        DEF Windows, Counters, Sent, txWindow, rxWindow, reportVars
    <2> QED BY <1>8, <2>3, InvNext, Zenon DEF Inv, txWindow
<1> QED BY <1>9, <1>10, Zenon

\* No assertion fails, and the windows stay in order, in every step.
LEMMA NextInv == ASSUME Inv, [Next]_vars PROVE Inv'
<1>1. ASSUME NEW size \in SduSizes, TransmitPdcpPdu(size) PROVE Inv'
    BY <1>1, UnchangedStep, Zenon
    DEF TransmitPdcpPdu, rxVars, macVars, txWindow, rxWindow, reportVars
<1>2. ASSUME NEW room \in Rooms, NotifyTxOpportunity(room) PROVE Inv'
    <2>1. UNCHANGED m_vtA /\ UNCHANGED rxWindow /\ UNCHANGED reportVars
        BY <1>2, Zenon DEF NotifyTxOpportunity, rxVars, rxWindow, reportVars
    <2>2. CASE Retransmit(room)
        BY <2>1, <2>2, RetransmitStep, Zenon
    <2>3. CASE TransmitNew(room)
        BY <2>1, <2>3, TransmitNewStep, Zenon
    <2>4. CASE NoTransmission
        BY <2>1, <2>4, UnchangedStep, Zenon DEF NoTransmission, txWindow
    <2> QED BY <1>2, <2>2, <2>3, <2>4, Zenon DEF NotifyTxOpportunity
<1>3. CASE ExpirePollRetransmitTimer
    BY <1>3, ExpirePollRetransmitTimerStep, Zenon
<1>4. CASE ExpireBsrTimer
    BY <1>4, UnchangedStep, Zenon
    DEF ExpireBsrTimer, rxVars, macVars, history, txWindow, rxWindow, reportVars
<1>5. ASSUME NEW p \in statusPdus, ReceiveStatus(p) PROVE Inv'
    BY <1>5, ReceiveStatusStep, Zenon
<1>6. ASSUME NEW i \in 1..MaxOvertaken + 1, ReceiveData(i) PROVE Inv'
    BY <1>6, ReceiveDataStep, Zenon
<1>7. CASE ExpireReorderingTimer
    BY <1>7, ExpireReorderingTimerStep, Zenon
<1>8. CASE ExpireStatusProhibitTimer
    BY <1>8, ExpireStatusProhibitTimerStep, Zenon
<1>9. ASSUME NEW room \in NackRooms, TransmitStatus(room) PROVE Inv'
    BY <1>9, TransmitStatusStep, Zenon
<1>10. CASE Lose
    BY <1>10, LoseStep, Zenon
<1>11. CASE UNCHANGED vars
    BY <1>11, UnchangedStep, Zenon
    DEF vars, txVars, rxVars, macVars, history, txWindow, rxWindow, reportVars
<1> QED BY <1>1, <1>2, <1>3, <1>4, <1>5, <1>6, <1>7, <1>8, <1>9, <1>10, <1>11, Zenon DEF Next

\* Inv is an invariant.
LEMMA Invariance == Spec => []Inv
BY InitInv, NextInv, PTL DEF Spec

-----------------------------------------------------------------------------
(* Theorems                                                                *)

\* Whatever is lost, repeated or overtaken, the state variables of both sides
\* stay in the circular order that DoReceivePdu() and DoNotifyTxOpportunity()
\* rely on when they compare sequence numbers: VT(A) <= VR(R) <= VR(MS) <=
\* VR(H) <= VT(S) <= VT(MS).
THEOREM WindowsAlwaysFit == Spec => []WindowsFit
<1>1. ASSUME Inv PROVE WindowsFit
    <2>1. PICK a, r, ms, h \in 0..Sent : Windows(a, r, ms, h)
        BY <1>1, Zenon DEF Inv
    <2>2. PICK s : s = Sent
        BY Zenon
    <2>3. /\ Ordered(a, r, ms, h, s) /\ m_vtA = SnOf(a) /\ m_vtS = SnOf(s)
          /\ m_vrR = SnOf(r) /\ m_vrMs = SnOf(ms) /\ m_vrH = SnOf(h)
        BY <2>1, <2>2, Zenon DEF Windows, Counters
    <2>4. /\ a \in Nat /\ r \in Nat /\ ms \in Nat /\ h \in Nat /\ s \in Nat
          /\ a <= r /\ a <= ms /\ a <= h /\ a <= s
          /\ r - a < Modulus /\ ms - a < Modulus /\ h - a < Modulus /\ s - a < Modulus
          /\ r - a <= ms - a /\ ms - a <= h - a /\ h - a <= s - a /\ s - a <= WindowSize
        BY <2>3, Sizes DEF Ordered
    <2>5. /\ Distance(SnOf(a), SnOf(r)) = r - a /\ Distance(SnOf(a), SnOf(ms)) = ms - a
          /\ Distance(SnOf(a), SnOf(h)) = h - a /\ Distance(SnOf(a), SnOf(s)) = s - a
        BY <2>4, DistanceIs, Zenon
    <2> QED BY <2>3, <2>4, <2>5, Zenon DEF WindowsFit
<1> QED BY <1>1, Invariance, PTL

\* The transmitting side lets go of a PDU, in DoReceivePdu() of a STATUS PDU,
\* only when the peer has it, and has it in one buffer otherwise.
THEOREM NothingIsForgotten == Spec => []NothingForgotten
<1>1. ASSUME Inv PROVE NothingForgotten
    <2>1. PICK a, r, ms, h \in 0..Sent : Windows(a, r, ms, h)
        BY <1>1, Zenon DEF Inv
    <2>2. PICK s : s = Sent
        BY Zenon
    <2>3. /\ Ordered(a, r, ms, h, s) /\ m_vtS = SnOf(s) /\ m_vrR = SnOf(r)
          /\ Kept(m_txedBuffer, m_retxBuffer, DOMAIN m_rxonBuffer, a, r, s)
        BY <2>1, <2>2, Zenon DEF Windows, Counters
    <2>4. r \in Nat /\ s \in Nat /\ r <= s /\ s - r < Modulus
        BY <2>3, Sizes DEF Ordered
    <2>5. Distance(SnOf(r), SnOf(s)) = s - r
        BY <2>4, DistanceIs, Zenon
    <2>6. ASSUME NEW sn \in Sn \ DOMAIN m_rxonBuffer,
                 Distance(m_vrR, sn) < Distance(m_vrR, m_vtS)
          PROVE  sn \in DOMAIN m_txedBuffer \cup DOMAIN m_retxBuffer
        <3>1. Distance(SnOf(r), sn) < s - r
            BY <2>3, <2>5, <2>6, Zenon
        <3>2. PICK n \in Nat : r <= n /\ sn = SnOf(n) /\ Distance(SnOf(r), sn) = n - r
            BY <2>4, Unwrap, Zenon
        <3>3. r <= n /\ n - r < s - r
            BY <3>1, <3>2, Zenon
        <3>4. n \in r..s - 1
            BY <2>4, <3>3
        <3> QED BY <2>3, <3>2, <3>4, Zenon DEF Kept
    <2> QED BY <2>3, <2>6, Zenon DEF NothingForgotten, Kept
<1> QED BY <1>1, Invariance, PTL

\* No NS_ASSERT of DoReceivePdu() and DoNotifyTxOpportunity() fails: a PDU to
\* retransmit is found, and what a STATUS PDU reports missing is still there.
THEOREM AssertionsAlwaysHold == Spec => []AssertionsHold
<1>1. Inv => AssertionsHold
    BY Zenon DEF Inv, AssertionsHold
<1> QED BY <1>1, Invariance, PTL
=============================================================================
