-------------------------- MODULE PahoClientProofs --------------------------
(***************************************************************************)
(* Theorems about PahoClient and MqttWire, for any messages, identifiers,  *)
(* connect options, ways to split a packet and bounds.                     *)
(* First what the client reads: every message the broker sends is a packet *)
(* that is read back as it was made, and packets, or the parts of one, are *)
(* framed alike however their bytes arrive (_deframeMessages).  Recursive  *)
(* functions are read through tables of their values: a function that      *)
(* looks only ahead (or only back) has a table, since the naturals are     *)
(* well founded.                                                           *)
(* Then what arrives: the page is handed nothing but what was published, a *)
(* message of quality 2 once at most, and a client that was told to        *)
(* disconnect stays away.  They follow from one inductive invariant, IInv, *)
(* which is stated in the section of that name; before it come the         *)
(* client's operations, what each keeps of the record, and after it one    *)
(* lemma per action.                                                       *)
(***************************************************************************)
EXTENDS PahoClient, SequenceTheorems, FiniteSetTheorems, WellFoundedInduction, TLAPS

LEMMA LeastOf ==
  ASSUME NEW R, IsWellFoundedOn(R, Nat), \A x, y \in Nat : y < x => <<y, x>> \in R,
         NEW T, \A t \in T : t \in Nat, T # {}
  PROVE  \E m \in T : \A n \in T : m <= n
<1>1. T \subseteq Nat
  BY Zenon
<1>2. PICK m \in T : \A y \in T : ~(<<y, m>> \in R)
  BY <1>1, WFMin, Zenon
<1>3. ASSUME NEW n \in T PROVE m <= n
  <2>1. m \in Nat /\ n \in Nat
    BY Zenon
  <2>2. ~(n < m)
    BY <1>2, <2>1, Zenon
  <2> QED BY <2>1, <2>2
<1> QED BY <1>3, Zenon

LEMMA LeastNat ==
  ASSUME NEW T, \A t \in T : t \in Nat, T # {}
  PROVE  \E m \in T : \A n \in T : m <= n
<1>1. \A x, y \in Nat : y < x => <<y, x>> \in OpToRel(<, Nat)
  BY DEF OpToRel
<1> QED BY <1>1, LeastOf, NatLessThanWellFounded, Zenon

Does(tag, a, e) ==
  CASE tag = "send"   -> SendNext(a, e)
    [] tag = "resend" -> Resend(a, e)
    [] tag = "handle" -> HandleMessage(a, e)
    [] tag = "told"   -> Told(a, e)
    [] tag = "insert" -> InsertSent(a, e)

Taken(tag, base, seq, S, g) ==
  [s \in SUBSET S |-> IF s = {} THEN base ELSE Does(tag, g[s \ {Max(s)}], seq[Max(s)])]
Folded(tag, base, seq) ==
  (CHOOSE g : g = Taken(tag, base, seq, DOMAIN seq, g))[DOMAIN seq]

LEMMA FoldsSend == \A base, seq : FoldLeft(SendNext, base, seq) = Folded("send", base, seq)
<1> SUFFICES ASSUME NEW base, NEW seq
             PROVE  FoldLeft(SendNext, base, seq) = Folded("send", base, seq)
  OBVIOUS
<1>1. \A a, e : Does("send", a, e) = SendNext(a, e)
  BY DEF Does
<1>2. \A g : Taken("send", base, seq, DOMAIN seq, g)
             = [s \in SUBSET DOMAIN seq |->
                  IF s = {} THEN base ELSE SendNext(g[s \ {Max(s)}], seq[Max(s)])]
  BY <1>1, Zenon DEF Taken
<1> QED BY <1>2, Zenon DEF FoldLeft, MapThenFoldSet, Folded

(* The greatest of some positions.                                         *)
LEMMA MaxOf ==
  ASSUME NEW n \in Nat, NEW s \in SUBSET (1 .. n), s # {}
  PROVE  Max(s) \in s /\ \A y \in s : y <= Max(s)
<1> DEFINE T == {n - x : x \in s}
<1>1. \A t \in T : t \in Nat
  OBVIOUS
<1>2. T # {}
  OBVIOUS
<1>3. PICK m \in T : \A t \in T : m <= t
  <2> HIDE DEF T
  <2> QED BY <1>1, <1>2, LeastNat, Zenon
<1>4. PICK x \in s : m = n - x
  OBVIOUS
<1>5. \A y \in s : x >= y
  <2> TAKE y \in s
  <2>1. n - y \in T
    OBVIOUS
  <2>2. m <= n - y
    BY <2>1, <1>3
  <2>3. x \in 1 .. n /\ y \in 1 .. n
    OBVIOUS
  <2> QED BY <2>2, <2>3, <1>4
<1>6. Max(s) \in s /\ \A y \in s : Max(s) >= y
  BY <1>5, Zenon DEF Max
<1>7. ASSUME NEW y \in s PROVE y <= Max(s)
  <2>1. y \in 1 .. n /\ Max(s) \in 1 .. n /\ Max(s) >= y
    BY <1>6
  <2> QED BY <2>1
<1> QED BY <1>6, <1>7

LEMMA SizesOf ==
  ASSUME NEW n \in Nat
  PROVE  /\ \A s \in SUBSET (1 .. n) : Cardinality(s) \in Nat /\ Cardinality(s) <= n
         /\ \A s \in SUBSET (1 .. n) : s # {} =>
              s \ {Max(s)} \in SUBSET (1 .. n) /\ Cardinality(s \ {Max(s)}) = Cardinality(s) - 1
<1>1. IsFiniteSet(1 .. n) /\ Cardinality(1 .. n) = n
  BY FS_Interval
<1>2. ASSUME NEW s \in SUBSET (1 .. n)
      PROVE  IsFiniteSet(s) /\ Cardinality(s) \in Nat /\ Cardinality(s) <= n
  BY <1>1, FS_Subset, FS_CardinalityType
<1>3. ASSUME NEW s \in SUBSET (1 .. n), s # {}
      PROVE  Cardinality(s \ {Max(s)}) = Cardinality(s) - 1
  BY <1>2, <1>3, MaxOf, FS_RemoveElement
<1> QED BY <1>2, <1>3

Upto(tag, base, seq, n, k, g) ==
  /\ g = [s \in SUBSET (1 .. n) |-> g[s]]
  /\ \A s \in SUBSET (1 .. n) : Cardinality(s) <= k =>
       g[s] = IF s = {} THEN base ELSE Does(tag, g[s \ {Max(s)}], seq[Max(s)])

LEMMA FoldsUpto ==
  ASSUME NEW tag, NEW base, NEW seq, NEW n \in Nat
  PROVE  \A k \in Nat : \E g : Upto(tag, base, seq, n, k, g)
<1> DEFINE B == SUBSET (1 .. n)
<1> DEFINE T == {k \in Nat : ~\E g : Upto(tag, base, seq, n, k, g)}
<1>1. 0 \notin T
  <2> DEFINE g == [s \in B |-> base]
  <2>1. Upto(tag, base, seq, n, 0, g)
    <3>1. ASSUME NEW s \in B, Cardinality(s) <= 0 PROVE s = {}
      <4>1. s # {} => Cardinality(s \ {Max(s)}) = Cardinality(s) - 1 /\ Cardinality(s \ {Max(s)}) \in Nat
        BY SizesOf
      <4>2. Cardinality(s) \in Nat
        BY SizesOf
      <4> QED BY <3>1, <4>1, <4>2
    <3> QED BY <3>1 DEF Upto
  <2> HIDE DEF g
  <2> QED BY <2>1
<1>2. ASSUME NEW k \in Nat, k \notin T PROVE k + 1 \notin T
  <2>1. PICK g : Upto(tag, base, seq, n, k, g)
    BY <1>2
  <2> DEFINE h == [s \in B |-> IF Cardinality(s) <= k THEN g[s]
                              ELSE Does(tag, g[s \ {Max(s)}], seq[Max(s)])]
  <2>2. ASSUME NEW s \in B, Cardinality(s) <= k + 1
        PROVE  h[s] = IF s = {} THEN base ELSE Does(tag, h[s \ {Max(s)}], seq[Max(s)])
    <3>1. Cardinality(s) \in Nat
      BY SizesOf
    <3>2. CASE s = {}
      <4>1. Cardinality(s) = 0
        BY <3>2, FS_EmptySet
      <4>2. h[s] = g[s]
        BY <4>1
      <4>3. g[s] = base
        <5>1. Cardinality(s) <= k
          BY <4>1
        <5> QED BY <5>1, <2>1, <3>2, Zenon DEF Upto
      <4> QED BY <4>2, <4>3, <3>2
    <3>3. CASE s # {}
      <4> DEFINE r == s \ {Max(s)}
      <4>1. r \in B /\ Cardinality(r) = Cardinality(s) - 1
        BY <3>3, SizesOf
      <4>2. h[r] = g[r]
        BY <4>1, <3>1, <2>2
      <4>3. h[s] = Does(tag, g[r], seq[Max(s)])
        <5>1. CASE Cardinality(s) <= k
          <6>1. h[s] = g[s]
            BY <5>1
          <6> QED BY <6>1, <5>1, <3>3, <2>1, Zenon DEF Upto
        <5>2. CASE ~(Cardinality(s) <= k)
          BY <5>2, Zenon
        <5> QED BY <5>1, <5>2
      <4> QED BY <4>2, <4>3, <3>3, Zenon
    <3> QED BY <3>2, <3>3
  <2>3. Upto(tag, base, seq, n, k + 1, h)
    <3>1. h = [s \in B |-> h[s]]
      BY Zenon
    <3> HIDE DEF h
    <3> QED BY <2>2, <3>1, Zenon DEF Upto
  <2> HIDE DEF h
  <2> QED BY <2>3
<1>3. ASSUME T # {} PROVE FALSE
  <2>1. PICK m \in T : \A t \in T : m <= t
    <3>1. \A t \in T : t \in Nat
      OBVIOUS
    <3> HIDE DEF T
    <3> QED BY <3>1, <1>3, LeastNat, Zenon
  <2>2. m \in Nat /\ m # 0
    BY <1>1
  <2>3. m - 1 \in Nat /\ m - 1 \notin T
    BY <2>1, <2>2
  <2>4. m - 1 + 1 \notin T
    BY <2>3, <1>2
  <2> QED BY <2>4, <2>2
<1> QED BY <1>3

(* What a fold over a sequence comes to: each turn takes the result of the  *)
(* turn before it.                                                         *)
Turns(tag, base, seq, n, it) ==
  it[0] = base /\ \A k \in 1 .. n : it[k] = Does(tag, it[k - 1], seq[k])

LEMMA FoldedIs ==
  ASSUME NEW tag, NEW base, NEW seq, NEW n \in Nat, DOMAIN seq = 1 .. n
  PROVE  \E it : Turns(tag, base, seq, n, it) /\ Folded(tag, base, seq) = it[n]
<1> DEFINE B == SUBSET (1 .. n)
<1>1. PICK g : Upto(tag, base, seq, n, n, g)
  BY FoldsUpto
<1>2. g = Taken(tag, base, seq, DOMAIN seq, g)
  <2>1. \A s \in B : g[s] = IF s = {} THEN base ELSE Does(tag, g[s \ {Max(s)}], seq[Max(s)])
    BY <1>1, SizesOf DEF Upto
  <2>2. g = [s \in B |-> g[s]]
    BY <1>1, Zenon DEF Upto
  <2> QED BY <2>1, <2>2, Zenon DEF Taken
<1> DEFINE f == CHOOSE g_1 : g_1 = Taken(tag, base, seq, DOMAIN seq, g_1)
<1>3. f = Taken(tag, base, seq, DOMAIN seq, f)
  BY <1>2, Zenon
<1> HIDE DEF f
<1>4. \A s \in B : f[s] = IF s = {} THEN base ELSE Does(tag, f[s \ {Max(s)}], seq[Max(s)])
  BY <1>3, Zenon DEF Taken
<1> DEFINE it == [k \in 0 .. n |-> f[1 .. k]]
<1>5. it[0] = base
  <2>1. 1 .. 0 = {} /\ 1 .. 0 \in B
    OBVIOUS
  <2>2. it[0] = f[1 .. 0]
    OBVIOUS
  <2> QED BY <2>1, <2>2, <1>4, Zenon
<1>6. ASSUME NEW k \in 1 .. n PROVE it[k] = Does(tag, it[k - 1], seq[k])
  <2> DEFINE s == 1 .. k
  <2>1. s \in B /\ s # {}
    <3>1. k \in Nat /\ k \in s
      OBVIOUS
    <3>2. \A x \in s : x \in 1 .. n
      OBVIOUS
    <3> QED BY <3>1, <3>2, Zenon
  <2>2. Max(s) = k
    <3>1. Max(s) \in s /\ \A y \in s : y <= Max(s)
      <4> HIDE DEF s
      <4> QED BY <2>1, MaxOf, Zenon
    <3> QED BY <3>1
  <2>3. s \ {k} = 1 .. (k - 1)
    OBVIOUS
  <2>4. f[s] = Does(tag, f[1 .. (k - 1)], seq[k])
    <3>1. f[s] = Does(tag, f[s \ {Max(s)}], seq[Max(s)])
      BY <2>1, <1>4, Zenon
    <3> QED BY <3>1, <2>2, <2>3, Zenon
  <2>5. it[k] = f[1 .. k] /\ it[k - 1] = f[1 .. (k - 1)]
    OBVIOUS
  <2> QED BY <2>4, <2>5, Zenon
<1>7. Folded(tag, base, seq) = it[n]
  <2>1. it[n] = f[1 .. n]
    OBVIOUS
  <2> QED BY <2>1, Zenon DEF Folded, f
<1> HIDE DEF it
<1> QED BY <1>5, <1>6, <1>7, Zenon DEF Turns
-----------------------------------------------------------------------------
(***************************************************************************)
(* Recursion towards the end of a sequence.                                *)
(***************************************************************************)
\* A character of parseUTF8, with the characters after it.
ReadChar(input, end, i, rest) ==
  IF i >= end THEN [ok |-> TRUE, units |-> <<>>]
  ELSE IF ~CharIsWhole(input, i) THEN Unread
  ELSE IF rest.ok THEN [ok |-> TRUE, units |-> UnitsOf(CharAt(input, i)) \o rest.units]
  ELSE Unread

\* A message of Deframe, with the messages after it.
ReadPacket(bytes, p, rest) ==
  IF p > Len(bytes) THEN [ok |-> TRUE, messages |-> <<>>, rest |-> <<>>]
  ELSE IF decodeMessage(bytes, p).outcome = "message"
       THEN [rest EXCEPT !.messages = <<decodeMessage(bytes, p).message>> \o @]
       ELSE [ok |-> decodeMessage(bytes, p).outcome = "incomplete", messages |-> <<>>,
             rest |-> SubSeq(bytes, p, Len(bytes))]

\* The length, and the bytes, of a string from position i on.
ReadLength(input, i, rest) ==
  IF i > Len(input) THEN 0
  ELSE CASE IsLead(input[i])                     -> 4 + rest
         [] input[i] > 2047 /\ ~IsLead(input[i]) -> 3 + rest
         [] input[i] > 127  /\ input[i] <= 2047  -> 2 + rest
         [] OTHER                                -> 1 + rest
ReadUnit(input, i, rest) ==
  IF i > Len(input) THEN <<>>
  ELSE IF IsLead(input[i])
       THEN BytesOf(PairOf(input[i], input[i + 1])) \o rest
       ELSE BytesOf(input[i]) \o rest

\* One turn of the recursion called tag, with the result of a later position,
\* and which position that is.
Reads(tag, x, to, i, rest) ==
  CASE tag = "number" -> IF i > to THEN 0 ELSE (x[i] % 128) + 128 * rest
    [] tag = "text"   -> ReadChar(x, to, i, rest)
    [] tag = "frame"  -> ReadPacket(x, i, rest)
    [] tag = "length" -> ReadLength(x, i, rest)
    [] tag = "units"  -> ReadUnit(x, i, rest)
Skips(tag, x, i) ==
  CASE tag = "number" -> i + 1
    [] tag = "text"   -> i + CharSize(x[i])
    [] tag = "frame"  -> decodeMessage(x, i).next
    [] tag = "length" -> IF IsLead(x[i]) THEN i + 2 ELSE i + 1
    [] tag = "units"  -> IF IsLead(x[i]) THEN i + 2 ELSE i + 1

\* From each position on, either what follows does not matter or it is a
\* later position.
Forward(tag, x, to, lo, hi) ==
  \A i \in lo .. hi :
    \/ Skips(tag, x, i) \in i + 1 .. hi
    \/ \A v, w : Reads(tag, x, to, i, v) = Reads(tag, x, to, i, w)
Table(tag, x, to, lo, hi, f) ==
  [i \in lo .. hi |-> Reads(tag, x, to, i, f[Skips(tag, x, i)])]
Backwards(tag, x, to, lo, hi, k, f) ==
  /\ f = [i \in lo .. hi |-> f[i]]
  /\ \A i \in lo .. hi : i > hi - k => f[i] = Reads(tag, x, to, i, f[Skips(tag, x, i)])

LEMMA ReadsBackwards ==
  ASSUME NEW tag, NEW x, NEW to, NEW lo \in Int, NEW hi \in Int, Forward(tag, x, to, lo, hi)
  PROVE  \A k \in Nat : \E f : Backwards(tag, x, to, lo, hi, k, f)
<1> DEFINE T == {k \in Nat : ~\E f : Backwards(tag, x, to, lo, hi, k, f)}
<1>1. 0 \notin T
  <2> DEFINE f == [i \in lo .. hi |-> 0]
  <2>1. \A i \in lo .. hi : ~(i > hi - 0)
    OBVIOUS
  <2>2. f = [i \in lo .. hi |-> f[i]]
    BY Zenon
  <2>3. Backwards(tag, x, to, lo, hi, 0, f)
    <3> HIDE DEF f
    <3> QED BY <2>1, <2>2, Zenon DEF Backwards
  <2> HIDE DEF f
  <2> QED BY <2>3
<1>2. ASSUME NEW k \in Nat, k \notin T PROVE k + 1 \notin T
  <2>1. PICK f : Backwards(tag, x, to, lo, hi, k, f)
    BY <1>2
  <2> DEFINE h == [i \in lo .. hi |-> IF i > hi - k THEN f[i]
                              ELSE Reads(tag, x, to, i, f[Skips(tag, x, i)])]
  <2>2. ASSUME NEW i \in lo .. hi, i > hi - (k + 1)
        PROVE  h[i] = Reads(tag, x, to, i, h[Skips(tag, x, i)])
    <3> DEFINE j == Skips(tag, x, i)
    <3>1. h[i] = Reads(tag, x, to, i, f[j])
      <4>1. CASE i > hi - k
        <5>1. h[i] = f[i]
          BY <4>1, Zenon
        <5> QED BY <5>1, <4>1, <2>1, Zenon DEF Backwards
      <4>2. CASE ~(i > hi - k)
        BY <4>2, Zenon
      <4> QED BY <4>1, <4>2, Zenon
    <3>2. CASE j \in i + 1 .. hi
      <4>1. j \in lo .. hi /\ j > hi - k
        <5> HIDE DEF j
        <5> QED BY <3>2, <2>2
      <4>2. h[j] = f[j]
        <5> HIDE DEF j
        <5> QED BY <4>1, Zenon
      <4> HIDE DEF h, j
      <4> QED BY <3>1, <4>2, Zenon DEF j
    <3>3. CASE ~(j \in i + 1 .. hi)
      <4>1. \A v, w : Reads(tag, x, to, i, v) = Reads(tag, x, to, i, w)
        BY <3>3, Zenon DEF Forward
      <4> HIDE DEF h
      <4> QED BY <3>1, <4>1, Zenon
    <3> QED BY <3>2, <3>3, Zenon
  <2>3. Backwards(tag, x, to, lo, hi, k + 1, h)
    <3>1. h = [i \in lo .. hi |-> h[i]]
      BY Zenon
    <3> HIDE DEF h
    <3> QED BY <2>2, <3>1, Zenon DEF Backwards
  <2> HIDE DEF h
  <2> QED BY <2>3
<1>3. ASSUME T # {} PROVE FALSE
  <2>1. PICK m \in T : \A t \in T : m <= t
    <3>1. \A t \in T : t \in Nat
      OBVIOUS
    <3> HIDE DEF T
    <3> QED BY <3>1, <1>3, LeastNat, Zenon
  <2>2. m \in Nat /\ m # 0
    BY <1>1
  <2>3. m - 1 \in Nat /\ m - 1 \notin T
    BY <2>1, <2>2
  <2>4. m - 1 + 1 \notin T
    BY <2>3, <1>2
  <2> QED BY <2>4, <2>2
<1> QED BY <1>3

(* There is a table of the recursion, and CHOOSE finds one.                *)
TableOf(tag, x, to, lo, hi) == CHOOSE f : f = Table(tag, x, to, lo, hi, f)

LEMMA TableIs ==
  ASSUME NEW tag, NEW x, NEW to, NEW lo \in Int, NEW hi \in Int, lo <= hi + 1,
         Forward(tag, x, to, lo, hi)
  PROVE  \A i \in lo .. hi :
           TableOf(tag, x, to, lo, hi)[i]
             = Reads(tag, x, to, i, TableOf(tag, x, to, lo, hi)[Skips(tag, x, i)])
<1>1. PICK g : Backwards(tag, x, to, lo, hi, hi - lo + 1, g)
  <2>1. hi - lo + 1 \in Nat
    OBVIOUS
  <2> QED BY <2>1, ReadsBackwards
<1>2. g = Table(tag, x, to, lo, hi, g)
  <2>1. ASSUME NEW i \in lo .. hi PROVE g[i] = Reads(tag, x, to, i, g[Skips(tag, x, i)])
    <3>1. i > hi - (hi - lo + 1)
      OBVIOUS
    <3> QED BY <3>1, <1>1, Zenon DEF Backwards
  <2>2. g = [i \in lo .. hi |-> g[i]]
    BY <1>1, Zenon DEF Backwards
  <2> QED BY <2>1, <2>2, Zenon DEF Table
<1> DEFINE f == TableOf(tag, x, to, lo, hi)
<1>3. f = Table(tag, x, to, lo, hi, f)
  BY <1>2, Zenon DEF TableOf
<1> HIDE DEF f
<1>4. \A i \in lo .. hi : f[i] = Reads(tag, x, to, i, f[Skips(tag, x, i)])
  BY <1>3, Zenon DEF Table
<1> QED BY <1>4 DEF f

(* The recursive functions of the wire format are such tables.             *)
LEMMA NumberTable ==
  ASSUME NEW input, NEW pos
  PROVE  LET last == {i \in pos .. Len(input) : input[i] < 128}
             to   == CHOOSE i \in last : \A j \in last : i <= j
         IN  decodeMBI(input, pos)
               = IF last = {} THEN [found |-> FALSE, number |-> 0, next |-> pos]
                 ELSE [found |-> TRUE, number |-> TableOf("number", input, to, pos, to + 1)[pos],
                       next |-> to + 1]
<1> DEFINE last == {i \in pos .. Len(input) : input[i] < 128}
           to   == CHOOSE i \in last : \A j \in last : i <= j
<1>1. \A i, f : Reads("number", input, to, i, f[Skips("number", input, i)])
                = IF i > to THEN 0 ELSE (input[i] % 128) + 128 * f[i + 1]
  BY Zenon DEF Reads, Skips
<1>2. \A f : Table("number", input, to, pos, to + 1, f)
             = [i \in pos .. to + 1 |-> IF i > to THEN 0 ELSE (input[i] % 128) + 128 * f[i + 1]]
  BY <1>1, Zenon DEF Table
<1> HIDE DEF last, to
<1>3. TableOf("number", input, to, pos, to + 1)
      = CHOOSE f : f = [i \in pos .. to + 1 |-> IF i > to THEN 0 ELSE (input[i] % 128) + 128 * f[i + 1]]
  BY <1>2, Zenon DEF TableOf
<1> QED BY <1>3, Zenon DEF decodeMBI, last, to

LEMMA TextTable ==
  ASSUME NEW input, NEW offset, NEW length
  PROVE  parseUTF8(input, offset, length)
           = TableOf("text", input, offset + length, 1, Len(input) + 4)[offset]
<1>1. \A i, f : Reads("text", input, offset + length, i, f[Skips("text", input, i)])
               = ReadChar(input, offset + length, i, f[i + CharSize(input[i])])
  BY Zenon DEF Reads, Skips
<1>2. \A f : Table("text", input, offset + length, 1, Len(input) + 4, f)
            = [i \in 1 .. Len(input) + 4 |->
                 ReadChar(input, offset + length, i, f[i + CharSize(input[i])])]
  BY <1>1, Zenon DEF Table
<1>3. TableOf("text", input, offset + length, 1, Len(input) + 4)
      = CHOOSE f : f = [i \in 1 .. Len(input) + 4 |->
                          ReadChar(input, offset + length, i, f[i + CharSize(input[i])])]
  BY <1>2, Zenon DEF TableOf
<1> QED BY <1>3, Zenon DEF parseUTF8, ReadChar

LEMMA FrameTable ==
  ASSUME NEW bytes
  PROVE  Deframe(bytes) = TableOf("frame", bytes, 0, 1, Len(bytes) + 2)[1]
<1> DEFINE body(f, p) ==
        IF p > Len(bytes) THEN [ok |-> TRUE, messages |-> <<>>, rest |-> <<>>]
        ELSE LET d == decodeMessage(bytes, p)
             IN IF d.outcome = "message"
                THEN [f[d.next] EXCEPT !.messages = <<d.message>> \o @]
                ELSE [ok |-> d.outcome = "incomplete", messages |-> <<>>,
                      rest |-> SubSeq(bytes, p, Len(bytes))]
<1>1. \A p, f : Reads("frame", bytes, 0, p, f[Skips("frame", bytes, p)]) = body(f, p)
  BY Zenon DEF Reads, Skips, ReadPacket
<1> HIDE DEF body
<1>2. \A f : Table("frame", bytes, 0, 1, Len(bytes) + 2, f) = [p \in 1 .. Len(bytes) + 2 |-> body(f, p)]
  BY <1>1, Zenon DEF Table
<1>3. TableOf("frame", bytes, 0, 1, Len(bytes) + 2)
      = CHOOSE f : f = [p \in 1 .. Len(bytes) + 2 |-> body(f, p)]
  BY <1>2, Zenon DEF TableOf
<1> QED BY <1>3, Zenon DEF Deframe, body

LEMMA LengthTable ==
  ASSUME NEW input
  PROVE  UTF8Length(input) = TableOf("length", input, 0, 1, Len(input) + 2)[1]
<1> DEFINE body(f, i) ==
        IF i > Len(input) THEN 0
        ELSE CASE IsLead(input[i])                         -> 4 + f[i + 2]
               [] input[i] > 2047 /\ ~IsLead(input[i])     -> 3 + f[i + 1]
               [] input[i] > 127  /\ input[i] <= 2047      -> 2 + f[i + 1]
               [] OTHER                                    -> 1 + f[i + 1]
<1>1. \A i, f : Reads("length", input, 0, i, f[Skips("length", input, i)]) = body(f, i)
  <2> TAKE i, f
  <2>1. Reads("length", input, 0, i, f[Skips("length", input, i)])
        = ReadLength(input, i, f[IF IsLead(input[i]) THEN i + 2 ELSE i + 1])
    BY Zenon DEF Reads, Skips
  <2>2. CASE IsLead(input[i])
    <3>1. input[i] > 2047 /\ ~(input[i] <= 2047)
      BY <2>2 DEF IsLead
    <3>2. ReadLength(input, i, f[i + 2]) = body(f, i)
      BY <2>2, <3>1 DEF ReadLength
    <3> HIDE DEF body
    <3> QED BY <2>1, <2>2, <3>2, Zenon
  <2>3. CASE ~IsLead(input[i])
    <3>1. ReadLength(input, i, f[i + 1]) = body(f, i)
      BY <2>3 DEF ReadLength
    <3> HIDE DEF body
    <3> QED BY <2>1, <2>3, <3>1, Zenon
  <2> QED BY <2>2, <2>3, Zenon
<1> HIDE DEF body
<1>2. \A f : Table("length", input, 0, 1, Len(input) + 2, f) = [i \in 1 .. Len(input) + 2 |-> body(f, i)]
  BY <1>1, Zenon DEF Table
<1>3. TableOf("length", input, 0, 1, Len(input) + 2)
      = CHOOSE f : f = [i \in 1 .. Len(input) + 2 |-> body(f, i)]
  BY <1>2, Zenon DEF TableOf
<1> QED BY <1>3, Zenon DEF UTF8Length, body

LEMMA UnitsTable ==
  ASSUME NEW input
  PROVE  stringToUTF8(input) = TableOf("units", input, 0, 1, Len(input) + 1)[1]
<1> DEFINE body(f, i) ==
        IF i > Len(input) THEN <<>>
        ELSE IF IsLead(input[i])
             THEN BytesOf(PairOf(input[i], input[i + 1])) \o f[i + 2]
             ELSE BytesOf(input[i]) \o f[i + 1]
<1>1. \A i, f : Reads("units", input, 0, i, f[Skips("units", input, i)]) = body(f, i)
  <2> TAKE i, f
  <2>1. Reads("units", input, 0, i, f[Skips("units", input, i)])
        = ReadUnit(input, i, f[IF IsLead(input[i]) THEN i + 2 ELSE i + 1])
    BY Zenon DEF Reads, Skips
  <2>2. CASE IsLead(input[i])
    <3>1. ReadUnit(input, i, f[i + 2]) = body(f, i)
      BY <2>2, Zenon DEF ReadUnit
    <3> HIDE DEF body
    <3> QED BY <2>1, <2>2, <3>1, Zenon
  <2>3. CASE ~IsLead(input[i])
    <3>1. ReadUnit(input, i, f[i + 1]) = body(f, i)
      BY <2>3, Zenon DEF ReadUnit
    <3> HIDE DEF body
    <3> QED BY <2>1, <2>3, <3>1, Zenon
  <2> QED BY <2>2, <2>3, Zenon
<1> HIDE DEF body
<1>2. \A f : Table("units", input, 0, 1, Len(input) + 1, f) = [i \in 1 .. Len(input) + 1 |-> body(f, i)]
  BY <1>1, Zenon DEF Table
<1>3. TableOf("units", input, 0, 1, Len(input) + 1)
      = CHOOSE f : f = [i \in 1 .. Len(input) + 1 |-> body(f, i)]
  BY <1>2, Zenon DEF TableOf
<1> QED BY <1>3, Zenon DEF stringToUTF8, body

-----------------------------------------------------------------------------
(***************************************************************************)
(* What the client reads.                                                  *)
(***************************************************************************)
LEMMA Codes ==
  /\ Code("CONNECT") = 1 /\ Code("CONNACK") = 2 /\ Code("PUBLISH") = 3 /\ Code("PUBACK") = 4
  /\ Code("PUBREC") = 5 /\ Code("PUBREL") = 6 /\ Code("PUBCOMP") = 7 /\ Code("SUBSCRIBE") = 8
  /\ Code("SUBACK") = 9 /\ Code("UNSUBSCRIBE") = 10 /\ Code("UNSUBACK") = 11
  /\ Code("PINGREQ") = 12 /\ Code("PINGRESP") = 13 /\ Code("DISCONNECT") = 14
BY DEF Code, MessageTypes

Bytewise == Seq(Nat)

(* A remaining length that is found is a number and lies behind pos.       *)
LEMMA NumberFound ==
  ASSUME NEW input \in Bytewise, NEW pos \in Nat \ {0}
  PROVE  /\ decodeMBI(input, pos).found \in BOOLEAN
         /\ decodeMBI(input, pos).found =>
              /\ decodeMBI(input, pos).number \in Nat
              /\ decodeMBI(input, pos).next \in pos + 1 .. Len(input) + 1
         /\ pos > Len(input) => ~decodeMBI(input, pos).found
         /\ pos <= Len(input) /\ input[pos] < 128 =>
              decodeMBI(input, pos) = [found |-> TRUE, number |-> input[pos], next |-> pos + 1]
<1> DEFINE last == {i \in pos .. Len(input) : input[i] < 128}
           to   == CHOOSE i \in last : \A j \in last : i <= j
           t    == TableOf("number", input, to, pos, to + 1)
<1>0. Len(input) \in Nat /\ \A i \in 1 .. Len(input) : input[i] \in Nat
  BY DEF Bytewise
<1>1. decodeMBI(input, pos)
        = IF last = {} THEN [found |-> FALSE, number |-> 0, next |-> pos]
          ELSE [found |-> TRUE, number |-> t[pos], next |-> to + 1]
  BY NumberTable, Zenon
<1>2. pos > Len(input) => last = {}
  BY <1>0
<1>3. ASSUME last # {}
      PROVE  to \in pos .. Len(input) /\ to \in last /\ \A j \in last : to <= j
  <2>1. \A i \in last : i \in Nat
    BY <1>0
  <2>2. \E m \in last : \A j \in last : m <= j
    <3> HIDE DEF last
    <3> QED BY <1>3, <2>1, LeastNat, Zenon
  <2>3. to \in last /\ \A j \in last : to <= j
    <3> HIDE DEF last
    <3> QED BY <2>2, Zenon
  <2> QED BY <2>3
<1>4. ASSUME last # {}
      PROVE  \A i \in pos .. to + 1 : t[i] = IF i > to THEN 0 ELSE (input[i] % 128) + 128 * t[i + 1]
  <2> HIDE DEF to, last
  <2>1. to \in pos .. Len(input)
    BY <1>3, <1>4
  <2>2. Forward("number", input, to, pos, to + 1)
    <3>1. ASSUME NEW i \in pos .. to + 1, i > to, NEW v, NEW w
          PROVE  Reads("number", input, to, i, v) = Reads("number", input, to, i, w)
      BY <3>1, Zenon DEF Reads
    <3>2. ASSUME NEW i \in pos .. to + 1, ~(i > to)
          PROVE  Skips("number", input, i) \in i + 1 .. to + 1
      <4>1. Skips("number", input, i) = i + 1
        BY Zenon DEF Skips
      <4> QED BY <4>1, <3>2, <2>1
    <3> QED BY <3>1, <3>2, Zenon DEF Forward
  <2>3. \A i \in pos .. to + 1 : t[i] = Reads("number", input, to, i, t[Skips("number", input, i)])
    <3>1. pos \in Int /\ to + 1 \in Int /\ pos <= to + 1 + 1
      BY <2>1
    <3> HIDE DEF t
    <3>2. \A i \in pos .. to + 1 :
            TableOf("number", input, to, pos, to + 1)[i]
              = Reads("number", input, to, i,
                      TableOf("number", input, to, pos, to + 1)[Skips("number", input, i)])
      BY <3>1, <2>2, TableIs
    <3> QED BY <3>2, Zenon DEF t
  <2>4. \A i : Skips("number", input, i) = i + 1
    BY Zenon DEF Skips
  <2> HIDE DEF t
  <2> QED BY <2>3, <2>4, Zenon DEF Reads
<1>5. ASSUME last # {} PROVE t[pos] \in Nat
  <2> HIDE DEF t, to, last
  <2>1. to \in pos .. Len(input)
    BY <1>3, <1>5
  <2>2. \A i \in pos .. to + 1 : t[i] = IF i > to THEN 0 ELSE (input[i] % 128) + 128 * t[i + 1]
    BY <1>4, <1>5, Zenon
  <2> DEFINE T == {k \in 0 .. to + 1 - pos : t[to + 1 - k] \notin Nat}
  <2>3. T = {}
    <3> SUFFICES ASSUME T # {} PROVE FALSE
      OBVIOUS
    <3>1. PICK m \in T : \A k \in T : m <= k
      <4>1. \A k \in T : k \in Nat
        BY <2>1
      <4> HIDE DEF T
      <4> QED BY <4>1, LeastNat, Zenon
    <3>2. m \in 0 .. to + 1 - pos /\ t[to + 1 - m] \notin Nat
      OBVIOUS
    <3>3. m # 0
      <4>1. to + 1 \in pos .. to + 1 /\ to + 1 > to
        BY <2>1
      <4>2. t[to + 1] = 0
        BY <2>2, <4>1
      <4> QED BY <4>2, <3>2, <2>1
    <3>4. m - 1 \in 0 .. to + 1 - pos /\ m - 1 \notin T
      <4>1. m - 1 \in 0 .. to + 1 - pos
        BY <3>2, <3>3, <2>1
      <4>2. ~(m <= m - 1)
        BY <3>2
      <4> QED BY <4>1, <4>2, <3>1
    <3>5. t[to + 1 - (m - 1)] \in Nat
      BY <3>4
    <3> DEFINE i == to + 1 - m
    <3>6. i \in pos .. to + 1 /\ ~(i > to) /\ i + 1 = to + 1 - (m - 1) /\ i \in 1 .. Len(input)
      BY <3>2, <3>3, <2>1
    <3>7. input[i] % 128 \in Nat
      <4> HIDE DEF i
      <4> QED BY <3>6, <1>0
    <3>8. t[i] = (input[i] % 128) + 128 * t[i + 1]
      <4> HIDE DEF i
      <4> QED BY <3>6, <2>2
    <3>9. t[i + 1] \in Nat
      BY <3>5, <3>6
    <3>10. t[i] \in Nat
      <4> HIDE DEF i
      <4> QED BY <3>7, <3>8, <3>9
    <3> QED BY <3>10, <3>2
  <2>4. to + 1 - pos \in 0 .. to + 1 - pos /\ to + 1 - (to + 1 - pos) = pos
    BY <2>1
  <2> QED BY <2>3, <2>4
<1>6. ASSUME pos <= Len(input), input[pos] < 128
      PROVE  decodeMBI(input, pos) = [found |-> TRUE, number |-> input[pos], next |-> pos + 1]
  <2>1. pos \in last
    BY <1>6, <1>0
  <2>2. to = pos
    <3>1. to \in pos .. Len(input) /\ to <= pos
      <4> HIDE DEF to, last
      <4> QED BY <2>1, <1>3
    <3> HIDE DEF to
    <3> QED BY <3>1, <1>0
  <2> HIDE DEF t, to, last
  <2>3. t[pos] = input[pos]
    <3>1. pos \in pos .. to + 1 /\ pos + 1 \in pos .. to + 1 /\ ~(pos > to) /\ pos + 1 > to
      BY <2>2
    <3>2. t[pos] = (input[pos] % 128) + 128 * t[pos + 1] /\ t[pos + 1] = 0
      BY <3>1, <2>1, <1>4
    <3>3. input[pos] \in Nat
      BY <1>0, <1>6
    <3> QED BY <3>2, <3>3, <1>6
  <2> QED BY <2>1, <2>2, <2>3, <1>1, Zenon
<1>7. ASSUME last # {} PROVE to + 1 \in pos + 1 .. Len(input) + 1
  <2>1. to \in pos .. Len(input)
    BY <1>3, <1>7
  <2> HIDE DEF to
  <2> QED BY <2>1, <1>0
<1> HIDE DEF t, to, last
<1>8. CASE last = {}
  BY <1>1, <1>8, <1>6
<1>9. CASE last # {}
  BY <1>1, <1>2, <1>9, <1>5, <1>6, <1>7
<1> QED BY <1>8, <1>9

(* What decodeMessage makes of a message whose bytes have arrived.         *)
LEMMA DecodesTo ==
  ASSUME NEW input, NEW p,
         decodeMBI(input, p + 1).found,
         Arrived(input, decodeMBI(input, p + 1).next + decodeMBI(input, p + 1).number)
  PROVE  LET type == input[p] \div 16
             pos  == decodeMBI(input, p + 1).next
             end  == pos + decodeMBI(input, p + 1).number
         IN  /\ type = 2 => decodeMessage(input, p) =
                  Decoded([type |-> type, id |-> NoId,
                           returnCode |-> IF pos + 1 \in DOMAIN input THEN input[pos + 1] ELSE NaN], end)
             /\ type = 3 => decodeMessage(input, p) = DecodePublish(input, pos, end, input[p] % 16)
             /\ type \in {4, 5, 6, 7, 11} => decodeMessage(input, p) =
                  Decoded([type |-> type, id |-> readUint16(input, pos)], end)
             /\ type = 9 => decodeMessage(input, p) =
                  Decoded([type |-> type, id |-> readUint16(input, pos),
                           returnCode |-> SubArray(input, pos + 2, end)], end)
             /\ type \notin {2, 3, 4, 5, 6, 7, 9, 11} =>
                  decodeMessage(input, p) = Decoded([type |-> type, id |-> NoId], end)
<1> DEFINE type == input[p] \div 16
           pos  == decodeMBI(input, p + 1).next
           end  == pos + decodeMBI(input, p + 1).number
           connack == Decoded([type |-> type, id |-> NoId,
                       returnCode |-> IF pos + 1 \in DOMAIN input THEN input[pos + 1] ELSE NaN], end)
           publish == DecodePublish(input, pos, end, input[p] % 16)
           ack     == Decoded([type |-> type, id |-> readUint16(input, pos)], end)
           suback  == Decoded([type |-> type, id |-> readUint16(input, pos),
                               returnCode |-> SubArray(input, pos + 2, end)], end)
           bare    == Decoded([type |-> type, id |-> NoId], end)
<1>1. decodeMessage(input, p) =
        CASE type \in {Code(t) : t \in {"CONNACK"}} -> connack
          [] type \in {Code(t) : t \in {"PUBLISH"}} -> publish
          [] type \in {Code(t) : t \in {"PUBACK", "PUBREC", "PUBREL", "PUBCOMP", "UNSUBACK"}} -> ack
          [] type \in {Code(t) : t \in {"SUBACK"}} -> suback
          [] OTHER -> bare
  BY Zenon DEF decodeMessage
<1> HIDE DEF connack, publish, ack, suback, bare
<1>2. /\ {Code(t) : t \in {"CONNACK"}} = {2} /\ {Code(t) : t \in {"PUBLISH"}} = {3}
      /\ {Code(t) : t \in {"PUBACK", "PUBREC", "PUBREL", "PUBCOMP", "UNSUBACK"}} = {4, 5, 6, 7, 11}
      /\ {Code(t) : t \in {"SUBACK"}} = {9}
  BY Codes
<1>3. decodeMessage(input, p) =
        CASE type \in {2} -> connack [] type \in {3} -> publish
          [] type \in {4, 5, 6, 7, 11} -> ack [] type \in {9} -> suback [] OTHER -> bare
  BY <1>1, <1>2, Zenon
<1>4. /\ type = 2 => decodeMessage(input, p) = connack
      /\ type = 3 => decodeMessage(input, p) = publish
      /\ type \in {4, 5, 6, 7, 11} => decodeMessage(input, p) = ack
      /\ type = 9 => decodeMessage(input, p) = suback
      /\ type \notin {2, 3, 4, 5, 6, 7, 9, 11} => decodeMessage(input, p) = bare
  <2> HIDE DEF type
  <2> QED BY <1>3
<1> QED BY <1>4, Zenon DEF connack, publish, ack, suback, bare

(* A message that is read ends behind its first byte and within the input. *)
LEMMA DecodeAdvances ==
  ASSUME NEW input \in Bytewise, NEW p \in 1 .. Len(input),
         decodeMessage(input, p).outcome = "message"
  PROVE  decodeMessage(input, p).next \in p + 1 .. Len(input) + 2
<1> DEFINE pos == decodeMBI(input, p + 1).next
           end == pos + decodeMBI(input, p + 1).number
<1>0. Len(input) \in Nat
  BY DEF Bytewise
<1>1. decodeMBI(input, p + 1).found /\ Arrived(input, end)
  <2>1. ~decodeMBI(input, p + 1).found \/ ~Arrived(input, end) => decodeMessage(input, p) = Incomplete
    BY Zenon DEF decodeMessage
  <2>2. Incomplete.outcome # "message"
    BY DEF Incomplete
  <2> QED BY <2>1, <2>2
<1>2. pos \in p + 2 .. Len(input) + 1 /\ decodeMBI(input, p + 1).number \in Nat
  <2>1. p + 1 \in Nat \ {0}
    OBVIOUS
  <2> QED BY <1>1, <2>1, NumberFound
<1>3. end \in p + 1 .. Len(input) + 2
  BY <1>0, <1>1, <1>2 DEF Arrived
<1>4. \A m : Decoded(m, end).next = end
  BY DEF Decoded
<1>5. DecodePublish(input, pos, end, input[p] % 16).outcome = "message" =>
        DecodePublish(input, pos, end, input[p] % 16).next = end
  <2> HIDE DEF pos, end
  <2>1. DecodePublish(input, pos, end, input[p] % 16) = Throws
        \/ \E m : DecodePublish(input, pos, end, input[p] % 16) = Decoded(m, end)
    BY Zenon DEF DecodePublish
  <2>2. Throws.outcome # "message"
    BY DEF Throws
  <2> QED BY <1>4, <2>1, <2>2
<1>6. decodeMessage(input, p).next = end
  <2> DEFINE type == input[p] \div 16
  <2>1. type = 2 \/ type = 3 \/ type \in {4, 5, 6, 7, 11} \/ type = 9
        \/ type \notin {2, 3, 4, 5, 6, 7, 9, 11}
    <3> HIDE DEF type
    <3> QED OBVIOUS
  <2>2. CASE type = 2
    <3>1. decodeMessage(input, p) =
            Decoded([type |-> type, id |-> NoId,
                     returnCode |-> IF pos + 1 \in DOMAIN input THEN input[pos + 1] ELSE NaN], end)
      BY <2>2, <1>1, DecodesTo, Zenon
    <3> HIDE DEF type, pos, end
    <3> QED BY <3>1, <1>4, Zenon
  <2>3. CASE type = 3
    BY <2>3, <1>1, <1>5, DecodesTo, Zenon
  <2>4. CASE type \in {4, 5, 6, 7, 11}
    BY <2>4, <1>1, <1>4, DecodesTo, Zenon
  <2>5. CASE type = 9
    BY <2>5, <1>1, <1>4, DecodesTo, Zenon
  <2>6. CASE type \notin {2, 3, 4, 5, 6, 7, 9, 11}
    BY <2>6, <1>1, <1>4, DecodesTo, Zenon
  <2> QED BY <2>1, <2>2, <2>3, <2>4, <2>5, <2>6, Zenon
<1> QED BY <1>3, <1>6

(***************************************************************************)
(* Packets: bytes that are a message wherever they stand in the input.     *)
(***************************************************************************)
Stands(P, input, p) ==
  p + Len(P) - 1 <= Len(input) /\ \A j \in 1 .. Len(P) : input[p + j - 1] = P[j]
Means(P, m) ==
  \A input \in Bytewise : \A p \in Nat \ {0} :
    Stands(P, input, p) => decodeMessage(input, p) = Decoded(m, p + Len(P))
Packet(P) == P \in Bytewise /\ Len(P) >= 2 /\ P[2] < 128 /\ Len(P) = P[2] + 2
\* The bytes from p on are the beginning of a packet, and end before it does.
Begins(P, input, p) ==
  /\ p <= Len(input) /\ Len(input) - p + 1 < Len(P)
  /\ \A j \in 1 .. Len(input) - p + 1 : input[p + j - 1] = P[j]

LEMMA FramesForward ==
  ASSUME NEW bytes \in Bytewise
  PROVE  Forward("frame", bytes, 0, 1, Len(bytes) + 2)
<1>0. Len(bytes) \in Nat
  BY DEF Bytewise
<1>1. ASSUME NEW p \in 1 .. Len(bytes) + 2
      PROVE  \/ Skips("frame", bytes, p) \in p + 1 .. Len(bytes) + 2
             \/ \A v, w : Reads("frame", bytes, 0, p, v) = Reads("frame", bytes, 0, p, w)
  <2>1. \A v : Reads("frame", bytes, 0, p, v) = ReadPacket(bytes, p, v)
    BY Zenon DEF Reads
  <2>2. CASE p > Len(bytes)
    BY <2>1, <2>2, Zenon DEF ReadPacket
  <2>3. CASE ~(p > Len(bytes)) /\ decodeMessage(bytes, p).outcome = "message"
    <3>1. p \in 1 .. Len(bytes)
      BY <2>3, <1>0
    <3>2. decodeMessage(bytes, p).next \in p + 1 .. Len(bytes) + 2
      BY <3>1, <2>3, DecodeAdvances, Zenon
    <3>3. Skips("frame", bytes, p) = decodeMessage(bytes, p).next
      BY Zenon DEF Skips
    <3> QED BY <3>2, <3>3, Zenon
  <2>4. CASE ~(p > Len(bytes)) /\ ~(decodeMessage(bytes, p).outcome = "message")
    BY <2>1, <2>4, Zenon DEF ReadPacket
  <2> QED BY <2>2, <2>3, <2>4, Zenon
<1> QED BY <1>1, Zenon DEF Forward

FrameFrom(bytes, p) == TableOf("frame", bytes, 0, 1, Len(bytes) + 2)[p]

LEMMA FrameRows ==
  ASSUME NEW bytes \in Bytewise
  PROVE  /\ Deframe(bytes) = FrameFrom(bytes, 1)
         /\ \A p \in 1 .. Len(bytes) + 2 :
              FrameFrom(bytes, p) = ReadPacket(bytes, p, FrameFrom(bytes, decodeMessage(bytes, p).next))
<1>1. Deframe(bytes) = FrameFrom(bytes, 1)
  BY FrameTable, Zenon DEF FrameFrom
<1>2. \A p \in 1 .. Len(bytes) + 2 :
        TableOf("frame", bytes, 0, 1, Len(bytes) + 2)[p]
          = Reads("frame", bytes, 0, p,
                  TableOf("frame", bytes, 0, 1, Len(bytes) + 2)[Skips("frame", bytes, p)])
  <2>1. Len(bytes) + 2 \in Int /\ 1 \in Int /\ 1 <= Len(bytes) + 2 + 1
    BY DEF Bytewise
  <2> QED BY <2>1, FramesForward, TableIs
<1>3. \A p, v : Reads("frame", bytes, 0, p, v) = ReadPacket(bytes, p, v)
  BY Zenon DEF Reads
<1>4. \A p : Skips("frame", bytes, p) = decodeMessage(bytes, p).next
  BY Zenon DEF Skips
<1> QED BY <1>1, <1>2, <1>3, <1>4, Zenon DEF FrameFrom

LEMMA FrameEnd ==
  ASSUME NEW bytes \in Bytewise
  PROVE  FrameFrom(bytes, Len(bytes) + 1) = [ok |-> TRUE, messages |-> <<>>, rest |-> <<>>]
<1>1. Len(bytes) + 1 \in 1 .. Len(bytes) + 2 /\ Len(bytes) + 1 > Len(bytes)
  BY DEF Bytewise
<1> QED BY <1>1, FrameRows, Zenon DEF ReadPacket

LEMMA FrameWhole ==
  ASSUME NEW bytes \in Bytewise, NEW p \in Nat \ {0}, NEW P, NEW m,
         Packet(P), Means(P, m), Stands(P, bytes, p)
  PROVE  FrameFrom(bytes, p) = [FrameFrom(bytes, p + Len(P)) EXCEPT !.messages = <<m>> \o @]
<1>1. decodeMessage(bytes, p) = Decoded(m, p + Len(P))
  BY Zenon DEF Means
<1>2. /\ decodeMessage(bytes, p).outcome = "message" /\ decodeMessage(bytes, p).message = m
      /\ decodeMessage(bytes, p).next = p + Len(P)
  BY <1>1 DEF Decoded
<1>3. p \in 1 .. Len(bytes) + 2 /\ ~(p > Len(bytes))
  <2>1. Len(P) \in Nat /\ Len(bytes) \in Nat
    BY DEF Packet, Bytewise
  <2> QED BY <2>1 DEF Packet, Stands
<1>4. FrameFrom(bytes, p) = ReadPacket(bytes, p, FrameFrom(bytes, p + Len(P)))
  BY <1>2, <1>3, FrameRows, Zenon
<1> QED BY <1>2, <1>3, <1>4, Zenon DEF ReadPacket

LEMMA FramePart ==
  ASSUME NEW bytes \in Bytewise, NEW p \in Nat \ {0}, NEW P, Packet(P), Begins(P, bytes, p)
  PROVE  FrameFrom(bytes, p) = [ok |-> TRUE, messages |-> <<>>, rest |-> SubSeq(bytes, p, Len(bytes))]
<1>0. Len(bytes) \in Nat /\ Len(P) \in Nat /\ p \in 1 .. Len(bytes)
  BY DEF Packet, Begins, Bytewise
<1>1. ~decodeMBI(bytes, p + 1).found \/ ~Arrived(bytes, decodeMBI(bytes, p + 1).next + decodeMBI(bytes, p + 1).number)
  <2>1. CASE p = Len(bytes)
    <3>1. p + 1 \in Nat \ {0} /\ p + 1 > Len(bytes)
      BY <2>1, <1>0
    <3> QED BY <3>1, NumberFound
  <2>2. CASE p < Len(bytes)
    <3>1. p + 1 \in Nat \ {0} /\ p + 1 <= Len(bytes) /\ bytes[p + 1] = P[2]
      <4>1. 2 \in 1 .. Len(bytes) - p + 1 /\ p + 2 - 1 = p + 1
        BY <2>2, <1>0
      <4> QED BY <4>1, <2>2, <1>0 DEF Begins
    <3>2. decodeMBI(bytes, p + 1) = [found |-> TRUE, number |-> bytes[p + 1], next |-> p + 1 + 1]
      <4>1. bytes[p + 1] < 128
        BY <3>1 DEF Packet
      <4> QED BY <3>1, <4>1, NumberFound, Zenon
    <3>3. decodeMBI(bytes, p + 1).next + decodeMBI(bytes, p + 1).number = p + Len(P)
      <4>1. decodeMBI(bytes, p + 1).next = p + 2 /\ decodeMBI(bytes, p + 1).number = P[2]
        BY <3>1, <3>2
      <4>2. P[2] \in Nat /\ Len(P) = P[2] + 2
        BY DEF Packet, Bytewise
      <4> QED BY <4>1, <4>2
    <3>4. ~Arrived(bytes, p + Len(P))
      BY <1>0 DEF Begins, Arrived
    <3> QED BY <3>3, <3>4
  <2> QED BY <2>1, <2>2, <1>0
<1>2. decodeMessage(bytes, p) = Incomplete
  BY <1>1, Zenon DEF decodeMessage
<1>3. decodeMessage(bytes, p).outcome = "incomplete" /\ decodeMessage(bytes, p).outcome # "message"
  BY <1>2 DEF Incomplete
<1>4. p \in 1 .. Len(bytes) + 2 /\ ~(p > Len(bytes))
  BY <1>0
<1>5. FrameFrom(bytes, p) = ReadPacket(bytes, p, FrameFrom(bytes, decodeMessage(bytes, p).next))
  BY <1>4, FrameRows, Zenon
<1>6. FrameFrom(bytes, p) = [ok |-> decodeMessage(bytes, p).outcome = "incomplete", messages |-> <<>>,
                             rest |-> SubSeq(bytes, p, Len(bytes))]
  BY <1>3, <1>4, <1>5, Zenon DEF ReadPacket
<1> QED BY <1>3, <1>6

(* A packet that stands in the input is found by its length.               *)
LEMMA PacketStarts ==
  ASSUME NEW P, Packet(P), NEW input \in Bytewise, NEW p \in Nat \ {0}, Stands(P, input, p)
  PROVE  /\ decodeMBI(input, p + 1) = [found |-> TRUE, number |-> P[2], next |-> p + 2]
         /\ p + 2 + P[2] = p + Len(P)
         /\ Arrived(input, p + Len(P))
         /\ \A j \in 1 .. Len(P) : p + j - 1 \in DOMAIN input /\ input[p + j - 1] = P[j]
<1>1. Len(P) \in Nat /\ Len(input) \in Nat /\ P[2] \in Nat /\ DOMAIN input = 1 .. Len(input)
  BY DEF Packet, Bytewise
<1>2. p + 1 \in Nat \ {0} /\ p + 1 <= Len(input) /\ input[p + 1] = P[2] /\ P[2] < 128
  <2>1. 2 \in 1 .. Len(P) /\ p + 2 - 1 = p + 1
    BY <1>1 DEF Packet
  <2> QED BY <2>1, <1>1 DEF Packet, Stands
<1>3. decodeMBI(input, p + 1) = [found |-> TRUE, number |-> P[2], next |-> p + 1 + 1]
  BY <1>2, NumberFound
<1>4. p + 1 + 1 = p + 2 /\ p + 2 + P[2] = p + Len(P)
  BY <1>1 DEF Packet
<1>5. Arrived(input, p + Len(P))
  BY <1>1 DEF Arrived, Stands
<1>6. \A j \in 1 .. Len(P) : p + j - 1 \in DOMAIN input /\ input[p + j - 1] = P[j]
  BY <1>1 DEF Stands
<1> QED BY <1>3, <1>4, <1>5, <1>6

(* What decodeMessage makes of a packet.                                   *)
LEMMA PacketReads ==
  ASSUME NEW P, Packet(P), NEW input \in Bytewise, NEW p \in Nat \ {0}, Stands(P, input, p),
         NEW type, type = P[1] \div 16
  PROVE  /\ type = 2 => decodeMessage(input, p) =
              Decoded([type |-> type, id |-> NoId,
                       returnCode |-> IF (p + 3) \in DOMAIN input THEN input[p + 3] ELSE NaN], p + Len(P))
         /\ type = 3 => decodeMessage(input, p) = DecodePublish(input, p + 2, p + Len(P), P[1] % 16)
         /\ type \in {4, 5, 6, 7, 11} => decodeMessage(input, p) =
              Decoded([type |-> type, id |-> readUint16(input, p + 2)], p + Len(P))
         /\ type = 9 => decodeMessage(input, p) =
              Decoded([type |-> type, id |-> readUint16(input, p + 2),
                       returnCode |-> SubArray(input, p + 4, p + Len(P))], p + Len(P))
         /\ type \notin {2, 3, 4, 5, 6, 7, 9, 11} =>
              decodeMessage(input, p) = Decoded([type |-> type, id |-> NoId], p + Len(P))
<1> DEFINE d == decodeMBI(input, p + 1)
<1>1. d.found = TRUE /\ d.number = P[2] /\ d.next = p + 2
  <2>1. d = [found |-> TRUE, number |-> P[2], next |-> p + 2]
    BY PacketStarts, Zenon
  <2> HIDE DEF d
  <2> QED BY <2>1
<1>2. d.next + d.number = p + Len(P) /\ Arrived(input, p + Len(P)) /\ d.found
  <2>1. p + 2 + P[2] = p + Len(P) /\ Arrived(input, p + Len(P))
    BY PacketStarts, Zenon
  <2> HIDE DEF d
  <2> QED BY <1>1, <2>1
<1>3. input[p] = P[1]
  <2>1. 1 \in 1 .. Len(P) /\ p + 1 - 1 = p
    BY DEF Packet, Bytewise
  <2>2. \A j \in 1 .. Len(P) : p + j - 1 \in DOMAIN input /\ input[p + j - 1] = P[j]
    BY PacketStarts, Zenon
  <2> QED BY <2>1, <2>2
<1>4. p + 2 + 1 = p + 3 /\ p + 2 + 2 = p + 4
  OBVIOUS
<1>5. Arrived(input, d.next + d.number)
  BY <1>2, Zenon
<1>6. /\ type = 2 => decodeMessage(input, p) =
              Decoded([type |-> type, id |-> NoId,
                       returnCode |-> IF (d.next + 1) \in DOMAIN input THEN input[d.next + 1] ELSE NaN], d.next + d.number)
      /\ type = 3 => decodeMessage(input, p) = DecodePublish(input, d.next, d.next + d.number, input[p] % 16)
      /\ type \in {4, 5, 6, 7, 11} => decodeMessage(input, p) =
              Decoded([type |-> type, id |-> readUint16(input, d.next)], d.next + d.number)
      /\ type = 9 => decodeMessage(input, p) =
              Decoded([type |-> type, id |-> readUint16(input, d.next),
                       returnCode |-> SubArray(input, d.next + 2, d.next + d.number)], d.next + d.number)
      /\ type \notin {2, 3, 4, 5, 6, 7, 9, 11} =>
              decodeMessage(input, p) = Decoded([type |-> type, id |-> NoId], d.next + d.number)
  <2> HIDE DEF d
  <2> DEFINE t == input[p] \div 16
  <2>1. t = 2 => decodeMessage(input, p) =
                Decoded([type |-> t, id |-> NoId,
                         returnCode |-> IF (d.next + 1) \in DOMAIN input THEN input[d.next + 1] ELSE NaN], d.next + d.number)
    BY <1>5, <1>2, DecodesTo, Zenon DEF d
  <2>3. t = 3 => decodeMessage(input, p) = DecodePublish(input, d.next, d.next + d.number, input[p] % 16)
    BY <1>5, <1>2, DecodesTo, Zenon DEF d
  <2>4. t \in {4, 5, 6, 7, 11} => decodeMessage(input, p) =
                Decoded([type |-> t, id |-> readUint16(input, d.next)], d.next + d.number)
    BY <1>5, <1>2, DecodesTo, Zenon DEF d
  <2>5. t = 9 => decodeMessage(input, p) =
                Decoded([type |-> t, id |-> readUint16(input, d.next),
                         returnCode |-> SubArray(input, d.next + 2, d.next + d.number)], d.next + d.number)
    BY <1>5, <1>2, DecodesTo, Zenon DEF d
  <2>6. t \notin {2, 3, 4, 5, 6, 7, 9, 11} =>
                decodeMessage(input, p) = Decoded([type |-> t, id |-> NoId], d.next + d.number)
    BY <1>5, <1>2, DecodesTo, Zenon DEF d
  <2>2. t = type
    BY <1>3
  <2> HIDE DEF t
  <2> QED BY <2>1, <2>2, <2>3, <2>4, <2>5, <2>6, <1>3, Zenon
<1> HIDE DEF d
<1> QED BY <1>1, <1>2, <1>3, <1>4, <1>6, Zenon

(* Acknowledgements: two bytes of identifier.                              *)
Word(h, l) == 256 * h + l

LEMMA AckPacket ==
  ASSUME NEW P, NEW h \in Nat, NEW l \in Nat, NEW type \in {4, 5, 6, 7, 11},
         Packet(P), Len(P) = 4, type = P[1] \div 16, P[2] = 2, P[3] = h, P[4] = l
  PROVE  Means(P, [type |-> type, id |-> Word(h, l)])
<1>2. ASSUME NEW input \in Bytewise, NEW p \in Nat \ {0}, Stands(P, input, p)
      PROVE  decodeMessage(input, p) = Decoded([type |-> type, id |-> Word(h, l)], p + Len(P))
  <2>1. decodeMessage(input, p) = Decoded([type |-> type, id |-> readUint16(input, p + 2)], p + Len(P))
    <3> HIDE DEF Decoded
    <3> QED BY <1>2, PacketReads, Zenon
  <2>2. readUint16(input, p + 2) = Word(h, l)
    <3>1. {p + 2, p + 2 + 1} \subseteq DOMAIN input /\ input[p + 2] = h /\ input[p + 2 + 1] = l
      <4>1. 3 \in 1 .. Len(P) /\ 4 \in 1 .. Len(P) /\ p + 3 - 1 = p + 2 /\ p + 4 - 1 = p + 2 + 1
        OBVIOUS
      <4>2. \A j \in 1 .. Len(P) : p + j - 1 \in DOMAIN input /\ input[p + j - 1] = P[j]
        BY <1>2, PacketStarts, Zenon
      <4> QED BY <4>1, <4>2
    <3> QED BY <3>1 DEF readUint16, Word
  <2> QED BY <2>1, <2>2, Zenon
<1> QED BY <1>2, Zenon DEF Means

LEMMA ConnackPacket ==
  ASSUME NEW P, NEW r \in Nat, Packet(P) /\ Len(P) = 4 /\ P[1] \div 16 = 2 /\ P[2] = 2 /\ P[3] = 0 /\ P[4] = r
  PROVE  Means(P, [type |-> 2, id |-> NoId, returnCode |-> r])
<1>1. Packet(P) /\ Len(P) = 4 /\ P[1] \div 16 = 2 /\ P[2] = 2 /\ P[3] = 0 /\ P[4] = r
  OBVIOUS
<1>2. ASSUME NEW input \in Bytewise, NEW p \in Nat \ {0}, Stands(P, input, p)
      PROVE  decodeMessage(input, p) = Decoded([type |-> 2, id |-> NoId, returnCode |-> r], p + Len(P))
  <2>1. decodeMessage(input, p) = Decoded([type |-> 2, id |-> NoId,
              returnCode |-> IF (p + 3) \in DOMAIN input THEN input[p + 3] ELSE NaN], p + Len(P))
    <3>1. 2 = P[1] \div 16
      BY <1>1
    <3> QED BY <3>1, <1>1, <1>2, PacketReads, Zenon
  <2>2. p + 3 \in DOMAIN input /\ input[p + 3] = r
    <3>1. 4 \in 1 .. Len(P) /\ p + 4 - 1 = p + 3
      BY <1>1
    <3>2. \A j \in 1 .. Len(P) : p + j - 1 \in DOMAIN input /\ input[p + j - 1] = P[j]
      BY <1>1, <1>2, PacketStarts, Zenon
    <3> QED BY <3>1, <3>2, <1>1
  <2> QED BY <2>1, <2>2
<1> QED BY <1>1, <1>2, Zenon DEF Means

LEMMA SubackPacket ==
  ASSUME NEW P, NEW i \in Nat, NEW r \in Nat, 
         Packet(P), Len(P) = 5, P[1] \div 16 = 9, P[2] = 3, P[3] = 0, P[4] = i, P[5] = r
  PROVE  Means(P, [type |-> 9, id |-> i, returnCode |-> <<r>>])
<1>1. Packet(P) /\ Len(P) = 5 /\ P[1] \div 16 = 9 /\ P[2] = 3 /\ P[3] = 0 /\ P[4] = i /\ P[5] = r
  OBVIOUS
<1>2. ASSUME NEW input \in Bytewise, NEW p \in Nat \ {0}, Stands(P, input, p)
      PROVE  decodeMessage(input, p) = Decoded([type |-> 9, id |-> i, returnCode |-> <<r>>], p + Len(P))
  <2>1. decodeMessage(input, p) = Decoded([type |-> 9, id |-> readUint16(input, p + 2),
              returnCode |-> SubArray(input, p + 4, p + Len(P))], p + Len(P))
    <3>1. 9 = P[1] \div 16
      BY <1>1
    <3>2. \A t : t = P[1] \div 16 /\ t = 9 =>
            decodeMessage(input, p) = Decoded([type |-> t, id |-> readUint16(input, p + 2),
              returnCode |-> SubArray(input, p + 4, p + Len(P))], p + Len(P))
      BY <1>2, PacketReads, Zenon
    <3> QED BY <3>1, <3>2, Zenon
  <2>2. /\ p + 2 \in DOMAIN input /\ p + 2 + 1 \in DOMAIN input /\ p + 4 \in DOMAIN input
        /\ input[p + 2] = 0 /\ input[p + 2 + 1] = i /\ input[p + 4] = r
    <3>1. /\ 3 \in 1 .. Len(P) /\ 4 \in 1 .. Len(P) /\ 5 \in 1 .. Len(P)
          /\ p + 3 - 1 = p + 2 /\ p + 4 - 1 = p + 2 + 1 /\ p + 5 - 1 = p + 4
      BY <1>1
    <3>2. \A j \in 1 .. Len(P) : p + j - 1 \in DOMAIN input /\ input[p + j - 1] = P[j]
      BY <1>2, PacketStarts, Zenon
    <3> QED BY <3>1, <3>2, <1>1
  <2>3. readUint16(input, p + 2) = i
    <3>1. {p + 2, p + 2 + 1} \subseteq DOMAIN input
      BY <2>2
    <3> QED BY <3>1, <2>2 DEF readUint16
  <2>4. SubArray(input, p + 4, p + Len(P)) = <<r>>
    <3>1. DOMAIN input = 1 .. Len(input) /\ Len(input) \in Nat /\ input \in Seq(Nat)
      BY DEF Bytewise
    <3>2. (IF p + Len(P) - 1 <= Len(input) THEN p + Len(P) - 1 ELSE Len(input)) = p + 4
      BY <3>1, <2>2, <1>1
    <3>3. SubArray(input, p + 4, p + Len(P)) = SubSeq(input, p + 4, p + 4)
      BY <3>2 DEF SubArray
    <3>4. SubSeq(input, p + 4, p + 4) = <<input[p + 4]>>
      <4> DEFINE q == p + 4
      <4>1. q \in 1 .. Len(input)
        BY <2>2, <3>1
      <4>2. SubSeq(input, q, q) = <<input[q]>>
        <5> HIDE DEF q
        <5>1. q \in Nat \ {0} /\ q <= Len(input) /\ q + 1 - q = 1
          BY <4>1, <3>1
        <5>2. SubSeq(input, q, q) \in Seq(Nat) /\ Len(SubSeq(input, q, q)) = 1 /\ SubSeq(input, q, q)[1] = input[q]
          BY <5>1, <3>1
        <5>3. <<input[q]>> \in Seq(Nat) /\ Len(<<input[q]>>) = 1 /\ <<input[q]>>[1] = input[q]
          BY <4>1, <3>1
        <5>4. \A k \in 1 .. Len(SubSeq(input, q, q)) : SubSeq(input, q, q)[k] = <<input[q]>>[k]
          <6>1. \A k \in 1 .. 1 : k = 1
            OBVIOUS
          <6> QED BY <5>2, <5>3, <6>1
        <5> QED BY <5>2, <5>3, <5>4, SeqEqual
      <4> QED BY <4>2
    <3> QED BY <3>3, <3>4, <2>2
  <2> QED BY <2>1, <2>3, <2>4
<1> QED BY <1>1, <1>2, Zenon DEF Means

LEMMA PingrespPacket ==
  ASSUME NEW P, Packet(P), Len(P) = 2, P[1] \div 16 = 13, P[2] = 0
  PROVE  Means(P, [type |-> 13, id |-> NoId])
<1>1. Packet(P) /\ Len(P) = 2 /\ P[1] \div 16 = 13 /\ P[2] = 0
  OBVIOUS
<1>2. ASSUME NEW input \in Bytewise, NEW p \in Nat \ {0}, Stands(P, input, p)
      PROVE  decodeMessage(input, p) = Decoded([type |-> 13, id |-> NoId], p + Len(P))
  <2>1. 13 = P[1] \div 16
    BY <1>1
  <2>2. 13 \notin {2, 3, 4, 5, 6, 7, 9, 11}
    OBVIOUS
  <2>3. \A t : t = P[1] \div 16 /\ t \notin {2, 3, 4, 5, 6, 7, 9, 11} =>
          decodeMessage(input, p) = Decoded([type |-> t, id |-> NoId], p + Len(P))
    BY <1>2, PacketReads, Zenon
  <2> QED BY <2>1, <2>2, <2>3, Zenon
<1> QED BY <1>1, <1>2, Zenon DEF Means

(* A concatenation, element by element.                                    *)
LEMMA JoinIs ==
  ASSUME NEW s \in Bytewise, NEW t \in Bytewise, NEW r \in Bytewise,
         Len(r) = Len(s) + Len(t),
         \A i \in 1 .. Len(s) : r[i] = s[i],
         \A i \in 1 .. Len(t) : r[Len(s) + i] = t[i]
  PROVE  s \o t = r
<1>1. s \o t \in Seq(Nat) /\ r \in Seq(Nat) /\ Len(s) \in Nat /\ Len(t) \in Nat /\ Len(s \o t) = Len(r)
  BY DEF Bytewise
<1>2. ASSUME NEW i \in 1 .. Len(s \o t) PROVE (s \o t)[i] = r[i]
  <2>1. CASE i <= Len(s)
    BY <1>1, <2>1 DEF Bytewise
  <2>2. CASE i > Len(s)
    <3>1. i - Len(s) \in 1 .. Len(t) /\ Len(s) + (i - Len(s)) = i
      BY <1>1, <2>2
    <3>2. (s \o t)[i] = t[i - Len(s)]
      BY <1>1, <2>2 DEF Bytewise
    <3>3. r[Len(s) + (i - Len(s))] = t[i - Len(s)]
      BY <3>1
    <3> QED BY <3>1, <3>2, <3>3
  <2> QED BY <1>1, <2>1, <2>2
<1> QED BY <1>1, <1>2, SeqEqual

LEMMA JoinOf ==
  ASSUME NEW s \in Bytewise, NEW t \in Bytewise
  PROVE  /\ s \o t \in Bytewise /\ Len(s \o t) = Len(s) + Len(t)
         /\ \A i \in 1 .. Len(s) : (s \o t)[i] = s[i]
         /\ \A i \in 1 .. Len(t) : (s \o t)[Len(s) + i] = t[i]
<1>1. s \in Seq(Nat) /\ t \in Seq(Nat) /\ Len(s) \in Nat /\ Len(t) \in Nat
  BY DEF Bytewise
<1>2. s \o t \in Bytewise /\ Len(s \o t) = Len(s) + Len(t)
  BY <1>1 DEF Bytewise
<1>3. \A i \in 1 .. Len(s) : (s \o t)[i] = s[i]
  BY <1>1
<1>4. ASSUME NEW i \in 1 .. Len(t) PROVE (s \o t)[Len(s) + i] = t[i]
  <2>1. Len(s) + i \in 1 .. Len(s) + Len(t) /\ ~(Len(s) + i <= Len(s)) /\ Len(s) + i - Len(s) = i
    BY <1>1
  <2> QED BY <1>1, <2>1
<1> QED BY <1>2, <1>3, <1>4

(* The topic, written as UTF-8.                                            *)
LEMMA TopicIs ==
  /\ Len(Topic) = 2 /\ Topic[1] = 115 /\ Topic[2] = 233
  /\ ~IsLead(Topic[1]) /\ ~IsLead(Topic[2])
BY DEF Topic, IsLead

LEMMA TopicLength == UTF8Length(Topic) = 3
<1> DEFINE t == TableOf("length", Topic, 0, 1, Len(Topic) + 2)
<1>1. Forward("length", Topic, 0, 1, Len(Topic) + 2)
  <2>1. ASSUME NEW i \in 1 .. Len(Topic) + 2, i > Len(Topic), NEW v, NEW w
        PROVE  Reads("length", Topic, 0, i, v) = Reads("length", Topic, 0, i, w)
    BY <2>1, Zenon DEF Reads, ReadLength
  <2>2. ASSUME NEW i \in 1 .. Len(Topic) + 2, ~(i > Len(Topic))
        PROVE  Skips("length", Topic, i) \in i + 1 .. Len(Topic) + 2
    <3>1. i \in 1 .. 2 /\ ~IsLead(Topic[i])
      BY <2>2, TopicIs
    <3>2. Skips("length", Topic, i) = i + 1
      BY <3>1, Zenon DEF Skips
    <3> QED BY <3>1, <3>2, TopicIs
  <2> QED BY <2>1, <2>2, Zenon DEF Forward
<1>2. \A i \in 1 .. Len(Topic) + 2 : t[i] = Reads("length", Topic, 0, i, t[Skips("length", Topic, i)])
  <2>1. 1 \in Int /\ Len(Topic) + 2 \in Int /\ 1 <= Len(Topic) + 2 + 1
    BY TopicIs
  <2> QED BY <1>1, <2>1, TableIs
<1> HIDE DEF t
<1>3. \A i \in 1 .. 4 : t[i] = ReadLength(Topic, i, t[Skips("length", Topic, i)])
  <2>1. \A i, v : Reads("length", Topic, 0, i, v) = ReadLength(Topic, i, v)
    BY Zenon DEF Reads
  <2>2. Len(Topic) + 2 = 4
    BY TopicIs
  <2> QED BY <1>2, <2>1, <2>2
<1>4. t[3] = 0
  <2>1. 3 > Len(Topic) /\ 3 \in 1 .. 4
    BY TopicIs
  <2>2. t[3] = ReadLength(Topic, 3, t[Skips("length", Topic, 3)])
    BY <1>3, <2>1
  <2> QED BY <2>1, <2>2 DEF ReadLength
<1>5. t[2] = 2
  <2>1. Skips("length", Topic, 2) = 3
    <3>1. Skips("length", Topic, 2) = 2 + 1
      BY TopicIs, Zenon DEF Skips
    <3> QED BY <3>1
  <2>2. t[2] = ReadLength(Topic, 2, t[3])
    BY <2>1, <1>3
  <2> QED BY <2>2, <1>4, TopicIs DEF ReadLength
<1>6. t[1] = 3
  <2>1. Skips("length", Topic, 1) = 2
    <3>1. Skips("length", Topic, 1) = 1 + 1
      BY TopicIs, Zenon DEF Skips
    <3> QED BY <3>1
  <2>2. t[1] = ReadLength(Topic, 1, t[2])
    BY <2>1, <1>3
  <2> QED BY <2>2, <1>5, TopicIs DEF ReadLength
<1> QED BY <1>6, LengthTable DEF t

LEMMA TopicBytes == stringToUTF8(Topic) = <<115, 195, 169>>
<1> DEFINE t == TableOf("units", Topic, 0, 1, Len(Topic) + 1)
<1>1. Forward("units", Topic, 0, 1, Len(Topic) + 1)
  <2>1. ASSUME NEW i \in 1 .. Len(Topic) + 1, i > Len(Topic), NEW v, NEW w
        PROVE  Reads("units", Topic, 0, i, v) = Reads("units", Topic, 0, i, w)
    BY <2>1, Zenon DEF Reads, ReadUnit
  <2>2. ASSUME NEW i \in 1 .. Len(Topic) + 1, ~(i > Len(Topic))
        PROVE  Skips("units", Topic, i) \in i + 1 .. Len(Topic) + 1
    <3>1. i \in 1 .. 2 /\ ~IsLead(Topic[i])
      BY <2>2, TopicIs
    <3>2. Skips("units", Topic, i) = i + 1
      BY <3>1, Zenon DEF Skips
    <3> QED BY <3>1, <3>2, TopicIs
  <2> QED BY <2>1, <2>2, Zenon DEF Forward
<1>2. \A i \in 1 .. Len(Topic) + 1 : t[i] = Reads("units", Topic, 0, i, t[Skips("units", Topic, i)])
  <2>1. 1 \in Int /\ Len(Topic) + 1 \in Int /\ 1 <= Len(Topic) + 1 + 1
    BY TopicIs
  <2> QED BY <1>1, <2>1, TableIs
<1> HIDE DEF t
<1>3. \A i \in 1 .. 3 : t[i] = ReadUnit(Topic, i, t[Skips("units", Topic, i)])
  <2>1. \A i, v : Reads("units", Topic, 0, i, v) = ReadUnit(Topic, i, v)
    BY Zenon DEF Reads
  <2>2. Len(Topic) + 1 = 3
    BY TopicIs
  <2> QED BY <1>2, <2>1, <2>2
<1>4. t[3] = <<>>
  <2>1. 3 > Len(Topic) /\ 3 \in 1 .. 3
    BY TopicIs
  <2> QED BY <1>3, <2>1, Zenon DEF ReadUnit
<1>5. t[2] = BytesOf(Topic[2]) \o t[3]
  <2>1. Skips("units", Topic, 2) = 3
    <3>1. Skips("units", Topic, 2) = 2 + 1
      BY TopicIs, Zenon DEF Skips
    <3> QED BY <3>1
  <2>2. t[2] = ReadUnit(Topic, 2, t[3]) /\ ~(2 > Len(Topic))
    BY <2>1, <1>3, TopicIs
  <2> QED BY <2>2, TopicIs, Zenon DEF ReadUnit
<1>6. t[1] = BytesOf(Topic[1]) \o t[2]
  <2>1. Skips("units", Topic, 1) = 2
    <3>1. Skips("units", Topic, 1) = 1 + 1
      BY TopicIs, Zenon DEF Skips
    <3> QED BY <3>1
  <2>2. t[1] = ReadUnit(Topic, 1, t[2]) /\ ~(1 > Len(Topic))
    BY <2>1, <1>3, TopicIs
  <2> QED BY <2>2, TopicIs, Zenon DEF ReadUnit
<1>7. BytesOf(Topic[2]) = <<195, 169>>
  BY TopicIs DEF BytesOf
<1>8. BytesOf(Topic[1]) = <<115>>
  BY TopicIs DEF BytesOf
<1>9. t[2] = <<195, 169>>
  <2>1. <<195, 169>> \o <<>> = <<195, 169>>
    BY <<195, 169>> \in Seq(Nat)
  <2> QED BY <2>1, <1>4, <1>5, <1>7
<1>10. <<115>> \o <<195, 169>> = <<115, 195, 169>>
  <2> DEFINE s == <<115>>
             u == <<195, 169>>
             r == <<115, 195, 169>>
  <2>1. s \in Bytewise /\ u \in Bytewise /\ r \in Bytewise /\ Len(s) = 1 /\ Len(u) = 2 /\ Len(r) = 3
    BY DEF Bytewise
  <2>2. s[1] = r[1] /\ u[1] = r[2] /\ u[2] = r[3]
    OBVIOUS
  <2> HIDE DEF s, u, r
  <2>3. \A i \in 1 .. Len(s) : r[i] = s[i]
    <3>1. \A i \in 1 .. Len(s) : i = 1
      BY <2>1
    <3> QED BY <3>1, <2>2
  <2>4. \A i \in 1 .. Len(u) : r[Len(s) + i] = u[i]
    <3>1. \A i \in 1 .. Len(u) : i = 1 \/ i = 2
      BY <2>1
    <3>2. Len(s) + 1 = 2 /\ Len(s) + 2 = 3
      BY <2>1
    <3> QED BY <3>1, <3>2, <2>2
  <2>5. Len(r) = Len(s) + Len(u)
    BY <2>1
  <2>6. s \o u = r
    BY <2>1, <2>3, <2>4, <2>5, JoinIs
  <2> QED BY <2>6 DEF s, u, r
<1> QED BY <1>6, <1>8, <1>9, <1>10, UnitsTable, Zenon DEF t

LEMMA TopicString ==
  /\ writeString(Topic) \in Bytewise /\ Len(writeString(Topic)) = 5
  /\ writeString(Topic)[1] = 0 /\ writeString(Topic)[2] = 3
  /\ writeString(Topic)[3] = 115 /\ writeString(Topic)[4] = 195 /\ writeString(Topic)[5] = 169
<1> DEFINE u == stringToUTF8(Topic)
           h == writeUint16(3)
           t == [k \in 1 .. 3 |-> IF k <= Len(u) THEN u[k] ELSE 0]
<1>1. writeString(Topic) = h \o t
  BY TopicLength, Zenon DEF writeString
<1>2. h = <<0, 3>>
  BY DEF writeUint16
<1>3. Len(u) = 3 /\ u[1] = 115 /\ u[2] = 195 /\ u[3] = 169
  BY TopicBytes
<1>4. t[1] = 115 /\ t[2] = 195 /\ t[3] = 169 /\ t \in Bytewise /\ Len(t) = 3
  <2> HIDE DEF u
  <2>1. t[1] = 115 /\ t[2] = 195 /\ t[3] = 169
    BY <1>3
  <2>2. \A k \in 1 .. 3 : t[k] \in Nat
    <3>1. \A k \in 1 .. 3 : k = 1 \/ k = 2 \/ k = 3
      OBVIOUS
    <3> HIDE DEF t
    <3> QED BY <2>1, <3>1
  <2>3. t \in [1 .. 3 -> Nat]
    <3>1. t = [k \in 1 .. 3 |-> t[k]]
      BY Zenon
    <3> HIDE DEF t
    <3> QED BY <3>1, <2>2
  <2> HIDE DEF t
  <2>4. t \in Bytewise /\ Len(t) = 3
    <3>1. t \in Seq(Nat)
      BY <2>3, SeqDef
    <3>2. Len(t) = 3
      BY <2>3
    <3> QED BY <3>1, <3>2 DEF Bytewise
  <2> QED BY <2>1, <2>4
<1> HIDE DEF u, t, h
<1>5. h \in Bytewise /\ Len(h) = 2 /\ h[1] = 0 /\ h[2] = 3
  BY <1>2 DEF Bytewise
<1>6. /\ h \o t \in Bytewise /\ Len(h \o t) = Len(h) + Len(t)
      /\ \A i \in 1 .. Len(h) : (h \o t)[i] = h[i]
      /\ \A i \in 1 .. Len(t) : (h \o t)[Len(h) + i] = t[i]
  <2>1. h \in Bytewise /\ t \in Bytewise
    BY <1>4, <1>5
  <2> QED BY <2>1, JoinOf, Zenon
<1>7. (h \o t)[1] = 0 /\ (h \o t)[2] = 3
  BY <1>5, <1>6
<1>8. (h \o t)[3] = 115 /\ (h \o t)[4] = 195 /\ (h \o t)[5] = 169
  <2>1. Len(h) + 1 = 3 /\ Len(h) + 2 = 4 /\ Len(h) + 3 = 5 /\ 1 \in 1 .. Len(t) /\ 2 \in 1 .. Len(t) /\ 3 \in 1 .. Len(t)
    BY <1>4, <1>5
  <2> QED BY <2>1, <1>4, <1>6
<1> QED BY <1>1, <1>4, <1>5, <1>6, <1>7, <1>8

(* A short remaining length is one byte.                                   *)
LEMMA ShortLength ==
  ASSUME NEW n \in 0 .. 127
  PROVE  encodeMBI(n) = <<n>>
<1> DEFINE more(k) == n \div (128 ^ k) > 0
           size == IF ~more(1) THEN 1 ELSE IF ~more(2) THEN 2 ELSE IF ~more(3) THEN 3 ELSE 4
           t == [k \in 1 .. size |-> ((n \div (128 ^ (k - 1))) % 128) + IF more(k) THEN 128 ELSE 0]
<1>1. encodeMBI(n) = t
  BY Zenon DEF encodeMBI
<1>2. ~more(1)
  BY 128 ^ 1 = 128
<1>3. size = 1
  BY <1>2, Zenon
<1>4. t = [k \in 1 .. 1 |-> t[k]]
  BY <1>3, Zenon
<1>5. t[1] = n
  <2>1. t[1] = ((n \div (128 ^ (1 - 1))) % 128) + IF more(1) THEN 128 ELSE 0
    <3>1. 1 \in 1 .. size
      BY <1>3
    <3> HIDE DEF size
    <3> QED BY <3>1, Zenon
  <2>2. 128 ^ (1 - 1) = 1
    BY 128 ^ 0 = 1
  <2>3. (n \div (128 ^ (1 - 1))) % 128 = n
    BY <2>2
  <2> HIDE DEF t, more
  <2> QED BY <2>1, <2>3, <1>2
<1> HIDE DEF t
<1> QED BY <1>1, <1>4, <1>5

(* A PUBLISH as either side writes it.                                     *)
PublishPlaces(P, id, qos, dup, n) ==
  LET w == IF qos = 0 THEN 0 ELSE 2
  IN  /\ Packet(P) /\ Len(P) = 8 + w
      /\ P[1] = 48 + Bit(dup, 8) + 2 * qos /\ P[2] = 6 + w /\ P[3] = 0 /\ P[4] = 3
      /\ P[5] = 115 /\ P[6] = 195 /\ P[7] = 169 /\ P[8 + w] = n
      /\ qos # 0 => P[8] = (id \div 256) % 256 /\ P[9] = id % 256

LEMMA PublishBytes ==
  ASSUME NEW id \in Nat, NEW qos \in 0 .. 2, NEW dup \in BOOLEAN, NEW n \in Nat,
         id = NoId <=> qos = 0
  PROVE  PublishPlaces(encode(Publish(id, qos, dup, FALSE, Topic, <<n>>)), id, qos, dup, n)
<1> DEFINE m == Publish(id, qos, dup, FALSE, Topic, <<n>>)
           w == IF qos = 0 THEN 0 ELSE 2
           F == <<FirstByte(m)>>
           N == encodeMBI(RemainingLength(m))
           V == VariableHeader(m)
           I == IF m.id # NoId THEN writeUint16(m.id) ELSE <<>>
           Y == Payload(m)
           P == encode(m)
<1>1. P = F \o N \o V \o I \o Y
  BY Zenon DEF encode
<1>2. /\ m.type = 3 /\ m.id = id /\ m.qos = qos /\ m.duplicate = dup /\ m.retained = FALSE
      /\ m.destinationName = Topic /\ m.payload = <<n>>
  BY Codes DEF Publish
<1> HIDE DEF m, P
<1>3. FirstByte(m) = 48 + Bit(dup, 8) + 2 * qos
  <2>1. 16 * (3 % 16) = 48
    OBVIOUS
  <2>2. Bit(3 \in {8, 10, 6}, 2) = 0 /\ Bit(FALSE, 1) = 0
    BY DEF Bit
  <2>3. Bit(dup, 8) \in Nat
    BY DEF Bit
  <2>4. FirstByte(m) = 16 * (3 % 16) + Bit(3 \in {8, 10, 6}, 2) + (Bit(dup, 8) + 2 * qos + Bit(FALSE, 1))
    BY <1>2, Codes DEF FirstByte
  <2>5. FirstByte(m) = 48 + 0 + (Bit(dup, 8) + 2 * qos + 0)
    BY <2>1, <2>2, <2>4
  <2>6. 2 * qos \in Nat
    OBVIOUS
  <2> HIDE DEF m
  <2> QED BY <2>3, <2>5, <2>6
<1>4. RemainingLength(m) = 6 + w
  <2>1. RemainingLength(m) = Bit(m.id # NoId, 2) + (UTF8Length(m.destinationName) + 2 + Len(m.payload))
    BY <1>2, Codes DEF RemainingLength
  <2>2. Bit(m.id # NoId, 2) = w
    BY <1>2 DEF Bit, NoId
  <2>3. Len(m.payload) = 1
    BY <1>2
  <2> QED BY <2>1, <2>2, <2>3, <1>2, TopicLength
<1>5. N = <<6 + w>>
  <2>1. 6 + w \in 0 .. 127
    OBVIOUS
  <2> QED BY <2>1, <1>4, ShortLength
<1>6. V = writeString(Topic)
  BY <1>2, Codes DEF VariableHeader
<1>7. Y = <<n>>
  <2>1. m.type = 3 /\ m.payload = <<n>>
    BY <1>2
  <2> HIDE DEF m
  <2>2. Payload(m) = m.payload
    <3> DEFINE connect == writeString(m.clientId)
                 \o (IF m.willMessage.has
                     THEN writeString(m.willMessage.destinationName)
                          \o writeUint16(Len(m.willMessage.payload))
                          \o m.willMessage.payload ELSE <<>>)
                 \o (IF m.userName.has THEN writeString(m.userName.text) ELSE <<>>)
                 \o (IF m.password.has THEN writeString(m.password.text) ELSE <<>>)
               subscribe == FlattenSeq([i \in DOMAIN m.topics |->
                              writeString(m.topics[i]) \o <<m.requestedQos[i]>>])
               unsubscribe == FlattenSeq([i \in DOMAIN m.topics |-> writeString(m.topics[i])])
    <3>1. Payload(m) =
            CASE m.type = Code("CONNECT") -> connect [] m.type = Code("PUBLISH") -> m.payload
              [] m.type = Code("SUBSCRIBE") -> subscribe [] m.type = Code("UNSUBSCRIBE") -> unsubscribe
              [] OTHER -> <<>>
      BY Zenon DEF Payload
    <3> HIDE DEF connect, subscribe, unsubscribe
    <3> QED BY <3>1, <2>1, Codes
  <2> QED BY <2>1, <2>2
<1>8. I = IF qos = 0 THEN <<>> ELSE <<(id \div 256) % 256, id % 256>>
  BY <1>2 DEF writeUint16
<1>9. F \in Bytewise /\ Len(F) = 1 /\ F[1] = 48 + Bit(dup, 8) + 2 * qos
  BY <1>3 DEF Bytewise, Bit
<1>10. N \in Bytewise /\ Len(N) = 1 /\ N[1] = 6 + w
  BY <1>5 DEF Bytewise
<1>11. Y \in Bytewise /\ Len(Y) = 1 /\ Y[1] = n
  BY <1>7 DEF Bytewise
<1>12. /\ I \in Bytewise /\ Len(I) = w
       /\ qos # 0 => I[1] = (id \div 256) % 256 /\ I[2] = id % 256
  <2>1. CASE qos = 0
    <3>1. I = <<>> /\ w = 0
      BY <1>8, <2>1
    <3> HIDE DEF I, w
    <3> QED BY <2>1, <3>1 DEF Bytewise
  <2>2. CASE qos # 0
    <3>1. (id \div 256) % 256 \in Nat /\ id % 256 \in Nat
      OBVIOUS
    <3>2. I = <<(id \div 256) % 256, id % 256>> /\ w = 2
      BY <1>8, <2>2
    <3> HIDE DEF I, w
    <3> QED BY <3>1, <3>2 DEF Bytewise
  <2> QED BY <2>1, <2>2
<1>13. /\ V \in Bytewise /\ Len(V) = 5 /\ V[1] = 0 /\ V[2] = 3 /\ V[3] = 115 /\ V[4] = 195 /\ V[5] = 169
  <2> HIDE DEF V
  <2> QED BY <1>6, TopicString
<1>14. w \in {0, 2}
  OBVIOUS
<1> HIDE DEF F, N, V, I, Y, w
<1> DEFINE A == F \o N
           B == A \o V
           D == B \o I
<1>20. A \in Bytewise /\ Len(A) = 2 /\ A[1] = F[1] /\ A[2] = N[1]
  <2>1. /\ F \o N \in Bytewise /\ Len(F \o N) = Len(F) + Len(N)
        /\ \A i \in 1 .. Len(F) : (F \o N)[i] = F[i]
        /\ \A i \in 1 .. Len(N) : (F \o N)[Len(F) + i] = N[i]
    BY <1>9, <1>10, JoinOf
  <2>2. Len(F) + 1 = 2 /\ 1 \in 1 .. Len(N) /\ 1 \in 1 .. Len(F)
    BY <1>9, <1>10
  <2> QED BY <2>1, <2>2, <1>9, <1>10
<1> HIDE DEF A
<1>21. /\ B \in Bytewise /\ Len(B) = 7 /\ B[1] = F[1] /\ B[2] = N[1] /\ B[3] = V[1] /\ B[4] = V[2]
       /\ B[5] = V[3] /\ B[6] = V[4] /\ B[7] = V[5]
  <2>1. /\ A \o V \in Bytewise /\ Len(A \o V) = Len(A) + Len(V)
        /\ \A i \in 1 .. Len(A) : (A \o V)[i] = A[i]
        /\ \A i \in 1 .. Len(V) : (A \o V)[Len(A) + i] = V[i]
    <3>1. A \in Bytewise /\ V \in Bytewise
      BY <1>20, <1>13
    <3> QED BY <3>1, JoinOf, Zenon
  <2>2. Len(A) = 2 /\ Len(V) = 5
    BY <1>20, <1>13
  <2>4. /\ (A \o V)[3] = V[1] /\ (A \o V)[4] = V[2] /\ (A \o V)[5] = V[3]
        /\ (A \o V)[6] = V[4] /\ (A \o V)[7] = V[5]
    <3> DEFINE J == A \o V
    <3>1. \A i \in 1 .. 5 : J[2 + i] = V[i]
      BY <2>1, <2>2
    <3> HIDE DEF J
    <3>2. J[2 + 1] = V[1] /\ J[2 + 2] = V[2] /\ J[2 + 3] = V[3] /\ J[2 + 4] = V[4] /\ J[2 + 5] = V[5]
      BY <3>1
    <3>3. J[3] = V[1] /\ J[4] = V[2] /\ J[5] = V[3] /\ J[6] = V[4] /\ J[7] = V[5]
      BY <3>2
    <3> QED BY <3>3 DEF J
  <2>5. (A \o V)[1] = A[1] /\ (A \o V)[2] = A[2]
    BY <2>1, <2>2
  <2> QED BY <2>1, <2>2, <2>4, <2>5, <1>20
<1> HIDE DEF B
<1>22. /\ D \in Bytewise /\ Len(D) = 7 + w /\ \A i \in 1 .. 7 : D[i] = B[i]
       /\ \A i \in 1 .. w : D[7 + i] = I[i]
  <2>1. /\ B \o I \in Bytewise /\ Len(B \o I) = Len(B) + Len(I)
        /\ \A i \in 1 .. Len(B) : (B \o I)[i] = B[i]
        /\ \A i \in 1 .. Len(I) : (B \o I)[Len(B) + i] = I[i]
    BY <1>21, <1>12, JoinOf
  <2>2. Len(B) = 7 /\ Len(I) = w
    BY <1>21, <1>12
  <2> QED BY <2>1, <2>2
<1> HIDE DEF D
<1>23. /\ P \in Bytewise /\ Len(P) = 8 + w /\ (\A i \in 1 .. 7 + w : P[i] = D[i]) /\ P[8 + w] = n
  <2>1. /\ D \o Y \in Bytewise /\ Len(D \o Y) = Len(D) + Len(Y)
        /\ \A i \in 1 .. Len(D) : (D \o Y)[i] = D[i]
        /\ \A i \in 1 .. Len(Y) : (D \o Y)[Len(D) + i] = Y[i]
    BY <1>22, <1>11, JoinOf
  <2>2. P = D \o Y
    BY <1>1, Zenon DEF A, B, D
  <2>3. Len(D) = 7 + w /\ Len(Y) = 1 /\ 7 + w + 1 = 8 + w
    BY <1>22, <1>11, <1>14
  <2>4. (D \o Y)[7 + w + 1] = Y[1]
    BY <2>1, <2>3
  <2> QED BY <2>1, <2>2, <2>3, <2>4, <1>11
<1>24. \A i \in 1 .. 7 : P[i] = B[i]
  <2>1. \A i \in 1 .. 7 : i \in 1 .. 7 + w
    BY <1>14
  <2> QED BY <2>1, <1>22, <1>23
<1>25. /\ P[1] = 48 + Bit(dup, 8) + 2 * qos /\ P[2] = 6 + w /\ P[3] = 0 /\ P[4] = 3
       /\ P[5] = 115 /\ P[6] = 195 /\ P[7] = 169
  <2>1. P[1] = B[1] /\ P[2] = B[2] /\ P[3] = B[3] /\ P[4] = B[4] /\ P[5] = B[5] /\ P[6] = B[6] /\ P[7] = B[7]
    BY <1>24
  <2> QED BY <2>1, <1>21, <1>9, <1>10, <1>13
<1>26. ASSUME qos # 0 PROVE P[8] = (id \div 256) % 256 /\ P[9] = id % 256
  <2>1. w = 2
    BY <1>26 DEF w
  <2>2. P[8] = D[8] /\ P[9] = D[9]
    BY <2>1, <1>23
  <2>3. D[7 + 1] = I[1] /\ D[7 + 2] = I[2]
    BY <2>1, <1>22
  <2> QED BY <2>2, <2>3, <1>12, <1>26
<1>27. Packet(P)
  BY <1>14, <1>23, <1>25 DEF Packet
<1>28. PublishPlaces(P, id, qos, dup, n)
  BY <1>23, <1>25, <1>26, <1>27 DEF w, PublishPlaces
<1> QED BY <1>28, Zenon DEF P, m

(* Characters of one and two bytes.                                        *)
LEMMA OneByte ==
  ASSUME NEW input \in Bytewise, NEW i \in 1 .. Len(input), input[i] = 115
  PROVE  CharSize(input[i]) = 1 /\ CharIsWhole(input, i) /\ UnitsOf(CharAt(input, i)) = <<115>>
<1>0. DOMAIN input = 1 .. Len(input) /\ CharSize(input[i]) = 1
  BY DEF Bytewise, CharSize
<1>1. CharIsWhole(input, i)
  BY <1>0 DEF CharIsWhole
<1>2. CharAt(input, i) = 115
  BY <1>0 DEF CharAt
<1> QED BY <1>0, <1>1, <1>2 DEF UnitsOf

LEMMA TwoBytes ==
  ASSUME NEW input \in Bytewise, NEW i \in 1 .. Len(input), i + 1 <= Len(input),
         input[i] = 195, input[i + 1] = 169
  PROVE  CharSize(input[i]) = 2 /\ CharIsWhole(input, i) /\ UnitsOf(CharAt(input, i)) = <<233>>
<1>0. DOMAIN input = 1 .. Len(input) /\ CharSize(input[i]) = 2
  BY DEF Bytewise, CharSize
<1>1. CharIsWhole(input, i)
  <2>1. \A k \in 1 .. CharSize(input[i]) - 1 : i + k \in DOMAIN input /\ input[i + k] >= 128
    <3>1. \A k \in 1 .. CharSize(input[i]) - 1 : k = 1
      BY <1>0
    <3>2. i + 1 \in DOMAIN input
      BY <1>0
    <3> QED BY <3>1, <3>2
  <2> QED BY <2>1, <1>0 DEF CharIsWhole
<1>2. CharAt(input, i) = 233
  BY <1>0 DEF CharAt
<1> QED BY <1>0, <1>1, <1>2 DEF UnitsOf

LEMMA TextForward ==
  ASSUME NEW input \in Bytewise, NEW to
  PROVE  Forward("text", input, to, 1, Len(input) + 4)
<1>0. Len(input) \in Nat /\ DOMAIN input = 1 .. Len(input)
  BY DEF Bytewise
<1>1. ASSUME NEW i \in 1 .. Len(input) + 4
      PROVE  \/ Skips("text", input, i) \in i + 1 .. Len(input) + 4
             \/ \A v, w : Reads("text", input, to, i, v) = Reads("text", input, to, i, w)
  <2>1. \A v : Reads("text", input, to, i, v) = ReadChar(input, to, i, v)
    BY Zenon DEF Reads
  <2>2. CASE i >= to
    BY <2>1, <2>2, Zenon DEF ReadChar
  <2>3. CASE ~(i >= to) /\ CharIsWhole(input, i)
    <3>1. i \in DOMAIN input /\ CharSize(input[i]) > 0
      BY <2>3, Zenon DEF CharIsWhole
    <3>2. CharSize(input[i]) \in 0 .. 4
      BY DEF CharSize
    <3>3. Skips("text", input, i) = i + CharSize(input[i])
      BY Zenon DEF Skips
    <3> QED BY <3>1, <3>2, <3>3, <1>0
  <2>4. CASE ~(i >= to) /\ ~CharIsWhole(input, i)
    BY <2>1, <2>4, Zenon DEF ReadChar
  <2> QED BY <2>2, <2>3, <2>4, Zenon
<1> QED BY <1>1, Zenon DEF Forward

LEMMA TextRows ==
  ASSUME NEW input \in Bytewise, NEW to, NEW t, t = TableOf("text", input, to, 1, Len(input) + 4)
  PROVE  \A j \in 1 .. Len(input) + 4 : t[j] = ReadChar(input, to, j, t[j + CharSize(input[j])])
<1>0. Len(input) \in Nat
  BY DEF Bytewise
<1>1. \A j \in 1 .. Len(input) + 4 : t[j] = Reads("text", input, to, j, t[Skips("text", input, j)])
  <2>1. 1 \in Int /\ Len(input) + 4 \in Int /\ 1 <= Len(input) + 4 + 1
    BY <1>0
  <2> QED BY <2>1, TextForward, TableIs
<1>2. \A j, v : Reads("text", input, to, j, v) = ReadChar(input, to, j, v)
  BY Zenon DEF Reads
<1>3. \A j : Skips("text", input, j) = j + CharSize(input[j])
  BY Zenon DEF Skips
<1> QED BY <1>1, <1>2, <1>3, Zenon

LEMMA TopicJoin == <<115>> \o <<233>> = Topic
<1> DEFINE s == <<115>>
           u == <<233>>
           r == Topic
<1>1. s \in Bytewise /\ u \in Bytewise /\ r \in Bytewise /\ Len(s) = 1 /\ Len(u) = 1 /\ Len(r) = 2
  BY DEF Bytewise, Topic
<1>2. s[1] = r[1] /\ u[1] = r[2]
  BY DEF Topic
<1> HIDE DEF s, u, r
<1>3. \A k \in 1 .. Len(s) : r[k] = s[k]
  <2>1. \A k \in 1 .. Len(s) : k = 1
    BY <1>1
  <2> QED BY <2>1, <1>2
<1>4. \A k \in 1 .. Len(u) : r[Len(s) + k] = u[k]
  <2>1. \A k \in 1 .. Len(u) : k = 1
    BY <1>1
  <2>2. Len(s) + 1 = 2
    BY <1>1
  <2> QED BY <2>1, <2>2, <1>2
<1>5. Len(r) = Len(s) + Len(u)
  BY <1>1
<1>6. s \o u = r
  BY <1>1, <1>3, <1>4, <1>5, JoinIs
<1> QED BY <1>6 DEF s, u, r

(* The topic's bytes are read as the topic wherever they stand.            *)
LEMMA TopicRead ==
  ASSUME NEW input \in Bytewise, NEW i \in Nat \ {0}, i + 2 <= Len(input),
         input[i] = 115, input[i + 1] = 195, input[i + 2] = 169
  PROVE  parseUTF8(input, i, 3) = [ok |-> TRUE, units |-> Topic]
<1> DEFINE t == TableOf("text", input, i + 3, 1, Len(input) + 4)
<1>0. Len(input) \in Nat /\ i + 1 \in 1 .. Len(input) /\ i \in 1 .. Len(input)
  BY DEF Bytewise
<1>2. \A j \in 1 .. Len(input) + 4 : t[j] = ReadChar(input, i + 3, j, t[j + CharSize(input[j])])
  BY TextRows
<1> HIDE DEF t
<1>3. t[i + 3] = [ok |-> TRUE, units |-> <<>>]
  <2>1. i + 3 \in 1 .. Len(input) + 4 /\ i + 3 >= i + 3
    BY <1>0
  <2> QED BY <1>2, <2>1, Zenon DEF ReadChar
<1>4. t[i + 1] = [ok |-> TRUE, units |-> <<233>>]
  <2>1. CharSize(input[i + 1]) = 2 /\ CharIsWhole(input, i + 1) /\ UnitsOf(CharAt(input, i + 1)) = <<233>>
    <3>1. i + 1 + 1 = i + 2
      BY <1>0
    <3> QED BY <1>0, <3>1, TwoBytes
  <2>2. i + 1 \in 1 .. Len(input) + 4 /\ ~(i + 1 >= i + 3) /\ i + 1 + CharSize(input[i + 1]) = i + 3
    BY <1>0, <2>1
  <2>3. t[i + 1] = ReadChar(input, i + 3, i + 1, [ok |-> TRUE, units |-> <<>>])
    BY <1>2, <1>3, <2>2
  <2>4. [ok |-> TRUE, units |-> <<>>].ok = TRUE /\ [ok |-> TRUE, units |-> <<>>].units = <<>>
    OBVIOUS
  <2>5. t[i + 1] = [ok |-> TRUE, units |-> <<233>> \o <<>>]
    BY <2>1, <2>2, <2>3, <2>4, Zenon DEF ReadChar
  <2>6. <<233>> \o <<>> = <<233>>
    BY <<233>> \in Seq(Nat)
  <2> QED BY <2>5, <2>6
<1>5. t[i] = [ok |-> TRUE, units |-> <<115>> \o <<233>>]
  <2>1. CharSize(input[i]) = 1 /\ CharIsWhole(input, i) /\ UnitsOf(CharAt(input, i)) = <<115>>
    BY <1>0, OneByte
  <2>2. i \in 1 .. Len(input) + 4 /\ ~(i >= i + 3) /\ i + CharSize(input[i]) = i + 1
    BY <1>0, <2>1
  <2>3. t[i] = ReadChar(input, i + 3, i, [ok |-> TRUE, units |-> <<233>>])
    BY <1>2, <1>4, <2>2
  <2>4. [ok |-> TRUE, units |-> <<233>>].ok = TRUE /\ [ok |-> TRUE, units |-> <<233>>].units = <<233>>
    OBVIOUS
  <2> DEFINE u == <<233>>
  <2> HIDE DEF u
  <2>5. t[i] = [ok |-> TRUE, units |-> UnitsOf(CharAt(input, i)) \o u]
    <3>1. t[i] = ReadChar(input, i + 3, i, [ok |-> TRUE, units |-> u])
      BY <2>3 DEF u
    <3>2. [ok |-> TRUE, units |-> u].ok = TRUE /\ [ok |-> TRUE, units |-> u].units = u
      OBVIOUS
    <3> QED BY <2>1, <2>2, <3>1, <3>2, Zenon DEF ReadChar
  <2> QED BY <2>5, <2>1 DEF u
<1> QED BY <1>5, TopicJoin, TextTable DEF t

(* What is left of an identifier on the wire.                              *)
Short(id) == 256 * ((id \div 256) % 256) + (id % 256)

LEMMA ShortNat ==
  ASSUME NEW id \in Nat
  PROVE  Short(id) \in Nat
<1> DEFINE q == id \div 256
           h == q % 256
           l == id % 256
<1>1. q \in Nat /\ l \in Nat
  OBVIOUS
<1>2. h \in Nat
  <2> HIDE DEF q
  <2> QED BY <1>1
<1>3. Short(id) = 256 * h + l
  BY DEF Short
<1> HIDE DEF h, l
<1> QED BY <1>1, <1>2, <1>3

LEMMA SmallRest ==
  ASSUME NEW q \in 0 .. 255
  PROVE  q % 256 = q
OBVIOUS

LEMMA ShortOf ==
  ASSUME NEW id \in Nat, NEW y, y = id \div 256, y \in 0 .. 255
  PROVE  Short(id) = id
<1>1. id = 256 * y + (id % 256)
  OBVIOUS
<1>2. y % 256 = y
  BY SmallRest
<1> QED BY <1>1, <1>2 DEF Short

LEMMA ShortIs ==
  ASSUME NEW id \in Identifiers
  PROVE  Short(id) = id
<1> DEFINE y == id \div 256
           l == id % 256
<1>0. id \in 0 .. 65535
  BY DEF Identifiers
<1>3. id \in Nat
  BY <1>0
<1>1. y \in Nat /\ l \in 0 .. 255 /\ id = 256 * y + l
  BY <1>3
<1> HIDE DEF y, l
<1>2. y \in 0 .. 255
  BY <1>0, <1>1
<1>4. y = id \div 256
  BY DEF y
<1> QED BY <1>2, <1>3, <1>4, ShortOf

(* A PUBLISH is read as it was written, but for an identifier of more than *)
(* sixteen bits.                                                           *)
LEMMA PublishPacket ==
  ASSUME NEW id \in Nat, NEW qos \in 0 .. 2, NEW dup \in BOOLEAN, NEW n \in Nat,
         id = NoId <=> qos = 0
  PROVE  LET P == encode(Publish(id, qos, dup, FALSE, Topic, <<n>>))
         IN Packet(P) /\ Means(P, Publish(Short(id), qos, dup, FALSE, Topic, <<n>>))
<1> DEFINE P == encode(Publish(id, qos, dup, FALSE, Topic, <<n>>))
           w == IF qos = 0 THEN 0 ELSE 2
           M == Publish(Short(id), qos, dup, FALSE, Topic, <<n>>)
<1>1. /\ Packet(P) /\ Len(P) = 8 + w
      /\ P[1] = 48 + Bit(dup, 8) + 2 * qos /\ P[2] = 6 + w /\ P[3] = 0 /\ P[4] = 3
      /\ P[5] = 115 /\ P[6] = 195 /\ P[7] = 169 /\ P[8 + w] = n
      /\ qos # 0 => P[8] = (id \div 256) % 256 /\ P[9] = id % 256
  <2>1. PublishPlaces(P, id, qos, dup, n)
    BY PublishBytes, Zenon
  <2> HIDE DEF P
  <2> QED BY <2>1 DEF PublishPlaces
<1> HIDE DEF P
<1>2. w \in {0, 2}
  OBVIOUS
<1>3. P[1] \div 16 = 3 /\ ((P[1] % 16) \div 2) % 4 = qos /\ ((P[1] % 16) \div 8) % 2 = (IF dup THEN 1 ELSE 0)
      /\ (P[1] % 16) % 2 = 0
  BY <1>1 DEF Bit
<1>4. ASSUME NEW input \in Bytewise, NEW p \in Nat \ {0}, Stands(P, input, p)
      PROVE  decodeMessage(input, p) = Decoded(M, p + Len(P))
  <2> HIDE DEF w
  <2>0. Packet(P)
    BY <1>1
  <2>1. decodeMessage(input, p) = DecodePublish(input, p + 2, p + Len(P), P[1] % 16)
    <3>1. \A t : t = P[1] \div 16 /\ t = 3 =>
            decodeMessage(input, p) = DecodePublish(input, p + 2, p + Len(P), P[1] % 16)
      BY <1>4, <2>0, PacketReads, Zenon
    <3> QED BY <3>1, <1>3, Zenon
  <2>2. \A j \in 1 .. Len(P) : p + j - 1 \in DOMAIN input /\ input[p + j - 1] = P[j]
    BY <1>4, <2>0, PacketStarts, Zenon
  <2>3. /\ p + 2 \in DOMAIN input /\ p + 3 \in DOMAIN input /\ p + 6 \in DOMAIN input
        /\ input[p + 2] = 0 /\ input[p + 3] = 3 /\ input[p + 4] = 115 /\ input[p + 5] = 195 /\ input[p + 6] = 169
        /\ p + 7 + w \in DOMAIN input /\ input[p + 7 + w] = n
    <3>1. /\ 3 \in 1 .. Len(P) /\ 4 \in 1 .. Len(P) /\ 5 \in 1 .. Len(P) /\ 6 \in 1 .. Len(P)
          /\ 7 \in 1 .. Len(P) /\ 8 + w \in 1 .. Len(P)
      BY <1>1, <1>2
    <3>2. /\ p + 3 - 1 = p + 2 /\ p + 4 - 1 = p + 3 /\ p + 5 - 1 = p + 4 /\ p + 6 - 1 = p + 5
          /\ p + 7 - 1 = p + 6 /\ p + (8 + w) - 1 = p + 7 + w
      BY <1>2
    <3> QED BY <1>1, <2>2, <3>1, <3>2
  <2>4. DOMAIN input = 1 .. Len(input) /\ Len(input) \in Nat /\ input \in Seq(Nat)
    BY DEF Bytewise
  <2>5. readUint16(input, p + 2) = 3
    <3>1. {p + 2, p + 2 + 1} \subseteq DOMAIN input /\ p + 2 + 1 = p + 3
      BY <2>3
    <3> QED BY <3>1, <2>3 DEF readUint16
  <2>6. parseUTF8(input, p + 2 + 2, 3) = [ok |-> TRUE, units |-> Topic]
    <3>1. p + 4 \in Nat \ {0} /\ p + 4 + 1 = p + 5 /\ p + 4 + 2 = p + 6 /\ p + 6 <= Len(input) /\ p + 2 + 2 = p + 4
      BY <2>3, <2>4
    <3> DEFINE i == p + 4
    <3>2. i \in Nat \ {0} /\ i + 2 <= Len(input) /\ input[i] = 115 /\ input[i + 1] = 195 /\ input[i + 2] = 169
      BY <3>1, <2>3
    <3> HIDE DEF i
    <3>3. parseUTF8(input, i, 3) = [ok |-> TRUE, units |-> Topic]
      BY <3>2, TopicRead
    <3> QED BY <3>1, <3>3 DEF i
  <2>7. (IF qos > 0 THEN readUint16(input, p + 2 + 2 + 3) ELSE NoId) = Short(id)
    <3>1. CASE qos = 0
      <4>1. id = 0
        BY <3>1 DEF NoId
      <4> QED BY <3>1, <4>1 DEF NoId, Short
    <3>2. CASE qos # 0
      <4>1. w = 2 /\ qos > 0
        BY <3>2 DEF w
      <4>2. 8 \in 1 .. Len(P) /\ 9 \in 1 .. Len(P) /\ p + 8 - 1 = p + 7 /\ p + 9 - 1 = p + 8
        BY <4>1, <1>1
      <4>3. p + 7 \in DOMAIN input /\ p + 8 \in DOMAIN input /\ input[p + 7] = P[8] /\ input[p + 8] = P[9]
        BY <4>2, <2>2
      <4>4. {p + 7, p + 7 + 1} \subseteq DOMAIN input /\ p + 7 + 1 = p + 8 /\ p + 2 + 2 + 3 = p + 7
        BY <4>3
      <4>5. readUint16(input, p + 7) = Short(id)
        BY <4>3, <4>4, <1>1, <3>2 DEF readUint16, Short
      <4> QED BY <4>1, <4>4, <4>5
    <3> QED BY <3>1, <3>2
  <2>8. SubArray(input, IF qos > 0 THEN p + 2 + 2 + 3 + 2 ELSE p + 2 + 2 + 3, p + Len(P)) = <<n>>
    <3> DEFINE q == p + 7 + w
    <3>1. (IF qos > 0 THEN p + 2 + 2 + 3 + 2 ELSE p + 2 + 2 + 3) = q
      BY DEF w
    <3>2. q \in 1 .. Len(input) /\ p + Len(P) - 1 = q /\ input[q] = n
      BY <1>1, <1>2, <2>3, <2>4
    <3> HIDE DEF q
    <3>3. SubArray(input, q, p + Len(P)) = SubSeq(input, q, q)
      BY <3>2, <2>4 DEF SubArray
    <3>4. SubSeq(input, q, q) \in Seq(Nat) /\ Len(SubSeq(input, q, q)) = 1 /\ SubSeq(input, q, q)[1] = input[q]
      BY <3>2, <2>4
    <3>5. <<n>> \in Seq(Nat) /\ Len(<<n>>) = 1 /\ <<n>>[1] = n
      OBVIOUS
    <3>6. \A k \in 1 .. Len(SubSeq(input, q, q)) : SubSeq(input, q, q)[k] = <<n>>[k]
      <4>1. \A k \in 1 .. 1 : k = 1
        OBVIOUS
      <4> QED BY <3>2, <3>4, <3>5, <4>1
    <3>7. SubSeq(input, q, q) = <<n>>
      BY <3>4, <3>5, <3>6, SeqEqual
    <3> QED BY <3>1, <3>3, <3>7
  <2> DEFINE info == P[1] % 16
             size == readUint16(input, p + 2)
             text == parseUTF8(input, p + 2 + 2, size)
             idAt == p + 2 + 2 + size
             q == (info \div 2) % 4
             at == IF q > 0 THEN idAt + 2 ELSE idAt
  <2>9. DecodePublish(input, p + 2, p + Len(P), info)
        = IF size = NaN \/ ~text.ok \/ q = 3 THEN Throws
          ELSE Decoded(Publish(IF q > 0 THEN readUint16(input, idAt) ELSE NoId,
                               q, (info \div 8) % 2 = 1, info % 2 = 1,
                               text.units, SubArray(input, at, p + Len(P))), p + Len(P))
    BY Zenon DEF DecodePublish
  <2>10. size = 3 /\ text = [ok |-> TRUE, units |-> Topic] /\ idAt = p + 2 + 2 + 3 /\ q = qos
    BY <2>5, <2>6, <1>3
  <2>11. /\ size # NaN /\ text.ok /\ q # 3 /\ text.units = Topic
         /\ ((info \div 8) % 2 = 1) = dup /\ (info % 2 = 1) = FALSE
    <3> HIDE DEF text, size, q
    <3> QED BY <2>10, <1>3 DEF NaN
  <2>12. at = IF qos > 0 THEN p + 2 + 2 + 3 + 2 ELSE p + 2 + 2 + 3
    BY <2>10, Zenon
  <2> HIDE DEF info, size, text, idAt, q, at
  <2>13. DecodePublish(input, p + 2, p + Len(P), info) =
           Decoded(Publish(IF qos > 0 THEN readUint16(input, p + 2 + 2 + 3) ELSE NoId,
                           qos, dup, FALSE, Topic,
                           SubArray(input, IF qos > 0 THEN p + 2 + 2 + 3 + 2 ELSE p + 2 + 2 + 3, p + Len(P))), p + Len(P))
    <3>1. ~(size = NaN \/ ~text.ok \/ q = 3)
      BY <2>11, Zenon
    <3>2. DecodePublish(input, p + 2, p + Len(P), info) =
            Decoded(Publish(IF q > 0 THEN readUint16(input, idAt) ELSE NoId,
                               q, (info \div 8) % 2 = 1, info % 2 = 1,
                               text.units, SubArray(input, at, p + Len(P))), p + Len(P))
      BY <3>1, <2>9, Zenon
    <3>3. q = qos /\ idAt = p + 2 + 2 + 3 /\ text.units = Topic
      BY <2>10, <2>11, Zenon
    <3> QED BY <3>2, <3>3, <2>11, <2>12, Zenon
  <2>14. DecodePublish(input, p + 2, p + Len(P), info) = Decoded(M, p + Len(P))
    BY <2>7, <2>8, <2>13, Zenon
  <2> QED BY <2>1, <2>14, Zenon DEF info
<1>5. Packet(P) /\ Means(P, M)
  <2> HIDE DEF M
  <2>1. Means(P, M)
    BY <1>4, Zenon DEF Means
  <2> QED BY <1>1, <2>1
<1> QED BY <1>5, Zenon DEF P, M

(* An acknowledgement, and the answer to a ping, as either side writes it. *)
ShortPlaces(P, t, id) ==
  /\ Packet(P) /\ P[1] \div 16 = t
  /\ id # NoId => Len(P) = 4 /\ P[2] = 2 /\ P[3] = (id \div 256) % 256 /\ P[4] = id % 256
  /\ id = NoId => Len(P) = 2 /\ P[2] = 0

LEMMA ShortBytes ==
  ASSUME NEW t \in {4, 5, 6, 7, 11, 13}, NEW id \in Nat
  PROVE  ShortPlaces(encode([type |-> t, id |-> id]), t, id)
<1> DEFINE m == [type |-> t, id |-> id]
           w == IF id = NoId THEN 0 ELSE 2
           F == <<FirstByte(m)>>
           N == encodeMBI(RemainingLength(m))
           V == VariableHeader(m)
           I == IF m.id # NoId THEN writeUint16(m.id) ELSE <<>>
           Y == Payload(m)
           P == encode(m)
<1>1. P = F \o N \o V \o I \o Y
  BY Zenon DEF encode
<1>2. m.type = t /\ m.id = id
  OBVIOUS
<1> HIDE DEF m, P
<1>3. FirstByte(m) \in Nat /\ FirstByte(m) \div 16 = t
  <2>1. FirstByte(m) = 16 * (t % 16) + Bit(t \in {8, 10, 6}, 2) + 0
    BY <1>2, Codes DEF FirstByte
  <2>2. Bit(t \in {8, 10, 6}, 2) \in {0, 2} /\ t % 16 = t
    BY DEF Bit
  <2> DEFINE b2 == Bit(t \in {8, 10, 6}, 2)
  <2>3. FirstByte(m) = 16 * t + b2 + 0 /\ b2 \in {0, 2}
    BY <2>1, <2>2
  <2> HIDE DEF b2
  <2> QED BY <2>3
<1>4. RemainingLength(m) = w
  <2> DEFINE connect == Len(ProtoIdentifier(m.mqttVersion)) + 3 + UTF8Length(m.clientId) + 2
               + (IF m.willMessage.has
                  THEN UTF8Length(m.willMessage.destinationName) + 2
                       + Len(m.willMessage.payload) + 2 ELSE 0)
               + (IF m.userName.has THEN UTF8Length(m.userName.text) + 2 ELSE 0)
               + (IF m.password.has THEN UTF8Length(m.password.text) + 2 ELSE 0)
             subscribe == SumOf([i \in DOMAIN m.topics |-> UTF8Length(m.topics[i]) + 2]) + Len(m.requestedQos)
             unsubscribe == SumOf([i \in DOMAIN m.topics |-> UTF8Length(m.topics[i]) + 2])
             publish == UTF8Length(m.destinationName) + 2 + Len(m.payload)
  <2>1. RemainingLength(m) = Bit(m.id # NoId, 2)
          + CASE m.type = Code("CONNECT") -> connect [] m.type = Code("SUBSCRIBE") -> subscribe
              [] m.type = Code("UNSUBSCRIBE") -> unsubscribe [] m.type = Code("PUBLISH") -> publish
              [] OTHER -> 0
    BY Zenon DEF RemainingLength
  <2> HIDE DEF connect, subscribe, unsubscribe, publish
  <2>2. RemainingLength(m) = Bit(m.id # NoId, 2) + 0
    BY <2>1, <1>2, Codes
  <2>3. Bit(m.id # NoId, 2) = w
    BY <1>2 DEF Bit, NoId
  <2> QED BY <2>2, <2>3
<1>5. N = <<w>>
  <2>1. w \in 0 .. 127
    OBVIOUS
  <2> QED BY <2>1, <1>4, ShortLength
<1>6. V = <<>>
  BY <1>2, Codes DEF VariableHeader
<1>7. Y = <<>>
  <2> DEFINE connect == writeString(m.clientId)
               \o (IF m.willMessage.has
                   THEN writeString(m.willMessage.destinationName)
                        \o writeUint16(Len(m.willMessage.payload))
                        \o m.willMessage.payload ELSE <<>>)
               \o (IF m.userName.has THEN writeString(m.userName.text) ELSE <<>>)
               \o (IF m.password.has THEN writeString(m.password.text) ELSE <<>>)
             subscribe == FlattenSeq([i \in DOMAIN m.topics |->
                            writeString(m.topics[i]) \o <<m.requestedQos[i]>>])
             unsubscribe == FlattenSeq([i \in DOMAIN m.topics |-> writeString(m.topics[i])])
  <2>1. Payload(m) =
          CASE m.type = Code("CONNECT") -> connect [] m.type = Code("PUBLISH") -> m.payload
            [] m.type = Code("SUBSCRIBE") -> subscribe [] m.type = Code("UNSUBSCRIBE") -> unsubscribe
            [] OTHER -> <<>>
    BY Zenon DEF Payload
  <2> HIDE DEF connect, subscribe, unsubscribe
  <2> QED BY <2>1, <1>2, Codes
<1>8. I = IF id = NoId THEN <<>> ELSE <<(id \div 256) % 256, id % 256>>
  BY <1>2 DEF writeUint16
<1>9. F \in Bytewise /\ Len(F) = 1 /\ F[1] \div 16 = t
  BY <1>3 DEF Bytewise
<1>10. N \in Bytewise /\ Len(N) = 1 /\ N[1] = w
  BY <1>5 DEF Bytewise
<1>12. /\ I \in Bytewise /\ Len(I) = w
       /\ id # NoId => I[1] = (id \div 256) % 256 /\ I[2] = id % 256
  <2>1. CASE id = NoId
    <3>1. I = <<>> /\ w = 0
      BY <1>8, <2>1
    <3> HIDE DEF I, w
    <3> QED BY <2>1, <3>1 DEF Bytewise
  <2>2. CASE id # NoId
    <3>1. (id \div 256) % 256 \in Nat /\ id % 256 \in Nat
      OBVIOUS
    <3>2. I = <<(id \div 256) % 256, id % 256>> /\ w = 2
      BY <1>8, <2>2
    <3> HIDE DEF I, w
    <3> QED BY <3>1, <3>2 DEF Bytewise
  <2> QED BY <2>1, <2>2
<1>13. V \in Bytewise /\ Len(V) = 0 /\ Y \in Bytewise /\ Len(Y) = 0
  BY <1>6, <1>7 DEF Bytewise
<1>14. w \in {0, 2} /\ (id = NoId => w = 0) /\ (id # NoId => w = 2)
  OBVIOUS
<1> HIDE DEF F, N, V, I, Y, w
<1>20. F \o N \o V \o I \o Y = F \o N \o I
  <2> DEFINE s == F \o N
  <2>1. s \in Bytewise
    BY <1>9, <1>10, JoinOf
  <2> HIDE DEF s
  <2>2. s \o <<>> = s
    BY <2>1 DEF Bytewise
  <2>3. s \o I \in Bytewise
    BY <2>1, <1>12, JoinOf
  <2>4. (s \o I) \o <<>> = s \o I
    <3> DEFINE r == s \o I
    <3> HIDE DEF r
    <3>1. r \in Bytewise
      BY <2>3 DEF r
    <3>2. r \o <<>> = r
      BY <3>1 DEF Bytewise
    <3> QED BY <3>2, Zenon DEF r
  <2>5. s \o V \o I \o Y = s \o I
    BY <2>2, <2>4, <1>6, <1>7, Zenon
  <2> QED BY <2>5, Zenon DEF s
<1> DEFINE A == F \o N
           D == A \o I
<1>21. A \in Bytewise /\ Len(A) = 2 /\ A[1] = F[1] /\ A[2] = N[1]
  <2>1. /\ F \o N \in Bytewise /\ Len(F \o N) = Len(F) + Len(N)
        /\ \A i \in 1 .. Len(F) : (F \o N)[i] = F[i]
        /\ \A i \in 1 .. Len(N) : (F \o N)[Len(F) + i] = N[i]
    BY <1>9, <1>10, JoinOf
  <2>2. Len(F) + 1 = 2 /\ 1 \in 1 .. Len(N) /\ 1 \in 1 .. Len(F)
    BY <1>9, <1>10
  <2> QED BY <2>1, <2>2, <1>9, <1>10
<1> HIDE DEF A
<1>22. /\ D \in Bytewise /\ Len(D) = 2 + w /\ \A i \in 1 .. 2 : D[i] = A[i]
       /\ \A i \in 1 .. w : D[2 + i] = I[i]
  <2>1. /\ A \o I \in Bytewise /\ Len(A \o I) = Len(A) + Len(I)
        /\ \A i \in 1 .. Len(A) : (A \o I)[i] = A[i]
        /\ \A i \in 1 .. Len(I) : (A \o I)[Len(A) + i] = I[i]
    BY <1>21, <1>12, JoinOf
  <2>2. Len(A) = 2 /\ Len(I) = w
    BY <1>21, <1>12
  <2> QED BY <2>1, <2>2
<1>23. P = D
  BY <1>1, <1>20, Zenon DEF A, D
<1> HIDE DEF D
<1>24. D[1] = A[1] /\ D[2] = A[2]
  BY <1>22
<1>25. D[1] \div 16 = t /\ D[2] = w
  BY <1>24, <1>21, <1>9, <1>10
<1>26. ASSUME id # NoId PROVE D[3] = (id \div 256) % 256 /\ D[4] = id % 256
  <2>1. w = 2
    BY <1>26, <1>14
  <2>2. D[2 + 1] = I[1] /\ D[2 + 2] = I[2]
    BY <2>1, <1>22
  <2> QED BY <2>2, <1>12, <1>26
<1>27. Packet(D)
  BY <1>14, <1>22, <1>25 DEF Packet
<1>28. ShortPlaces(D, t, id)
  BY <1>14, <1>22, <1>25, <1>26, <1>27 DEF ShortPlaces
<1> QED BY <1>23, <1>28, Zenon DEF P, m

(* The bytes of every message of the broker are a packet, and it is read as *)
(* the message they were made of, but for identifiers past sixteen bits.    *)
Carries(P, r) == Packet(P) /\ Means(P, r)

Connack(x)   == [type |-> 2, id |-> NoId, returnCode |-> x]
Suback(i, x) == [type |-> 9, id |-> i, returnCode |-> <<x>>]
Ack(t, i)    == [type |-> t, id |-> i]

LEMMA BytesAre ==
  ASSUME NEW m
  PROVE  /\ m.type = 2 => Bytes(m) = <<32, 2, 0, m.returnCode>>
         /\ m.type = 9 => Bytes(m) = <<144, 3, 0, m.id, m.returnCode>>
         /\ m.type \notin {2, 9} => Bytes(m) = encode(m)
<1> DEFINE x == <<32, 2, 0, m.returnCode>>
           y == <<144, 3, 0, m.id, m.returnCode>>
           z == encode(m)
<1>1. Bytes(m) = CASE m.type = Code("CONNACK") -> x [] m.type = Code("SUBACK") -> y [] OTHER -> z
  BY Zenon DEF Bytes
<1> HIDE DEF x, y, z
<1>2. /\ m.type = 2 => Bytes(m) = x
      /\ m.type = 9 => Bytes(m) = y
      /\ m.type \notin {2, 9} => Bytes(m) = z
  BY <1>1, Codes
<1> QED BY <1>2 DEF x, y, z

LEMMA ConnackCarried ==
  ASSUME NEW x \in {0, 1}
  PROVE  Carries(Bytes([type |-> Code("CONNACK"), returnCode |-> x]), Connack(x))
<1> DEFINE P == <<32, 2, 0, x>>
<1>1. Bytes([type |-> Code("CONNACK"), returnCode |-> x]) = P
  <2> DEFINE m == [type |-> Code("CONNACK"), returnCode |-> x]
  <2>1. m.type = 2 /\ m.returnCode = x
    BY Codes
  <2> HIDE DEF m
  <2>2. Bytes(m) = <<32, 2, 0, m.returnCode>>
    BY <2>1, BytesAre
  <2>3. Bytes(m) = P
    BY <2>1, <2>2
  <2> QED BY <2>3 DEF m
<1>2. P \in Bytewise /\ Len(P) = 4 /\ P[1] \div 16 = 2 /\ P[2] = 2 /\ P[3] = 0 /\ P[4] = x
  BY DEF Bytewise
<1> HIDE DEF P
<1>3. Packet(P)
  BY <1>2 DEF Packet
<1>4. Means(P, [type |-> 2, id |-> NoId, returnCode |-> x])
  <2>1. Packet(P) /\ Len(P) = 4 /\ P[1] \div 16 = 2 /\ P[2] = 2 /\ P[3] = 0 /\ P[4] = x
    BY <1>2, <1>3
  <2>2. x \in Nat
    OBVIOUS
  <2> QED BY <2>1, <2>2, ConnackPacket, Zenon
<1>5. Carries(P, Connack(x))
  BY <1>3, <1>4, Zenon DEF Carries, Connack
<1> QED BY <1>1, <1>5, Zenon

LEMMA SubackCarried ==
  ASSUME NEW i \in Nat, NEW x \in Nat
  PROVE  Carries(Bytes([type |-> Code("SUBACK"), id |-> i, returnCode |-> x]), Suback(i, x))
<1> DEFINE P == <<144, 3, 0, i, x>>
<1>1. Bytes([type |-> Code("SUBACK"), id |-> i, returnCode |-> x]) = P
  <2> DEFINE m == [type |-> Code("SUBACK"), id |-> i, returnCode |-> x]
  <2>1. m.type = 9 /\ m.returnCode = x /\ m.id = i
    BY Codes
  <2> HIDE DEF m
  <2>2. Bytes(m) = <<144, 3, 0, m.id, m.returnCode>>
    BY <2>1, BytesAre
  <2>3. Bytes(m) = P
    BY <2>1, <2>2
  <2> QED BY <2>3 DEF m
<1>2. P \in Bytewise /\ Len(P) = 5 /\ P[1] \div 16 = 9 /\ P[2] = 3 /\ P[3] = 0 /\ P[4] = i /\ P[5] = x
  BY DEF Bytewise
<1> HIDE DEF P
<1>3. Packet(P)
  BY <1>2 DEF Packet
<1>4. Means(P, [type |-> 9, id |-> i, returnCode |-> <<x>>])
  BY <1>2, <1>3, SubackPacket, Zenon
<1>5. Carries(P, Suback(i, x))
  BY <1>3, <1>4, Zenon DEF Carries, Suback
<1> QED BY <1>1, <1>5, Zenon

LEMMA AckCarried ==
  ASSUME NEW t \in {4, 5, 6, 7, 11}, NEW id \in Nat, id # NoId
  PROVE  Carries(Bytes(Ack(t, id)), Ack(t, Short(id)))
<1> DEFINE P == encode([type |-> t, id |-> id])
<1>1. Bytes(Ack(t, id)) = P
  <2> DEFINE m == [type |-> t, id |-> id]
  <2>1. m.type = t /\ t \notin {2, 9}
    OBVIOUS
  <2> HIDE DEF m
  <2>2. Bytes(m) = encode(m)
    BY <2>1, BytesAre
  <2> QED BY <2>2, Zenon DEF m, Ack
<1>2. ShortPlaces(P, t, id)
  BY ShortBytes
<1> HIDE DEF P
<1> DEFINE h == (id \div 256) % 256
           l == id % 256
<1>3. Packet(P) /\ Len(P) = 4 /\ t = P[1] \div 16 /\ P[2] = 2 /\ P[3] = h /\ P[4] = l
  BY <1>2 DEF ShortPlaces
<1>4. h \in Nat /\ l \in Nat
  OBVIOUS
<1>5. Short(id) = 256 * h + l
  BY DEF Short
<1> HIDE DEF h, l
<1>6. Means(P, [type |-> t, id |-> Word(h, l)])
  BY <1>3, <1>4, AckPacket, Zenon
<1>7. Carries(P, Ack(t, Short(id)))
  <2>1. Short(id) = Word(h, l)
    BY <1>5 DEF Word
  <2> QED BY <1>3, <1>6, <2>1, Zenon DEF Carries, Ack
<1> QED BY <1>1, <1>7, Zenon

LEMMA PingrespCarried == Carries(Bytes(Bare("PINGRESP")), Ack(13, NoId))
<1> DEFINE P == encode([type |-> 13, id |-> NoId])
<1>1. Bytes(Bare("PINGRESP")) = P
  <2> DEFINE m == [type |-> 13, id |-> NoId]
  <2>0. Bare("PINGRESP") = m
    BY Codes DEF Bare
  <2>1. m.type = 13 /\ 13 \notin {2, 9}
    OBVIOUS
  <2> HIDE DEF m
  <2>2. Bytes(m) = encode(m)
    BY <2>1, BytesAre
  <2> QED BY <2>0, <2>2, Zenon DEF m
<1>2. ShortPlaces(P, 13, NoId)
  <2>1. 13 \in {4, 5, 6, 7, 11, 13} /\ NoId \in Nat
    BY DEF NoId
  <2> QED BY <2>1, ShortBytes
<1> HIDE DEF P
<1>3. Packet(P) /\ Len(P) = 2 /\ P[1] \div 16 = 13 /\ P[2] = 0
  BY <1>2 DEF ShortPlaces
<1>4. Means(P, [type |-> 13, id |-> NoId])
  BY <1>3, PingrespPacket
<1> QED BY <1>1, <1>3, <1>4, Zenon DEF Carries, Ack

LEMMA PublishCarried ==
  ASSUME NEW id \in Nat, Short(id) = id, NEW qos \in 0 .. 2, NEW dup \in BOOLEAN, NEW n \in Nat,
         id = NoId <=> qos = 0
  PROVE  Carries(Bytes(Publish(id, qos, dup, FALSE, Topic, <<n>>)),
                 Publish(id, qos, dup, FALSE, Topic, <<n>>))
<1> DEFINE m == Publish(id, qos, dup, FALSE, Topic, <<n>>)
           P == encode(m)
<1>1. Packet(P) /\ Means(P, Publish(Short(id), qos, dup, FALSE, Topic, <<n>>))
  BY PublishPacket, Zenon
<1>2. Bytes(m) = P
  <2>1. m.type = 3 /\ 3 \notin {2, 9}
    BY Codes DEF Publish
  <2> HIDE DEF m
  <2>2. Bytes(m) = encode(m)
    BY <2>1, BytesAre
  <2> QED BY <2>2, Zenon
<1> HIDE DEF P
<1>4. Packet(P) /\ Means(P, m)
  BY <1>1, Zenon
<1> HIDE DEF m
<1>5. Carries(Bytes(m), m)
  BY <1>2, <1>4, Zenon DEF Carries
<1> QED BY <1>5, Zenon DEF m

(***************************************************************************)
(* What deframing makes of the shapes in which bytes arrive.               *)
(***************************************************************************)
Yields(bytes, messages, rest) ==
  Deframe(bytes) = [ok |-> TRUE, messages |-> messages, rest |-> rest]

\* Nothing, or only the beginning of a packet, is left from position e on.
Ends(bytes, e) ==
  /\ e \in 1 .. Len(bytes) + 1
  /\ e = Len(bytes) + 1 \/ \E R : Packet(R) /\ Begins(R, bytes, e)

LEMMA FrameRest ==
  ASSUME NEW bytes \in Bytewise, NEW e, Ends(bytes, e)
  PROVE  FrameFrom(bytes, e) = [ok |-> TRUE, messages |-> <<>>, rest |-> SubSeq(bytes, e, Len(bytes))]
<1>0. Len(bytes) \in Nat /\ e \in Nat \ {0}
  BY DEF Bytewise, Ends
<1>1. CASE e = Len(bytes) + 1
  <2>1. FrameFrom(bytes, e) = [ok |-> TRUE, messages |-> <<>>, rest |-> <<>>]
    BY <1>1, FrameEnd, Zenon
  <2>2. SubSeq(bytes, e, Len(bytes)) = <<>>
    BY <1>0, <1>1 DEF Bytewise
  <2> QED BY <2>1, <2>2, Zenon
<1>2. CASE e # Len(bytes) + 1
  <2>1. PICK R : Packet(R) /\ Begins(R, bytes, e)
    BY <1>2, Zenon DEF Ends
  <2> QED BY <1>0, <2>1, FramePart, Zenon
<1> QED BY <1>1, <1>2, Zenon

Prefixed(m, r) == [r EXCEPT !.messages = <<m>> \o @]

LEMMA FrameFields ==
  ASSUME NEW j, NEW s, NEW r, DOMAIN r = {"ok", "messages", "rest"},
         r = [f \in {"ok", "messages", "rest"} |-> r[f]], r.ok = TRUE, r.messages = j, r.rest = s
  PROVE  r = [ok |-> TRUE, messages |-> j, rest |-> s]
OBVIOUS

LEMMA PrefixedIs ==
  ASSUME NEW m, NEW ms, NEW s
  PROVE  Prefixed(m, [ok |-> TRUE, messages |-> ms, rest |-> s])
           = [ok |-> TRUE, messages |-> <<m>> \o ms, rest |-> s]
<1> DEFINE r == [ok |-> TRUE, messages |-> ms, rest |-> s]
           j == <<m>> \o ms
           e == [r EXCEPT !.messages = j]
<1>1. DOMAIN r = {"ok", "messages", "rest"} /\ r.ok = TRUE /\ r.messages = ms /\ r.rest = s
  OBVIOUS
<1> HIDE DEF r
<1>2. Prefixed(m, r) = e
  BY <1>1, Zenon DEF Prefixed
<1> HIDE DEF j
<1>3. e = [f \in DOMAIN r |-> IF f = "messages" THEN j ELSE r[f]]
  BY <1>1, Zenon
<1>4. DOMAIN e = {"ok", "messages", "rest"}
  BY <1>1
<1>5. e.ok = TRUE
  BY <1>1
<1>6. e.messages = j
  BY <1>1
<1>7. e.rest = s
  BY <1>1
<1> HIDE DEF e
<1>8. e = [f \in {"ok", "messages", "rest"} |-> e[f]]
  BY <1>3, <1>4, Zenon
<1>9. e = [ok |-> TRUE, messages |-> j, rest |-> s]
  BY <1>4, <1>5, <1>6, <1>7, <1>8, FrameFields
<1> QED BY <1>2, <1>9, Zenon DEF r, j

LEMMA Whole ==
  ASSUME NEW bytes \in Bytewise, NEW p \in Nat \ {0}, NEW P, NEW m, Carries(P, m), Stands(P, bytes, p)
  PROVE  FrameFrom(bytes, p) = Prefixed(m, FrameFrom(bytes, p + Len(P)))
<1>1. Packet(P) /\ Means(P, m)
  BY Zenon DEF Carries
<1>2. FrameFrom(bytes, p) = [FrameFrom(bytes, p + Len(P)) EXCEPT !.messages = <<m>> \o @]
  BY <1>1, FrameWhole
<1> QED BY <1>2, Zenon DEF Prefixed

LEMMA CoupleOf ==
  ASSUME NEW S, NEW x \in Seq(S), NEW y \in Seq(S), NEW z \in Seq(S),
         Len(x) = 1, Len(y) = 1, Len(z) = 2, z[1] = x[1], z[2] = y[1]
  PROVE  x \o y = z
<1>0. /\ x \o y \in Seq(S) /\ Len(x \o y) = Len(x) + Len(y)
      /\ \A i \in 1 .. Len(x) + Len(y) : (x \o y)[i] = IF i <= Len(x) THEN x[i] ELSE y[i - Len(x)]
  BY ConcatProperties, Zenon
<1>1. x \o y \in Seq(S) /\ Len(x \o y) = 2
  BY <1>0
<1>2. (x \o y)[1] = x[1]
  BY <1>0
<1>3. (x \o y)[2] = y[1]
  BY <1>0
<1> DEFINE w == x \o y
<1> HIDE DEF w
<1>4. \A i \in 1 .. Len(w) : w[i] = z[i]
  <2>1. \A i \in 1 .. 2 : i = 1 \/ i = 2
    OBVIOUS
  <2> QED BY <2>1, <1>1, <1>2, <1>3 DEF w
<1>5. w = z
  <2>1. w \in Seq(S) /\ Len(w) = Len(z)
    BY <1>1 DEF w
  <2> QED BY <2>1, <1>4, SeqEqual
<1> QED BY <1>5 DEF w

LEMMA Couple ==
  ASSUME NEW m, NEW n
  PROVE  <<m>> \o <<>> = <<m>> /\ <<m>> \o <<n>> = <<m, n>>
<1>1. <<m>> \o <<>> = <<m>>
  BY <<m>> \in Seq({m})
<1> DEFINE S == {m, n}
           x == <<m>>
           y == <<n>>
           z == <<m, n>>
<1>2. x \in Seq(S) /\ y \in Seq(S) /\ z \in Seq(S) /\ Len(x) = 1 /\ Len(y) = 1 /\ Len(z) = 2
  OBVIOUS
<1>3. z[1] = x[1] /\ z[2] = y[1]
  OBVIOUS
<1> HIDE DEF S, x, y, z
<1>4. x \o y = z
  BY <1>2, <1>3, CoupleOf, Zenon
<1> QED BY <1>1, <1>4 DEF x, y, z

LEMMA FrameOne ==
  ASSUME NEW bytes \in Bytewise, NEW P, NEW m, Carries(P, m), Stands(P, bytes, 1), Ends(bytes, Len(P) + 1)
  PROVE  Yields(bytes, <<m>>, SubSeq(bytes, Len(P) + 1, Len(bytes)))
<1> DEFINE s == SubSeq(bytes, Len(P) + 1, Len(bytes))
<1>0. 1 \in Nat \ {0} /\ 1 + Len(P) = Len(P) + 1
  BY DEF Carries, Packet, Bytewise
<1>1. FrameFrom(bytes, 1) = Prefixed(m, FrameFrom(bytes, Len(P) + 1))
  BY <1>0, Whole
<1>2. FrameFrom(bytes, Len(P) + 1) = [ok |-> TRUE, messages |-> <<>>, rest |-> s]
  BY FrameRest, Zenon
<1> HIDE DEF s
<1>3. FrameFrom(bytes, 1) = [ok |-> TRUE, messages |-> <<m>>, rest |-> s]
  <2>1. Prefixed(m, [ok |-> TRUE, messages |-> <<>>, rest |-> s])
        = [ok |-> TRUE, messages |-> <<m>> \o <<>>, rest |-> s]
    BY PrefixedIs, Zenon
  <2>2. <<m>> \o <<>> = <<m>>
    BY Couple, Zenon
  <2> QED BY <1>1, <1>2, <2>1, <2>2, Zenon
<1>4. Deframe(bytes) = FrameFrom(bytes, 1)
  BY FrameRows, Zenon
<1> QED BY <1>3, <1>4, Zenon DEF Yields, s

LEMMA FrameTwo ==
  ASSUME NEW bytes \in Bytewise, NEW P, NEW m, NEW Q, NEW n, Carries(P, m), Carries(Q, n),
         Stands(P, bytes, 1), Stands(Q, bytes, Len(P) + 1), Ends(bytes, Len(P) + 1 + Len(Q))
  PROVE  Yields(bytes, <<m, n>>, SubSeq(bytes, Len(P) + 1 + Len(Q), Len(bytes)))
<1> DEFINE s == SubSeq(bytes, Len(P) + 1 + Len(Q), Len(bytes))
<1>0. Len(P) \in Nat
  BY DEF Carries, Packet, Bytewise
<1>1. 1 \in Nat \ {0} /\ 1 + Len(P) = Len(P) + 1 /\ Len(P) + 1 \in Nat \ {0}
  BY <1>0
<1>2. FrameFrom(bytes, 1) = Prefixed(m, FrameFrom(bytes, Len(P) + 1))
  BY <1>1, Whole
<1>3. FrameFrom(bytes, Len(P) + 1) = Prefixed(n, FrameFrom(bytes, Len(P) + 1 + Len(Q)))
  BY <1>1, Whole
<1>4. FrameFrom(bytes, Len(P) + 1 + Len(Q)) = [ok |-> TRUE, messages |-> <<>>, rest |-> s]
  BY FrameRest, Zenon
<1> HIDE DEF s
<1>5. FrameFrom(bytes, Len(P) + 1) = [ok |-> TRUE, messages |-> <<n>>, rest |-> s]
  <2>1. Prefixed(n, [ok |-> TRUE, messages |-> <<>>, rest |-> s])
        = [ok |-> TRUE, messages |-> <<n>> \o <<>>, rest |-> s]
    BY PrefixedIs, Zenon
  <2>2. <<n>> \o <<>> = <<n>>
    BY Couple, Zenon
  <2> QED BY <1>3, <1>4, <2>1, <2>2, Zenon
<1>6. FrameFrom(bytes, 1) = [ok |-> TRUE, messages |-> <<m, n>>, rest |-> s]
  <2>1. Prefixed(m, [ok |-> TRUE, messages |-> <<n>>, rest |-> s])
        = [ok |-> TRUE, messages |-> <<m>> \o <<n>>, rest |-> s]
    BY PrefixedIs, Zenon
  <2>2. <<m>> \o <<n>> = <<m, n>>
    BY Couple, Zenon
  <2> QED BY <1>2, <1>5, <2>1, <2>2, Zenon
<1>7. Deframe(bytes) = FrameFrom(bytes, 1)
  BY FrameRows, Zenon
<1> QED BY <1>6, <1>7, Zenon DEF Yields, s

(* A part of a packet.                                                     *)
First(P, k)  == SubSeq(P, 1, k)
Second(P, k) == SubSeq(P, k + 1, Len(P))

LEMMA Parts ==
  ASSUME NEW P \in Bytewise, NEW k \in 0 .. Len(P)
  PROVE  /\ First(P, k) \in Bytewise /\ Len(First(P, k)) = k /\ \A i \in 1 .. k : First(P, k)[i] = P[i]
         /\ Second(P, k) \in Bytewise /\ Len(Second(P, k)) = Len(P) - k
         /\ \A i \in 1 .. Len(P) - k : Second(P, k)[i] = P[k + i]
         /\ First(P, k) \o Second(P, k) = P
<1>0. P \in Seq(Nat) /\ Len(P) \in Nat
  BY DEF Bytewise
<1>1. First(P, k) \in Bytewise /\ Len(First(P, k)) = k /\ \A i \in 1 .. k : First(P, k)[i] = P[i]
  BY <1>0 DEF First, Bytewise
<1>2. /\ Second(P, k) \in Bytewise /\ Len(Second(P, k)) = Len(P) - k
      /\ \A i \in 1 .. Len(P) - k : Second(P, k)[i] = P[k + i]
  <2>1. SubSeq(P, k + 1, Len(P)) \in Seq(Nat) /\ Len(SubSeq(P, k + 1, Len(P))) = Len(P) - k
    BY <1>0
  <2>2. ASSUME NEW i \in 1 .. Len(P) - k PROVE SubSeq(P, k + 1, Len(P))[i] = P[k + i]
    <3>1. k + 1 + i - 1 = k + i
      OBVIOUS
    <3>2. i \in 1 .. Len(P) - (k + 1) + 1
      BY <1>0
    <3> QED BY <1>0, <3>1, <3>2
  <2> QED BY <2>1, <2>2 DEF Second, Bytewise
<1>3. First(P, k) \o Second(P, k) = P
  <2> DEFINE x == First(P, k)
             y == Second(P, k)
  <2>1. x \in Bytewise /\ Len(x) = k /\ \A i \in 1 .. k : x[i] = P[i]
    BY <1>1
  <2>2. y \in Bytewise /\ Len(y) = Len(P) - k /\ \A i \in 1 .. Len(P) - k : y[i] = P[k + i]
    BY <1>2
  <2> HIDE DEF x, y
  <2>3. Len(P) = Len(x) + Len(y)
    BY <1>0, <2>1, <2>2
  <2>4. (\A i \in 1 .. Len(x) : P[i] = x[i]) /\ (\A i \in 1 .. Len(y) : P[Len(x) + i] = y[i])
    BY <2>1, <2>2
  <2>5. x \o y = P
    BY <2>1, <2>2, <2>3, <2>4, JoinIs, Zenon
  <2> QED BY <2>5 DEF x, y
<1> QED BY <1>1, <1>2, <1>3

LEMMA YieldsPart ==
  ASSUME NEW P, Packet(P), NEW k \in 0 .. Len(P) - 1
  PROVE  Yields(First(P, k), <<>>, First(P, k))
<1> DEFINE x == First(P, k)
<1>0. P \in Bytewise /\ Len(P) \in Nat /\ Len(P) >= 2 /\ k \in 0 .. Len(P)
  BY DEF Packet, Bytewise
<1>1. x \in Bytewise /\ Len(x) = k /\ \A i \in 1 .. k : x[i] = P[i]
  BY <1>0, Parts, Zenon
<1> HIDE DEF x
<1>2. Ends(x, 1)
  <2>1. CASE k = 0
    BY <1>1, <2>1 DEF Ends
  <2>2. CASE k # 0
    <3>1. Begins(P, x, 1)
      <4>1. Len(x) - 1 + 1 = k
        BY <1>1
      <4>2. \A j \in 1 .. k : 1 + j - 1 = j
        OBVIOUS
      <4> QED BY <1>0, <1>1, <2>2, <4>1, <4>2 DEF Begins
    <3>2. 1 \in 1 .. Len(x) + 1
      BY <1>1
    <3> QED BY <3>1, <3>2, Zenon DEF Ends
  <2> QED BY <2>1, <2>2
<1>3. FrameFrom(x, 1) = [ok |-> TRUE, messages |-> <<>>, rest |-> SubSeq(x, 1, Len(x))]
  BY <1>1, <1>2, FrameRest, Zenon
<1>4. SubSeq(x, 1, Len(x)) = x
  BY <1>1 DEF Bytewise
<1>5. Yields(x, <<>>, x)
  BY <1>1, <1>3, <1>4, FrameRows, Zenon DEF Yields
<1> QED BY <1>5 DEF x

LEMMA YieldsWhole ==
  ASSUME NEW P, NEW m, Carries(P, m)
  PROVE  Yields(P, <<m>>, <<>>)
<1>0. P \in Bytewise /\ Len(P) \in Nat
  BY DEF Carries, Packet, Bytewise
<1>1. Stands(P, P, 1)
  <2>1. \A j \in 1 .. Len(P) : 1 + j - 1 = j
    OBVIOUS
  <2> QED BY <1>0, <2>1 DEF Stands
<1>2. Ends(P, Len(P) + 1)
  BY <1>0 DEF Ends
<1>3. SubSeq(P, Len(P) + 1, Len(P)) = <<>>
  BY <1>0 DEF Bytewise
<1> QED BY <1>0, <1>1, <1>2, <1>3, FrameOne, Zenon

LEMMA YieldsWholeAndPart ==
  ASSUME NEW P, NEW m, Carries(P, m), NEW Q, Packet(Q), NEW k \in 0 .. Len(Q) - 1
  PROVE  Yields(P \o First(Q, k), <<m>>, First(Q, k))
<1> DEFINE x == First(Q, k)
           y == P \o x
<1>0. P \in Bytewise /\ Len(P) \in Nat /\ Q \in Bytewise /\ Len(Q) \in Nat /\ Len(Q) >= 2 /\ k \in 0 .. Len(Q)
  BY DEF Carries, Packet, Bytewise
<1>1. x \in Bytewise /\ Len(x) = k /\ \A i \in 1 .. k : x[i] = Q[i]
  BY <1>0, Parts, Zenon
<1> HIDE DEF x
<1>2. /\ y \in Bytewise /\ Len(y) = Len(P) + k /\ (\A i \in 1 .. Len(P) : y[i] = P[i])
      /\ \A i \in 1 .. k : y[Len(P) + i] = x[i]
  BY <1>0, <1>1, JoinOf
<1> HIDE DEF y
<1>3. Stands(P, y, 1)
  <2>1. \A j \in 1 .. Len(P) : 1 + j - 1 = j
    OBVIOUS
  <2> QED BY <1>0, <1>2, <2>1 DEF Stands
<1>4. Ends(y, Len(P) + 1)
  <2>1. CASE k = 0
    BY <1>0, <1>2, <2>1 DEF Ends
  <2>2. CASE k # 0
    <3>1. Begins(Q, y, Len(P) + 1)
      <4>1. Len(y) - (Len(P) + 1) + 1 = k /\ Len(P) + 1 <= Len(y)
        BY <1>0, <1>2, <2>2
      <4>2. \A j \in 1 .. k : Len(P) + 1 + j - 1 = Len(P) + j
        BY <1>0
      <4>3. \A j \in 1 .. k : y[Len(P) + 1 + j - 1] = Q[j]
        BY <1>1, <1>2, <4>2
      <4> QED BY <1>0, <4>1, <4>3 DEF Begins
    <3>2. Len(P) + 1 \in 1 .. Len(y) + 1
      BY <1>0, <1>2
    <3> QED BY <3>1, <3>2, Zenon DEF Ends
  <2> QED BY <2>1, <2>2
<1>5. SubSeq(y, Len(P) + 1, Len(y)) = x
  <2> DEFINE z == SubSeq(y, Len(P) + 1, Len(y))
  <2>1. z \in Seq(Nat) /\ Len(z) = k
    BY <1>0, <1>2 DEF Bytewise
  <2>2. ASSUME NEW i \in 1 .. k PROVE z[i] = x[i]
    <3>1. Len(P) + 1 + i - 1 = Len(P) + i
      BY <1>0
    <3>2. i \in 1 .. Len(y) - (Len(P) + 1) + 1
      BY <1>0, <1>2
    <3>3. z[i] = y[Len(P) + 1 + i - 1]
      BY <1>0, <1>2, <3>2 DEF Bytewise
    <3> QED BY <1>2, <3>1, <3>3
  <2> HIDE DEF z
  <2>3. x \in Seq(Nat) /\ Len(x) = Len(z)
    BY <1>1, <2>1 DEF Bytewise
  <2>4. z = x
    BY <2>1, <2>2, <2>3, SeqEqual
  <2> QED BY <2>4 DEF z
<1>6. Yields(y, <<m>>, x)
  <2>1. Yields(y, <<m>>, SubSeq(y, Len(P) + 1, Len(y)))
    BY <1>2, <1>3, <1>4, FrameOne, Zenon
  <2> QED BY <2>1, <1>5, Zenon
<1> QED BY <1>6 DEF x, y

LEMMA YieldsBoth ==
  ASSUME NEW P, NEW m, Carries(P, m), NEW Q, NEW n, Carries(Q, n)
  PROVE  Yields(P \o Q, <<m, n>>, <<>>)
<1> DEFINE y == P \o Q
<1>0. P \in Bytewise /\ Len(P) \in Nat /\ Q \in Bytewise /\ Len(Q) \in Nat
  BY DEF Carries, Packet, Bytewise
<1>2. /\ y \in Bytewise /\ Len(y) = Len(P) + Len(Q) /\ (\A i \in 1 .. Len(P) : y[i] = P[i])
      /\ \A i \in 1 .. Len(Q) : y[Len(P) + i] = Q[i]
  BY <1>0, JoinOf
<1> HIDE DEF y
<1>3. Stands(P, y, 1)
  <2>1. \A j \in 1 .. Len(P) : 1 + j - 1 = j
    OBVIOUS
  <2> QED BY <1>0, <1>2, <2>1 DEF Stands
<1>4. Stands(Q, y, Len(P) + 1)
  <2>1. \A j \in 1 .. Len(Q) : Len(P) + 1 + j - 1 = Len(P) + j
    BY <1>0
  <2> QED BY <1>0, <1>2, <2>1 DEF Stands
<1>5. Ends(y, Len(P) + 1 + Len(Q))
  BY <1>0, <1>2 DEF Ends
<1>6. SubSeq(y, Len(P) + 1 + Len(Q), Len(y)) = <<>>
  BY <1>0, <1>2 DEF Bytewise
<1>7. Yields(y, <<m, n>>, <<>>)
  BY <1>2, <1>3, <1>4, <1>5, <1>6, FrameTwo, Zenon
<1> QED BY <1>7 DEF y

\* A message published to the page is read back as it was made, from its
\* whole packet and from any two parts of it, the first of which waits in
\* the buffer (encode, decodeMessage, _deframeMessages).
THEOREM PublishReadBack ==
  ASSUME NEW id \in Identifiers, NEW qos \in 1 .. 2, NEW dup \in BOOLEAN, NEW n \in Nat,
         NEW m, m = Publish(id, qos, dup, FALSE, Topic, <<n>>)
  PROVE  /\ Deframe(Bytes(m)) = [ok |-> TRUE, messages |-> <<m>>, rest |-> <<>>]
         /\ \A k \in 0 .. Len(Bytes(m)) - 1 :
              /\ Deframe(First(Bytes(m), k)) = [ok |-> TRUE, messages |-> <<>>, rest |-> First(Bytes(m), k)]
              /\ First(Bytes(m), k) \o Second(Bytes(m), k) = Bytes(m)
<1> DEFINE P == Bytes(m)
<1>1. id \in Nat /\ Short(id) = id /\ (id = NoId <=> qos = 0) /\ qos \in 0 .. 2
  <2>1. Short(id) = id
    BY ShortIs
  <2> QED BY <2>1 DEF Identifiers, NoId
<1>2. Carries(P, m)
  BY <1>1, PublishCarried, Zenon
<1> HIDE DEF P
<1>3. Packet(P) /\ P \in Bytewise
  BY <1>2 DEF Carries, Packet
<1>4. Deframe(P) = [ok |-> TRUE, messages |-> <<m>>, rest |-> <<>>]
  BY <1>2, YieldsWhole, Zenon DEF Yields
<1>5. ASSUME NEW k \in 0 .. Len(P) - 1
      PROVE  /\ Deframe(First(P, k)) = [ok |-> TRUE, messages |-> <<>>, rest |-> First(P, k)]
             /\ First(P, k) \o Second(P, k) = P
  <2>1. Deframe(First(P, k)) = [ok |-> TRUE, messages |-> <<>>, rest |-> First(P, k)]
    BY <1>3, YieldsPart, Zenon DEF Yields
  <2>2. k \in 0 .. Len(P)
    BY <1>3 DEF Packet
  <2>3. First(P, k) \o Second(P, k) = P
    BY <1>3, <2>2, Parts, Zenon
  <2> QED BY <2>1, <2>3
<1> QED BY <1>4, <1>5 DEF P

(***************************************************************************)
(* The client's record, and what each operation changes of it.             *)
(***************************************************************************)
Fields == {"socket", "connected", "hostIndex", "version", "queue", "notify", "sent", "received",
           "identifier", "sequence", "buffer", "connectTimer", "sendPinger", "receivePinger",
           "store", "out", "thrown", "cut", "calls"}
Changes(cl, d, fields) == DOMAIN d = Fields /\ \A f \in Fields \ fields : d[f] = cl[f]
Pinger(p) == DOMAIN p = {"armed", "isReset"} /\ p.armed \in BOOLEAN /\ p.isReset \in BOOLEAN

LEMMA CallChanges ==
  ASSUME NEW cl, DOMAIN cl = Fields, NEW name, NEW m
  PROVE  /\ Changes(cl, Call(cl, name, m), {"calls"})
         /\ Call(cl, name, m).calls = Append(cl.calls, [name |-> name, message |-> m])
<1> DEFINE e == [name |-> name, message |-> m]
           d == [cl EXCEPT !.calls = Append(@, e)]
<1>1. Call(cl, name, m) = d
  BY Zenon DEF Call
<1> HIDE DEF e
<1>2. Changes(cl, d, {"calls"}) /\ d.calls = Append(cl.calls, e)
  BY DEF Changes, Fields
<1> QED BY <1>1, <1>2, Zenon DEF e

LEMMA HandedChanges ==
  ASSUME NEW cl, DOMAIN cl = Fields, NEW name, NEW m
  PROVE  /\ Changes(cl, Handed(cl, name, m), {"calls", "thrown"})
         /\ Handed(cl, name, m).calls = Append(cl.calls, [name |-> name, message |-> m])
         /\ Handed(cl, name, m).thrown = HandlerThrows(m)
         /\ HandlerThrows(m) \in BOOLEAN
<1> DEFINE d == Call(cl, name, m)
           t == HandlerThrows(m)
           e == [d EXCEPT !.thrown = t]
<1>1. Handed(cl, name, m) = e
  BY Zenon DEF Handed
<1>2. Changes(cl, d, {"calls"}) /\ d.calls = Append(cl.calls, [name |-> name, message |-> m])
  BY CallChanges, Zenon
<1>3. t \in BOOLEAN
  BY DEF HandlerThrows
<1> HIDE DEF d, t
<1>4. Changes(d, e, {"thrown"}) /\ e.thrown = t
  BY <1>2 DEF Changes, Fields
<1> HIDE DEF e
<1>5. Changes(cl, e, {"calls", "thrown"}) /\ e.calls = d.calls
  BY <1>2, <1>4 DEF Changes, Fields
<1> QED BY <1>1, <1>2, <1>3, <1>4, <1>5, Zenon DEF t

LEMMA DoConnectChanges ==
  ASSUME NEW cl, DOMAIN cl = Fields
  PROVE  /\ Changes(cl, DoConnect(cl), {"connected", "socket", "out", "sendPinger", "receivePinger", "connectTimer"})
         /\ DoConnect(cl).connected = FALSE /\ DoConnect(cl).socket = "connecting" /\ DoConnect(cl).out = <<>>
         /\ DoConnect(cl).sendPinger = NewPinger /\ DoConnect(cl).receivePinger = NewPinger
         /\ DoConnect(cl).connectTimer = TRUE
BY DEF Changes, Fields, DoConnect

LEMMA SocketSendChanges ==
  ASSUME NEW cl, DOMAIN cl = Fields, NEW m
  PROVE  /\ cl.socket # "open" =>
              Changes(cl, SocketSend(cl, m), {"thrown"}) /\ SocketSend(cl, m).thrown = TRUE
         /\ cl.socket = "open" =>
              /\ Changes(cl, SocketSend(cl, m), {"out", "sendPinger"})
              /\ SocketSend(cl, m).out = Append(cl.out, m)
              /\ SocketSend(cl, m).sendPinger = [armed |-> TRUE, isReset |-> TRUE]
<1> DEFINE r == PingerReset(cl.sendPinger)
           d == [cl EXCEPT !.thrown = TRUE]
           e == [cl EXCEPT !.out = Append(@, m), !.sendPinger = r]
<1>1. SocketSend(cl, m) = IF cl.socket # "open" THEN d ELSE e
  BY Zenon DEF SocketSend
<1>2. r = [armed |-> TRUE, isReset |-> TRUE]
  BY DEF PingerReset
<1> HIDE DEF r
<1>3. Changes(cl, d, {"thrown"}) /\ d.thrown = TRUE
  BY DEF Changes, Fields
<1>4. Changes(cl, e, {"out", "sendPinger"}) /\ e.out = Append(cl.out, m) /\ e.sendPinger = r
  BY DEF Changes, Fields
<1> HIDE DEF d, e
<1> QED BY <1>1, <1>2, <1>3, <1>4, Zenon

LEMMA ChangesTwice ==
  ASSUME NEW cl, NEW d, NEW e, NEW S, NEW T, Changes(cl, d, S), Changes(d, e, T)
  PROVE  Changes(cl, e, S \cup T)
BY DEF Changes

(* Disconnected, step by step.                                             *)
Lost(cl, d) ==
  /\ Changes(cl, d, {"connected", "socket", "sendPinger", "receivePinger", "connectTimer", "queue", "notify", "cut", "calls"})
  /\ d.connected = FALSE /\ d.socket = "none" /\ d.connectTimer = FALSE
  /\ d.sendPinger.armed = FALSE /\ d.receivePinger.armed = FALSE
  /\ \E name \in {"lost", "failure"} : d.calls = Append(cl.calls, [name |-> name, message |-> NoMessage])
Tried(cl, d) ==
  /\ Changes(cl, d, {"connected", "socket", "out", "sendPinger", "receivePinger", "connectTimer", "queue", "notify", "cut",
                     "hostIndex", "version"})
  /\ d.connected = FALSE /\ d.socket = "connecting" /\ d.connectTimer = TRUE /\ d.out = <<>>
  /\ d.sendPinger = NewPinger /\ d.receivePinger = NewPinger
  /\ \/ cl.hostIndex < app.uris - 1 /\ d.hostIndex = cl.hostIndex + 1 /\ d.version = cl.version
     \/ ~cl.connected /\ d.hostIndex = 0 /\ d.version = 3

LEMMA DisconnectedChanges ==
  ASSUME NEW cl, DOMAIN cl = Fields, Pinger(cl.sendPinger), Pinger(cl.receivePinger), cl.connected \in BOOLEAN
  PROVE  /\ Disconnected(cl).queue = <<>> /\ Disconnected(cl).notify = FALSE /\ Disconnected(cl).cut = TRUE
         /\ Pinger(Disconnected(cl).sendPinger) /\ Pinger(Disconnected(cl).receivePinger)
         /\ Lost(cl, Disconnected(cl)) \/ Tried(cl, Disconnected(cl))
<1> DEFINE off == [cl EXCEPT !.sendPinger.armed = FALSE, !.receivePinger.armed = FALSE,
                        !.connectTimer = FALSE, !.queue = <<>>, !.notify = FALSE,
                        !.socket = "none", !.cut = TRUE]
           next == [off EXCEPT !.hostIndex = @ + 1]
           first == [off EXCEPT !.version = 3, !.hostIndex = 0]
           down == [off EXCEPT !.connected = FALSE]
<1>1. Disconnected(cl) = IF app.uris > 0 /\ off.hostIndex < app.uris - 1 THEN DoConnect(next)
     ELSE IF off.connected THEN Call(down, "lost", NoMessage)
     ELSE IF off.version = 4 /\ ~app.explicit THEN DoConnect(first)
     ELSE Call(off, "failure", NoMessage)
  BY Zenon DEF Disconnected, OlderVersion, ConnectionLost
<1>2. /\ Changes(cl, off, {"socket", "sendPinger", "receivePinger", "connectTimer", "queue", "notify", "cut"})
      /\ off.socket = "none" /\ off.connectTimer = FALSE /\ off.queue = <<>> /\ off.notify = FALSE /\ off.cut = TRUE
  BY DEF Changes, Fields
<1>3. /\ off.sendPinger.armed = FALSE /\ off.receivePinger.armed = FALSE
      /\ Pinger(off.sendPinger) /\ Pinger(off.receivePinger)
  BY DEF Fields, Pinger
<1> HIDE DEF off
<1>4. Changes(off, next, {"hostIndex"}) /\ next.hostIndex = off.hostIndex + 1
  BY <1>2 DEF Changes, Fields
<1>5. Changes(off, first, {"version", "hostIndex"}) /\ first.version = 3 /\ first.hostIndex = 0
  BY <1>2 DEF Changes, Fields
<1>6. Changes(off, down, {"connected"}) /\ down.connected = FALSE
  BY <1>2 DEF Changes, Fields
<1> HIDE DEF next, first, down
<1>7. DOMAIN off = Fields /\ DOMAIN next = Fields /\ DOMAIN first = Fields /\ DOMAIN down = Fields
  BY <1>2, <1>4, <1>5, <1>6 DEF Changes
<1>8. off.connected = cl.connected /\ off.hostIndex = cl.hostIndex /\ off.version = cl.version /\ off.calls = cl.calls
  BY <1>2 DEF Changes, Fields
<1> DEFINE d == Disconnected(cl)
<1>9. CASE app.uris > 0 /\ off.hostIndex < app.uris - 1
  <2>1. d = DoConnect(next)
    BY <1>1, <1>9, Zenon
  <2>2. /\ Changes(next, d, {"connected", "socket", "out", "sendPinger", "receivePinger", "connectTimer"})
        /\ d.connected = FALSE /\ d.socket = "connecting" /\ d.out = <<>>
        /\ d.sendPinger = NewPinger /\ d.receivePinger = NewPinger /\ d.connectTimer = TRUE
    BY <2>1, <1>7, DoConnectChanges, Zenon
  <2> HIDE DEF d
  <2>3. /\ d.queue = <<>> /\ d.notify = FALSE /\ d.cut = TRUE /\ d.hostIndex = cl.hostIndex + 1
        /\ d.version = cl.version
    BY <2>2, <1>2, <1>4, <1>8 DEF Changes, Fields
  <2>4. Changes(cl, d, {"connected", "socket", "out", "sendPinger", "receivePinger", "connectTimer", "queue", "notify", "cut",
                     "hostIndex", "version"})
    BY <2>2, <1>2, <1>4 DEF Changes
  <2>5. Pinger(d.sendPinger) /\ Pinger(d.receivePinger)
    BY <2>2 DEF Pinger, NewPinger
  <2> QED BY <2>2, <2>3, <2>4, <2>5, <1>8, <1>9 DEF Tried, d
<1>10. CASE ~(app.uris > 0 /\ off.hostIndex < app.uris - 1) /\ off.connected
  <2>1. d = Call(down, "lost", NoMessage)
    BY <1>1, <1>10, Zenon
  <2>2. Changes(down, d, {"calls"}) /\ d.calls = Append(down.calls, [name |-> "lost", message |-> NoMessage])
    BY <2>1, <1>7, CallChanges, Zenon
  <2> HIDE DEF d
  <2>3. /\ d.connected = FALSE /\ d.socket = "none" /\ d.connectTimer = FALSE /\ d.queue = <<>>
        /\ d.notify = FALSE /\ d.cut = TRUE /\ d.sendPinger = off.sendPinger /\ d.receivePinger = off.receivePinger
        /\ down.calls = cl.calls
    BY <2>2, <1>2, <1>6, <1>8 DEF Changes, Fields
  <2>4. Changes(cl, d, {"connected", "socket", "sendPinger", "receivePinger", "connectTimer", "queue", "notify", "cut", "calls"})
    BY <2>2, <1>2, <1>6 DEF Changes
  <2>5. \E name \in {"lost", "failure"} : d.calls = Append(cl.calls, [name |-> name, message |-> NoMessage])
    BY <2>2, <2>3
  <2> QED BY <2>3, <2>4, <2>5, <1>3 DEF Lost, d
<1>11. CASE ~(app.uris > 0 /\ off.hostIndex < app.uris - 1) /\ ~off.connected /\ off.version = 4 /\ ~app.explicit
  <2>1. d = DoConnect(first)
    BY <1>1, <1>11, Zenon
  <2>2. /\ Changes(first, d, {"connected", "socket", "out", "sendPinger", "receivePinger", "connectTimer"})
        /\ d.connected = FALSE /\ d.socket = "connecting" /\ d.out = <<>>
        /\ d.sendPinger = NewPinger /\ d.receivePinger = NewPinger /\ d.connectTimer = TRUE
    BY <2>1, <1>7, DoConnectChanges, Zenon
  <2> HIDE DEF d
  <2>3. /\ d.queue = <<>> /\ d.notify = FALSE /\ d.cut = TRUE /\ d.hostIndex = 0
        /\ d.version = 3
    BY <2>2, <1>2, <1>5, <1>8 DEF Changes, Fields
  <2>4. Changes(cl, d, {"connected", "socket", "out", "sendPinger", "receivePinger", "connectTimer", "queue", "notify", "cut",
                     "hostIndex", "version"})
    BY <2>2, <1>2, <1>5 DEF Changes
  <2>5. Pinger(d.sendPinger) /\ Pinger(d.receivePinger)
    BY <2>2 DEF Pinger, NewPinger
  <2> QED BY <2>2, <2>3, <2>4, <2>5, <1>8, <1>11 DEF Tried, d
<1>12. CASE ~(app.uris > 0 /\ off.hostIndex < app.uris - 1) /\ ~off.connected /\ ~(off.version = 4 /\ ~app.explicit)
  <2>1. d = Call(off, "failure", NoMessage)
    BY <1>1, <1>12, Zenon
  <2>2. Changes(off, d, {"calls"}) /\ d.calls = Append(off.calls, [name |-> "failure", message |-> NoMessage])
    BY <2>1, <1>7, CallChanges, Zenon
  <2> HIDE DEF d
  <2>3. /\ d.connected = FALSE /\ d.socket = "none" /\ d.connectTimer = FALSE /\ d.queue = <<>>
        /\ d.notify = FALSE /\ d.cut = TRUE /\ d.sendPinger = off.sendPinger /\ d.receivePinger = off.receivePinger
        /\ off.calls = cl.calls
    BY <2>2, <1>2, <1>8, <1>12 DEF Changes, Fields
  <2>4. Changes(cl, d, {"connected", "socket", "sendPinger", "receivePinger", "connectTimer", "queue", "notify", "cut", "calls"})
    BY <2>2, <1>2 DEF Changes
  <2>5. \E name \in {"lost", "failure"} : d.calls = Append(cl.calls, [name |-> name, message |-> NoMessage])
    BY <2>2, <2>3
  <2> QED BY <2>3, <2>4, <2>5, <1>3 DEF Lost, d
<1> QED BY <1>9, <1>10, <1>11, <1>12, Zenon

(***************************************************************************)
(* Folds, turn by turn.                                                    *)
(***************************************************************************)
LEMMA Climbs ==
  ASSUME NEW n \in Nat, NEW G, 0 \in G, \A k \in 1 .. n : (k - 1) \in G => k \in G
  PROVE  n \in G
<1> SUFFICES ASSUME n \notin G PROVE FALSE
  OBVIOUS
<1> DEFINE T == {k \in 0 .. n : k \notin G}
<1>1. (\A t \in T : t \in Nat) /\ T # {}
  OBVIOUS
<1>2. PICK k \in T : \A j \in T : k <= j
  <2> HIDE DEF T
  <2> QED BY <1>1, LeastNat, Zenon
<1>3. k \in 1 .. n /\ k \notin G
  OBVIOUS
<1>4. (k - 1) \notin T
  BY <1>2, <1>3
<1>5. (k - 1) \in G
  BY <1>3, <1>4
<1> QED BY <1>3, <1>5

LEMMA FoldsResend == \A base, seq : FoldLeft(Resend, base, seq) = Folded("resend", base, seq)
<1> SUFFICES ASSUME NEW base, NEW seq
             PROVE  FoldLeft(Resend, base, seq) = Folded("resend", base, seq)
  OBVIOUS
<1>1. \A a, e : Does("resend", a, e) = Resend(a, e)
  BY DEF Does
<1>2. \A g : Taken("resend", base, seq, DOMAIN seq, g)
             = [s \in SUBSET DOMAIN seq |->
                  IF s = {} THEN base ELSE Resend(g[s \ {Max(s)}], seq[Max(s)])]
  BY <1>1, Zenon DEF Taken
<1> QED BY <1>2, Zenon DEF FoldLeft, MapThenFoldSet, Folded

LEMMA FoldsHandle == \A base, seq : FoldLeft(HandleMessage, base, seq) = Folded("handle", base, seq)
<1> SUFFICES ASSUME NEW base, NEW seq
             PROVE  FoldLeft(HandleMessage, base, seq) = Folded("handle", base, seq)
  OBVIOUS
<1>1. \A a, e : Does("handle", a, e) = HandleMessage(a, e)
  BY DEF Does
<1>2. \A g : Taken("handle", base, seq, DOMAIN seq, g)
             = [s \in SUBSET DOMAIN seq |->
                  IF s = {} THEN base ELSE HandleMessage(g[s \ {Max(s)}], seq[Max(s)])]
  BY <1>1, Zenon DEF Taken
<1> QED BY <1>2, Zenon DEF FoldLeft, MapThenFoldSet, Folded

LEMMA FoldsTold == \A base, seq : FoldLeft(Told, base, seq) = Folded("told", base, seq)
<1> SUFFICES ASSUME NEW base, NEW seq
             PROVE  FoldLeft(Told, base, seq) = Folded("told", base, seq)
  OBVIOUS
<1>1. \A a, e : Does("told", a, e) = Told(a, e)
  BY DEF Does
<1>2. \A g : Taken("told", base, seq, DOMAIN seq, g)
             = [s \in SUBSET DOMAIN seq |->
                  IF s = {} THEN base ELSE Told(g[s \ {Max(s)}], seq[Max(s)])]
  BY <1>1, Zenon DEF Taken
<1> QED BY <1>2, Zenon DEF FoldLeft, MapThenFoldSet, Folded

LEMMA FoldsInsert == \A base, seq : FoldLeft(InsertSent, base, seq) = Folded("insert", base, seq)
<1> SUFFICES ASSUME NEW base, NEW seq
             PROVE  FoldLeft(InsertSent, base, seq) = Folded("insert", base, seq)
  OBVIOUS
<1>1. \A a, e : Does("insert", a, e) = InsertSent(a, e)
  BY DEF Does
<1>2. \A g : Taken("insert", base, seq, DOMAIN seq, g)
             = [s \in SUBSET DOMAIN seq |->
                  IF s = {} THEN base ELSE InsertSent(g[s \ {Max(s)}], seq[Max(s)])]
  BY <1>1, Zenon DEF Taken
<1> QED BY <1>2, Zenon DEF FoldLeft, MapThenFoldSet, Folded

\* A sequence, of whatever elements.
Listed(s) == \E S : s \in Seq(S)

LEMMA ListedIs ==
  ASSUME NEW s, Listed(s)
  PROVE  Len(s) \in Nat /\ DOMAIN s = 1 .. Len(s)
BY DEF Listed

LEMMA ListedEmpty == Listed(<<>>)
<1>1. <<>> \in Seq({})
  OBVIOUS
<1> QED BY <1>1, Zenon DEF Listed

LEMMA Widens ==
  ASSUME NEW S, NEW T, S \subseteq T, NEW s \in Seq(S)
  PROVE  s \in Seq(T)
OBVIOUS

LEMMA ListedAppend ==
  ASSUME NEW s, Listed(s), NEW e
  PROVE  /\ Listed(Append(s, e)) /\ Len(Append(s, e)) = Len(s) + 1
         /\ Append(s, e)[Len(s) + 1] = e /\ \A i \in 1 .. Len(s) : Append(s, e)[i] = s[i]
         /\ DOMAIN Append(s, e) = 1 .. Len(s) + 1 /\ DOMAIN s = 1 .. Len(s) /\ Len(s) \in Nat
<1>1. PICK S : s \in Seq(S)
  BY Zenon DEF Listed
<1> DEFINE T == S \cup {e}
<1>2. s \in Seq(T) /\ e \in T
  <2>1. S \subseteq T /\ e \in T
    OBVIOUS
  <2> HIDE DEF T
  <2> QED BY <2>1, <1>1, Widens, Zenon
<1> HIDE DEF T
<1>3. /\ Append(s, e) \in Seq(T) /\ Len(Append(s, e)) = Len(s) + 1
      /\ \A i \in 1 .. Len(s) : Append(s, e)[i] = s[i]
      /\ Append(s, e)[Len(s) + 1] = e
  BY <1>2
<1>4. Listed(Append(s, e))
  BY <1>3, Zenon DEF Listed
<1> QED BY <1>2, <1>3, <1>4

LEMMA ListedTail ==
  ASSUME NEW s, Listed(s), s # <<>>
  PROVE  /\ Listed(Tail(s)) /\ Len(Tail(s)) = Len(s) - 1 /\ Head(s) = s[1]
         /\ \A i \in 1 .. Len(s) - 1 : Tail(s)[i] = s[i + 1]
         /\ DOMAIN Tail(s) = 1 .. Len(s) - 1 /\ DOMAIN s = 1 .. Len(s) /\ Len(s) \in Nat \ {0}
<1>1. PICK S : s \in Seq(S)
  BY Zenon DEF Listed
<1>2. Tail(s) \in Seq(S) /\ Len(Tail(s)) = Len(s) - 1 /\ Head(s) = s[1] /\ Len(s) \in Nat \ {0}
  BY <1>1
<1>3. \A i \in 1 .. Len(s) - 1 : Tail(s)[i] = s[i + 1]
  BY <1>1
<1>4. Listed(Tail(s))
  BY <1>2, Zenon DEF Listed
<1> QED BY <1>1, <1>2, <1>3, <1>4

LEMMA FoldedEmpty ==
  ASSUME NEW tag, NEW base
  PROVE  Folded(tag, base, <<>>) = base
<1>1. 0 \in Nat /\ DOMAIN <<>> = 1 .. 0
  OBVIOUS
<1>2. PICK it : Turns(tag, base, <<>>, 0, it) /\ Folded(tag, base, <<>>) = it[0]
  BY <1>1, FoldedIs
<1> QED BY <1>2 DEF Turns

LEMMA FoldedAppend ==
  ASSUME NEW tag, NEW base, NEW s, Listed(s), NEW e
  PROVE  Folded(tag, base, Append(s, e)) = Does(tag, Folded(tag, base, s), e)
<1> DEFINE n == Len(s)
           t == Append(s, e)
<1>1. /\ Len(t) = n + 1 /\ t[n + 1] = e /\ (\A i \in 1 .. n : t[i] = s[i])
      /\ DOMAIN t = 1 .. n + 1 /\ DOMAIN s = 1 .. n /\ n \in Nat
  BY ListedAppend
<1> HIDE DEF n, t
<1>2. PICK f : Turns(tag, base, s, n, f) /\ Folded(tag, base, s) = f[n]
  BY <1>1, FoldedIs
<1>3. n + 1 \in Nat
  BY <1>1
<1>4. PICK g : Turns(tag, base, t, n + 1, g) /\ Folded(tag, base, t) = g[n + 1]
  BY <1>1, <1>3, FoldedIs
<1> DEFINE G == {k \in 0 .. n : f[k] = g[k]}
<1>5. 0 \in G
  BY <1>1, <1>2, <1>4 DEF Turns
<1>6. ASSUME NEW k \in 1 .. n, (k - 1) \in G PROVE k \in G
  <2>1. f[k] = Does(tag, f[k - 1], s[k]) /\ g[k] = Does(tag, g[k - 1], t[k])
    <3>1. k \in 1 .. n + 1
      BY <1>1
    <3> QED BY <3>1, <1>2, <1>4, Zenon DEF Turns
  <2>2. t[k] = s[k] /\ f[k - 1] = g[k - 1] /\ k \in 0 .. n
    BY <1>1, <1>6
  <2>3. f[k] = g[k]
    BY <2>1, <2>2, Zenon
  <2> QED BY <2>2, <2>3
<1>7. n \in G
  <2> HIDE DEF G
  <2> QED BY <1>1, <1>5, <1>6, Climbs, Zenon
<1>8. f[n] = g[n]
  BY <1>7
<1>9. g[n + 1] = Does(tag, g[n], t[n + 1])
  <2>1. n + 1 \in 1 .. n + 1 /\ (n + 1) - 1 = n
    BY <1>1
  <2> QED BY <1>4, <2>1, Zenon DEF Turns
<1> QED BY <1>1, <1>2, <1>4, <1>8, <1>9, Zenon DEF t

(***************************************************************************)
(* The messages the client writes, and what its record holds.              *)
(***************************************************************************)

Writes(m) ==
  /\ {"type", "id"} \subseteq DOMAIN m /\ m.type \in Nat /\ m.id \in Nat
  /\ m.type = 3 => /\ "qos" \in DOMAIN m /\ m.qos \in 0 .. 2
                   /\ m.qos > 0 => m.id # NoId
  /\ m.type \in {6, 10} => m.id # NoId
  /\ m.type = 5 => m.id \in Identifiers
  /\ m.type = 8 => "requestedQos" \in DOMAIN m /\ m.requestedQos[1] \in Nat
Asks(m) == Writes(m) /\ m.type # 1

Writing(q) == Listed(q) /\ \A k \in DOMAIN q : Writes(q[k])
Asking(q)  == Listed(q) /\ \A k \in DOMAIN q : Asks(q[k])

Entry(e) == DOMAIN e = {"m", "pubRec", "sequence"} /\ Asks(e.m) /\ e.m.type \in {3, 8, 10} /\ e.m.id # NoId
SentOk(s)   == IsFiniteSet(DOMAIN s) /\ DOMAIN s \subseteq Nat /\ \A i \in DOMAIN s : Entry(s[i]) /\ s[i].m.id = i
StoredOk(s) == SentOk(s) /\ \A i \in DOMAIN s : s[i].m.type = 3

\* A message to the page: published under this identifier, and intact.
Inbound(m, n) ==
  /\ m # NoMessage /\ m.type = Code("PUBLISH")
  /\ m.payload = <<n>> /\ m.destinationName = Topic
ReceivedOk(r) == \A i \in DOMAIN r : \E n \in InMsgs : InId[n] = i /\ Inbound(r[i], n)

\* The copies in localStorage of the messages kept: all but those whose
\* handler has thrown.
Backs(r, s) ==
  /\ DOMAIN r \subseteq DOMAIN s
  /\ \A i \in DOMAIN s : IF i \in DOMAIN r THEN r[i] = s[i] ELSE HandlerThrows(s[i])

Typed(cl) ==
  /\ DOMAIN cl = Fields
  /\ cl.socket \in {"none", "connecting", "open"} /\ cl.connected \in BOOLEAN
  /\ cl.hostIndex \in Nat /\ cl.notify \in BOOLEAN
  /\ Asking(cl.queue) /\ Writing(cl.out) /\ Listed(cl.calls)
  /\ cl.identifier \in Nat \ {0}
  /\ Pinger(cl.sendPinger) /\ Pinger(cl.receivePinger)
  /\ cl.connectTimer \in BOOLEAN /\ cl.thrown \in BOOLEAN /\ cl.cut \in BOOLEAN
  /\ cl.cut => cl.socket # "open"
  /\ SentOk(cl.sent) /\ DOMAIN cl.store = {"sent", "received"} /\ StoredOk(cl.store.sent)
  /\ ReceivedOk(cl.received) /\ Backs(cl.store.received, cl.received)

(***************************************************************************)
(* Steps of the client that hand no message to the page.                   *)
(***************************************************************************)
Heard(a, calls) == Folded("told", a, calls)
Agree(x, y) == DOMAIN x = DOMAIN y /\ \A f \in DOMAIN x \ {"delivered", "last"} : x[f] = y[f]

Calls(cl, d) == \A a : Agree(Heard(a, cl.calls), Heard(a, d.calls))
Calm(cl, d) ==
  /\ d.buffer = cl.buffer
  /\ d.connected => cl.connected /\ d.hostIndex = cl.hostIndex /\ d.socket = cl.socket
  /\ ~d.cut => ~cl.cut /\ d.socket = cl.socket
  /\ \A p \in DOMAIN d.out : d.out[p].type = 1 => p \in DOMAIN cl.out /\ cl.out[p] = d.out[p]
  /\ d.socket = "connecting" => cl.socket = "connecting" \/ \A p \in DOMAIN d.out : d.out[p].type # 1
Quiet(cl, d) == Calm(cl, d) /\ d.received = cl.received /\ Calls(cl, d)

LEMMA AgreeTwice ==
  ASSUME NEW x, NEW y, NEW z, Agree(x, y), Agree(y, z)
  PROVE  Agree(x, z)
BY DEF Agree

LEMMA QuietSame == \A cl : Quiet(cl, cl)
<1>1. \A x : Agree(x, x)
  BY DEF Agree
<1> QED BY <1>1 DEF Quiet, Calm, Calls

LEMMA QuietTwice ==
  ASSUME NEW cl, NEW d, NEW e, Quiet(cl, d), Quiet(d, e)
  PROVE  Quiet(cl, e)
<1>1. Calls(cl, e)
  BY AgreeTwice DEF Quiet, Calm, Calls
<1>2. \A p \in DOMAIN e.out : e.out[p].type = 1 => p \in DOMAIN cl.out /\ cl.out[p] = e.out[p]
  BY DEF Quiet, Calm
<1> HIDE DEF Calls
<1> QED BY <1>1, <1>2 DEF Quiet, Calm

LEMMA ToldAgrees ==
  ASSUME NEW a, NEW call, call.name # "arrived"
  PROVE  Agree(a, Told(a, call))
<1> DEFINE n == IF /\ call.message # NoMessage /\ call.message.type = Code("PUBLISH")
                   /\ Len(call.message.payload) = 1
                THEN call.message.payload[1] ELSE -1
           x == [a EXCEPT !.delivered = @ \cup {n}]
           y == [a EXCEPT !.last = call.name]
<1>1. Told(a, call) = x \/ Told(a, call) = y \/ Told(a, call) = a
  <2> HIDE DEF x, y
  <2>1. Told(a, call) =
     CASE call.name = "arrived" /\ (n \in InMsgs /\ call.message.destinationName = Topic) -> [a EXCEPT !.arrived[n] = @ + 1]
       [] call.name = "arrived" /\ ~(n \in InMsgs /\ call.message.destinationName = Topic) -> [a EXCEPT !.corrupt = TRUE]
       [] call.name = "delivered" /\ n \in OutMsgs -> x
       [] call.name \in {"success", "failure", "lost"} -> y
       [] OTHER -> a
    BY Zenon DEF Told, x, y
  <2> HIDE DEF n
  <2> QED BY <2>1
<1> HIDE DEF n
<1>2. Agree(a, x)
  BY DEF Agree
<1>3. Agree(a, y)
  BY DEF Agree
<1>4. Agree(a, a)
  BY DEF Agree
<1> HIDE DEF x, y
<1> QED BY <1>1, <1>2, <1>3, <1>4, Zenon

LEMMA HeardMore ==
  ASSUME NEW s, Listed(s), NEW call, call.name # "arrived", NEW a
  PROVE  Agree(Heard(a, s), Heard(a, Append(s, call)))
<1>1. Folded("told", a, Append(s, call)) = Does("told", Folded("told", a, s), call)
  BY FoldedAppend
<1>2. \A x : Does("told", x, call) = Told(x, call)
  BY DEF Does
<1> QED BY <1>1, <1>2, ToldAgrees, Zenon DEF Heard

LEMMA CallQuiet ==
  ASSUME NEW cl, Typed(cl), NEW name, name # "arrived", NEW m
  PROVE  Typed(Call(cl, name, m)) /\ Quiet(cl, Call(cl, name, m))
<1> DEFINE d == Call(cl, name, m)
           e == [name |-> name, message |-> m]
<1>1. DOMAIN cl = Fields /\ Listed(cl.calls) /\ e.name # "arrived"
  BY DEF Typed
<1>2. Changes(cl, d, {"calls"}) /\ d.calls = Append(cl.calls, e)
  BY <1>1, CallChanges, Zenon
<1> HIDE DEF d, e
<1>3. Listed(d.calls) /\ \A a : Agree(Heard(a, cl.calls), Heard(a, d.calls))
  <2>1. Listed(d.calls)
    BY <1>1, <1>2, ListedAppend
  <2>2. ASSUME NEW a PROVE Agree(Heard(a, cl.calls), Heard(a, Append(cl.calls, e)))
    BY <1>1, HeardMore
  <2> QED BY <2>1, <2>2, <1>2, Zenon
<1>4. Typed(d)
  BY <1>2, <1>3 DEF Typed, Changes, Fields
<1>5. Quiet(cl, d)
  BY <1>2, <1>3 DEF Typed, Changes, Fields, Quiet, Calm, Calls
<1> QED BY <1>4, <1>5 DEF d

LEMMA WritingAppend ==
  ASSUME NEW q, NEW m
  PROVE  /\ Writing(q) /\ Writes(m) => Writing(Append(q, m))
         /\ Asking(q) /\ Asks(m) => Asking(Append(q, m))
<1>1. ASSUME Listed(q)
      PROVE  \A k \in DOMAIN Append(q, m) : Append(q, m)[k] = m \/ (k \in DOMAIN q /\ Append(q, m)[k] = q[k])
  <2>1. /\ Append(q, m)[Len(q) + 1] = m /\ (\A i \in 1 .. Len(q) : Append(q, m)[i] = q[i])
        /\ DOMAIN Append(q, m) = 1 .. Len(q) + 1 /\ DOMAIN q = 1 .. Len(q) /\ Len(q) \in Nat
    BY <1>1, ListedAppend
  <2> QED BY <2>1
<1>2. Listed(q) => Listed(Append(q, m))
  BY ListedAppend
<1> QED BY <1>1, <1>2, Zenon DEF Writing, Asking

LEMMA EmptyLists == Asking(<<>>) /\ Writing(<<>>)
<1>1. DOMAIN <<>> = {}
  OBVIOUS
<1> QED BY <1>1, ListedEmpty, Zenon DEF Asking, Writing

LEMMA SocketSendQuiet ==
  ASSUME NEW cl, Typed(cl), NEW m, Asks(m)
  PROVE  Typed(SocketSend(cl, m)) /\ Quiet(cl, SocketSend(cl, m))
<1> DEFINE d == SocketSend(cl, m)
<1>0. DOMAIN cl = Fields /\ Writing(cl.out) /\ Listed(cl.out) /\ Writes(m)
  BY DEF Typed, Writing, Asks
<1>1. /\ cl.socket # "open" => Changes(cl, d, {"thrown"}) /\ d.thrown = TRUE
      /\ cl.socket = "open" => /\ Changes(cl, d, {"out", "sendPinger"})
                               /\ d.out = Append(cl.out, m)
                               /\ d.sendPinger = [armed |-> TRUE, isReset |-> TRUE]
  BY <1>0, SocketSendChanges, Zenon
<1> HIDE DEF d
<1>2. \A x : Agree(x, x)
  BY DEF Agree
<1>3. CASE cl.socket # "open"
  <2>1. Typed(d)
    BY <1>1, <1>3 DEF Typed, Changes, Fields
  <2>2. Quiet(cl, d)
    BY <1>1, <1>2, <1>3 DEF Typed, Changes, Fields, Quiet, Calm, Calls
  <2> QED BY <2>1, <2>2 DEF d
<1>4. CASE cl.socket = "open"
  <2>0. Writing(d.out)
    BY <1>0, <1>1, <1>4, WritingAppend, Zenon
  <2>1. Typed(d)
    <3>1. Pinger(d.sendPinger)
      <4>1. Pinger([armed |-> TRUE, isReset |-> TRUE])
        BY DEF Pinger
      <4> QED BY <1>1, <1>4, <4>1, Zenon
    <3> QED BY <1>1, <1>4, <2>0, <3>1 DEF Typed, Changes, Fields
  <2>2. \A p \in DOMAIN d.out : d.out[p].type = 1 => p \in DOMAIN cl.out /\ cl.out[p] = d.out[p]
    <3>1. /\ Append(cl.out, m)[Len(cl.out) + 1] = m /\ (\A i \in 1 .. Len(cl.out) : Append(cl.out, m)[i] = cl.out[i])
          /\ DOMAIN Append(cl.out, m) = 1 .. Len(cl.out) + 1 /\ DOMAIN cl.out = 1 .. Len(cl.out) /\ Len(cl.out) \in Nat
      BY <1>0, ListedAppend
    <3> QED BY <3>1, <1>1, <1>4 DEF Asks
  <2>3. Quiet(cl, d)
    BY <1>1, <1>2, <1>4, <2>2 DEF Typed, Changes, Fields, Quiet, Calm, Calls
  <2> QED BY <2>1, <2>3 DEF d
<1> QED BY <1>3, <1>4

LEMMA DisconnectedQuiet ==
  ASSUME NEW cl, Typed(cl)
  PROVE  /\ Typed(Disconnected(cl)) /\ Quiet(cl, Disconnected(cl))
         /\ ~Disconnected(cl).connected /\ Disconnected(cl).cut /\ Disconnected(cl).notify = FALSE
         /\ Lost(cl, Disconnected(cl)) \/ Tried(cl, Disconnected(cl))
<1> DEFINE d == Disconnected(cl)
<1>0. DOMAIN cl = Fields /\ Pinger(cl.sendPinger) /\ Pinger(cl.receivePinger) /\ cl.connected \in BOOLEAN /\ Listed(cl.calls)
  BY DEF Typed
<1>1. /\ d.queue = <<>> /\ d.notify = FALSE /\ d.cut = TRUE /\ Pinger(d.sendPinger) /\ Pinger(d.receivePinger)
      /\ Lost(cl, d) \/ Tried(cl, d)
  BY <1>0, DisconnectedChanges, Zenon
<1> HIDE DEF d
<1>2. \A x : Agree(x, x)
  BY DEF Agree
<1>3. CASE Lost(cl, d)
  <2>1. PICK name \in {"lost", "failure"} : d.calls = Append(cl.calls, [name |-> name, message |-> NoMessage])
    BY <1>3 DEF Lost
  <2> DEFINE e == [name |-> name, message |-> NoMessage]
  <2>2. e.name # "arrived"
    OBVIOUS
  <2>3. d.calls = Append(cl.calls, e)
    BY <2>1
  <2> HIDE DEF e
  <2>4. Listed(d.calls) /\ \A a : Agree(Heard(a, cl.calls), Heard(a, d.calls))
    <3>1. Listed(d.calls)
      BY <1>0, <2>3, ListedAppend
    <3>2. ASSUME NEW a PROVE Agree(Heard(a, cl.calls), Heard(a, Append(cl.calls, e)))
      BY <1>0, <2>2, HeardMore
    <3> QED BY <3>1, <3>2, <2>3, Zenon
  <2>5. Typed(d)
    BY <1>1, <1>3, <2>4, EmptyLists DEF Lost, Typed, Changes, Fields
  <2>6. Quiet(cl, d)
    BY <1>1, <1>3, <2>4 DEF Lost, Typed, Changes, Fields, Quiet, Calm, Calls
  <2> QED BY <1>1, <1>3, <2>5, <2>6 DEF d, Lost
<1>4. CASE Tried(cl, d)
  <2>1. Typed(d)
    <3>1. d.hostIndex \in Nat
      BY <1>4 DEF Tried, Typed
    <3>2. Writing(d.out) /\ Asking(d.queue)
      BY <1>1, <1>4, EmptyLists, Zenon DEF Tried
    <3>3. d.calls = cl.calls /\ d.identifier = cl.identifier /\ d.sent = cl.sent /\ d.store = cl.store
          /\ d.received = cl.received /\ d.thrown = cl.thrown /\ DOMAIN d = Fields
      BY <1>4 DEF Tried, Changes, Fields
    <3>4. d.connected = FALSE /\ d.socket = "connecting" /\ d.connectTimer = TRUE
      BY <1>4 DEF Tried
    <3> QED BY <1>1, <3>1, <3>2, <3>3, <3>4 DEF Typed
  <2>2. DOMAIN d.out = {}
    BY <1>4 DEF Tried
  <2>3. Quiet(cl, d)
    BY <1>1, <1>2, <1>4, <2>2 DEF Tried, Typed, Changes, Fields, Quiet, Calm, Calls
  <2> QED BY <1>1, <1>4, <2>1, <2>3 DEF d, Tried
<1> QED BY <1>1, <1>3, <1>4

(***************************************************************************)
(* A client that is connected, and one that has given the connection up.   *)
(***************************************************************************)
Up(cl)   == cl.connected /\ cl.socket = "open" /\ (app.uris > 0 => cl.hostIndex = app.uris)
Gone(cl) == /\ ~cl.connected /\ cl.socket = "none" /\ ~cl.connectTimer
            /\ ~cl.sendPinger.armed /\ ~cl.receivePinger.armed
Keeps(cl, d) ==
  Typed(d) /\ Quiet(cl, d) /\ (Up(cl) => Up(d) \/ Gone(d)) /\ (Gone(cl) => Gone(d))

LEMMA KeepsSame == \A cl : Typed(cl) => Keeps(cl, cl)
BY QuietSame DEF Keeps

LEMMA KeepsTwice ==
  ASSUME NEW cl, NEW d, NEW e, Keeps(cl, d), Keeps(d, e)
  PROVE  Keeps(cl, e)
BY QuietTwice DEF Keeps

\* Fields that no message, no socket and no timer depends on.
Idle == {"queue", "notify", "sent", "identifier", "sequence", "version", "store", "thrown"}
LEMMA IdleKeeps ==
  ASSUME NEW cl, NEW d, Typed(cl), Typed(d), Changes(cl, d, Idle)
  PROVE  Keeps(cl, d)
<1>1. \A x : Agree(x, x)
  BY DEF Agree
<1>2. /\ d.received = cl.received /\ d.buffer = cl.buffer /\ d.connected = cl.connected /\ d.hostIndex = cl.hostIndex
      /\ d.cut = cl.cut /\ d.socket = cl.socket /\ d.out = cl.out /\ d.calls = cl.calls
      /\ d.connectTimer = cl.connectTimer /\ d.sendPinger = cl.sendPinger /\ d.receivePinger = cl.receivePinger
  BY DEF Changes, Fields, Idle
<1>3. Quiet(cl, d)
  BY <1>1, <1>2 DEF Quiet, Calm, Calls
<1> QED BY <1>2, <1>3 DEF Keeps, Up, Gone

LEMMA UpLeaves ==
  ASSUME NEW cl, Typed(cl), app.uris \in Nat
  PROVE  /\ Up(cl) => Gone(Disconnected(cl)) /\ Keeps(cl, Disconnected(cl))
         /\ Lost(cl, Disconnected(cl)) => Gone(Disconnected(cl))
<1> DEFINE d == Disconnected(cl)
<1>1. Typed(d) /\ Quiet(cl, d) /\ (Lost(cl, d) \/ Tried(cl, d))
  BY DisconnectedQuiet, Zenon
<1> HIDE DEF d
<1>2. Lost(cl, d) => Gone(d)
  BY DEF Lost, Gone
<1>3. Up(cl) => ~Tried(cl, d)
  <2>1. Tried(cl, d) => cl.hostIndex < app.uris - 1 \/ ~cl.connected
    BY DEF Tried
  <2>2. cl.hostIndex \in Nat
    BY DEF Typed
  <2> QED BY <2>1, <2>2 DEF Up
<1>4. Up(cl) => ~Gone(cl)
  BY DEF Up, Gone
<1> QED BY <1>1, <1>2, <1>3, <1>4 DEF Keeps, d

LEMMA SocketSendKeeps ==
  ASSUME NEW cl, Typed(cl), NEW m, Asks(m)
  PROVE  /\ Keeps(cl, SocketSend(cl, m))
         /\ cl.socket = "open" => SocketSend(cl, m).thrown = cl.thrown
         /\ SocketSend(cl, m).notify = cl.notify
<1> DEFINE d == SocketSend(cl, m)
<1>0. DOMAIN cl = Fields
  BY DEF Typed
<1>1. /\ cl.socket # "open" => Changes(cl, d, {"thrown"}) /\ d.thrown = TRUE
      /\ cl.socket = "open" => Changes(cl, d, {"out", "sendPinger"})
  BY <1>0, SocketSendChanges, Zenon
<1>2. Typed(d) /\ Quiet(cl, d)
  BY SocketSendQuiet, Zenon
<1> HIDE DEF d
<1>3. (Up(cl) => Up(d)) /\ (Gone(cl) => Gone(d))
  BY <1>1 DEF Up, Gone, Changes, Fields
<1>4. d.notify = cl.notify /\ (cl.socket = "open" => d.thrown = cl.thrown)
  BY <1>1 DEF Changes, Fields
<1> QED BY <1>2, <1>3, <1>4 DEF Keeps, d

LEMMA SendNextKeeps ==
  ASSUME NEW cl, Typed(cl), NEW m, Asks(m), app.uris \in Nat
  PROVE  /\ Typed(SendNext(cl, m)) /\ Quiet(cl, SendNext(cl, m))
         /\ Up(cl) => Up(SendNext(cl, m)) \/ Gone(SendNext(cl, m))
         /\ Gone(cl) => Gone(SendNext(cl, m))
         /\ Up(cl) /\ cl.notify /\ ~cl.thrown => Gone(SendNext(cl, m))
<1> DEFINE s == SocketSend(cl, m)
           d == Disconnected(s)
           e == [d EXCEPT !.notify = FALSE]
<1>1. SendNext(cl, m) = IF cl.thrown THEN cl ELSE IF ~s.thrown /\ s.notify THEN e ELSE s
  BY Zenon DEF SendNext
<1>2. Keeps(cl, s) /\ (cl.socket = "open" => s.thrown = cl.thrown) /\ s.notify = cl.notify
  BY SocketSendKeeps, Zenon
<1>3. Keeps(cl, cl)
  BY KeepsSame
<1>4. Up(cl) => ~Gone(cl) /\ cl.socket = "open" /\ Up(s)
  <2>1. Changes(cl, s, {"out", "sendPinger"}) \/ cl.socket # "open"
    <3>1. DOMAIN cl = Fields
      BY DEF Typed
    <3> QED BY <3>1, SocketSendChanges, Zenon
  <2> HIDE DEF s
  <2> QED BY <2>1 DEF Up, Gone, Changes, Fields
<1> HIDE DEF s
<1>5. Typed(s) /\ Quiet(cl, s)
  BY <1>2 DEF Keeps
<1>6. Typed(d) /\ Quiet(s, d) /\ (Up(s) => Gone(d))
  BY <1>5, DisconnectedQuiet, UpLeaves, Zenon
<1> HIDE DEF d
<1>7. Changes(d, e, {"notify"}) /\ e.notify = FALSE
  BY <1>6 DEF Typed, Changes, Fields
<1> HIDE DEF e
<1>8. Typed(e) /\ Changes(d, e, Idle)
  BY <1>6, <1>7 DEF Typed, Changes, Fields, Idle
<1>9. Keeps(d, e)
  BY <1>6, <1>8, IdleKeeps
<1>10. Typed(e) /\ Quiet(cl, e) /\ (Up(cl) => Gone(e))
  BY <1>4, <1>5, <1>6, <1>9, QuietTwice DEF Keeps
<1>11. Gone(cl) => s.thrown \/ cl.thrown
  <2>1. Gone(cl) => s.thrown
    <3>1. Gone(cl) => cl.socket # "open" /\ DOMAIN cl = Fields
      BY DEF Gone, Typed
    <3> QED BY <3>1, SocketSendChanges, Zenon DEF s
  <2> QED BY <2>1
<1> QED BY <1>1, <1>2, <1>3, <1>4, <1>10, <1>11 DEF Keeps

LEMMA ProcessQueueKeeps ==
  ASSUME NEW cl, Typed(cl), app.uris \in Nat
  PROVE  /\ Keeps(cl, ProcessQueue(cl))
         /\ Up(cl) /\ cl.notify /\ ~cl.thrown /\ cl.queue # <<>> => Gone(ProcessQueue(cl))
<1> DEFINE base == [cl EXCEPT !.queue = <<>>]
           q    == cl.queue
           n    == Len(q)
           d    == ProcessQueue(cl)
<1>1. d = Folded("send", base, q)
  BY FoldsSend, Zenon DEF ProcessQueue
<1>2. Asking(q) /\ n \in Nat /\ DOMAIN q = 1 .. n /\ (n = 0 => q = <<>>)
  <2>1. Asking(q) /\ Listed(q)
    BY DEF Typed, Asking
  <2> QED BY <2>1 DEF Listed
<1>3. Changes(cl, base, {"queue"}) /\ base.queue = <<>>
  BY DEF Typed, Changes, Fields
<1> HIDE DEF base, d
<1>4. Typed(base) /\ Changes(cl, base, Idle)
  BY <1>3, EmptyLists DEF Typed, Changes, Fields, Idle
<1>5. Keeps(cl, base) /\ (Up(cl) /\ cl.notify /\ ~cl.thrown => Up(base) /\ base.notify /\ ~base.thrown)
  <2>1. Keeps(cl, base)
    BY <1>4, IdleKeeps
  <2> QED BY <2>1, <1>3 DEF Up, Changes, Fields
<1> HIDE DEF q, n
<1>6. PICK it : Turns("send", base, q, n, it) /\ Folded("send", base, q) = it[n]
  BY <1>2, FoldedIs
<1>7. it[0] = base /\ \A k \in 1 .. n : it[k] = SendNext(it[k - 1], q[k]) /\ Asks(q[k])
  <2>1. \A x, y : Does("send", x, y) = SendNext(x, y)
    BY DEF Does
  <2>2. \A k \in 1 .. n : Asks(q[k])
    BY <1>2 DEF Asking
  <2> QED BY <1>6, <2>1, <2>2, Zenon DEF Turns
<1> DEFINE G == {k \in 0 .. n : Keeps(base, it[k])}
           H == {k \in 0 .. n : Keeps(base, it[k]) /\ (k >= 1 => Gone(it[k]))}
<1>8. n \in G
  <2>1. 0 \in G
    BY <1>2, <1>4, <1>7, KeepsSame
  <2>2. ASSUME NEW k \in 1 .. n, (k - 1) \in G PROVE k \in G
    <3>1. Keeps(base, it[k - 1]) /\ it[k] = SendNext(it[k - 1], q[k]) /\ Asks(q[k]) /\ k \in 0 .. n
      BY <2>2, <1>7
    <3>2. Keeps(it[k - 1], SendNext(it[k - 1], q[k]))
      <4>1. Typed(it[k - 1])
        BY <3>1 DEF Keeps
      <4> QED BY <4>1, <3>1, SendNextKeeps, Zenon DEF Keeps
    <3>3. Keeps(base, it[k])
      BY <3>1, <3>2, KeepsTwice, Zenon
    <3> QED BY <3>1, <3>3
  <2> HIDE DEF G
  <2> QED BY <1>2, <2>1, <2>2, Climbs, Zenon
<1>9. ASSUME Up(base), base.notify, ~base.thrown PROVE n \in H
  <2>1. 0 \in H
    BY <1>2, <1>4, <1>7, KeepsSame
  <2>2. ASSUME NEW k \in 1 .. n, (k - 1) \in H PROVE k \in H
    <3>1. Keeps(base, it[k - 1]) /\ it[k] = SendNext(it[k - 1], q[k]) /\ Asks(q[k]) /\ k \in 0 .. n
      BY <2>2, <1>7
    <3>2. /\ Keeps(it[k - 1], SendNext(it[k - 1], q[k])) /\ (Gone(it[k - 1]) => Gone(it[k]))
          /\ (Up(it[k - 1]) /\ it[k - 1].notify /\ ~it[k - 1].thrown => Gone(it[k]))
      <4>1. Typed(it[k - 1])
        BY <3>1 DEF Keeps
      <4> QED BY <4>1, <3>1, SendNextKeeps, Zenon DEF Keeps
    <3>3. Keeps(base, it[k])
      BY <3>1, <3>2, KeepsTwice, Zenon
    <3>4. Gone(it[k])
      <4>1. CASE k = 1
        <5>1. it[k - 1] = base
          BY <4>1, <1>7
        <5> QED BY <5>1, <3>2, <1>9, Zenon
      <4>2. CASE k # 1
        <5>1. k - 1 >= 1
          BY <4>2
        <5>2. Gone(it[k - 1])
          BY <5>1, <2>2
        <5> QED BY <5>2, <3>2, Zenon
      <4> QED BY <4>1, <4>2
    <3> QED BY <3>1, <3>3, <3>4
  <2> HIDE DEF H
  <2> QED BY <1>2, <2>1, <2>2, Climbs, Zenon
<1>10. Keeps(cl, d)
  BY <1>1, <1>5, <1>6, <1>8, KeepsTwice
<1>11. ASSUME Up(cl), cl.notify, ~cl.thrown, q # <<>> PROVE Gone(d)
  <2>1. n \in H /\ n >= 1
    BY <1>2, <1>5, <1>9, <1>11
  <2> QED BY <2>1, <1>1, <1>6
<1> QED BY <1>10, <1>11 DEF d, q

LEMMA ScheduleKeeps ==
  ASSUME NEW cl, Typed(cl), NEW m, Asks(m), app.uris \in Nat
  PROVE  /\ Keeps(cl, Schedule(cl, m))
         /\ Up(cl) /\ cl.notify /\ ~cl.thrown => Gone(Schedule(cl, m))
<1> DEFINE e == [cl EXCEPT !.queue = Append(@, m)]
<1>1. Schedule(cl, m) = IF cl.thrown THEN cl ELSE IF cl.connected THEN ProcessQueue(e) ELSE e
  BY Zenon DEF Schedule
<1>2. Changes(cl, e, {"queue"}) /\ e.queue = Append(cl.queue, m)
  BY DEF Typed, Changes, Fields
<1> HIDE DEF e
<1>3. Asking(e.queue) /\ e.queue # <<>>
  <2>1. Asking(cl.queue) /\ Listed(cl.queue)
    BY DEF Typed, Asking
  <2>2. Len(e.queue) = Len(cl.queue) + 1 /\ Len(cl.queue) \in Nat
    BY <1>2, <2>1, ListedAppend
  <2>3. e.queue # <<>>
    BY <2>2
  <2> QED BY <1>2, <2>1, <2>3, WritingAppend, Zenon
<1>4. Typed(e) /\ Changes(cl, e, Idle)
  BY <1>2, <1>3 DEF Typed, Changes, Fields, Idle
<1>5. Keeps(cl, e) /\ (Up(cl) /\ cl.notify /\ ~cl.thrown => Up(e) /\ e.notify /\ ~e.thrown)
  <2>1. Keeps(cl, e)
    BY <1>4, IdleKeeps
  <2> QED BY <2>1, <1>2 DEF Up, Changes, Fields
<1>6. Keeps(e, ProcessQueue(e)) /\ (Up(e) /\ e.notify /\ ~e.thrown /\ e.queue # <<>> => Gone(ProcessQueue(e)))
  BY <1>4, ProcessQueueKeeps, Zenon
<1>7. Keeps(cl, ProcessQueue(e)) /\ Keeps(cl, cl)
  BY <1>5, <1>6, KeepsTwice, KeepsSame, Zenon
<1>8. Up(cl) => cl.connected
  BY DEF Up
<1> QED BY <1>1, <1>3, <1>5, <1>6, <1>7, <1>8, Zenon

(***************************************************************************)
(* The messages that wait for an answer.                                   *)
(***************************************************************************)
LEMMA PutIs ==
  ASSUME NEW f, NEW k, NEW v
  PROVE  /\ DOMAIN Put(f, k, v) = DOMAIN f \cup {k} /\ Put(f, k, v)[k] = v
         /\ \A x \in DOMAIN f \ {k} : Put(f, k, v)[x] = f[x]
BY DEF Put

LEMMA SentPut ==
  ASSUME NEW s, SentOk(s), NEW i \in Nat, NEW e, Entry(e), e.m.id = i
  PROVE  SentOk(Put(s, i, e)) /\ (StoredOk(s) /\ e.m.type = 3 => StoredOk(Put(s, i, e)))
<1> DEFINE p == Put(s, i, e)
<1>1. DOMAIN p = DOMAIN s \cup {i} /\ p[i] = e /\ \A x \in DOMAIN s \ {i} : p[x] = s[x]
  <2>1. /\ DOMAIN Put(s, i, e) = DOMAIN s \cup {i} /\ Put(s, i, e)[i] = e
        /\ \A x \in DOMAIN s \ {i} : Put(s, i, e)[x] = s[x]
    BY DEF Put
  <2> QED BY <2>1, Zenon
<1> HIDE DEF p
<1>2. IsFiniteSet(DOMAIN p)
  <2>1. IsFiniteSet(DOMAIN s)
    BY DEF SentOk
  <2>2. IsFiniteSet(DOMAIN s \cup {i})
    BY <2>1, FS_AddElement
  <2> QED BY <2>2, <1>1
<1>3. \A x \in DOMAIN p : x \in Nat /\ Entry(p[x]) /\ p[x].m.id = x
  BY <1>1 DEF SentOk
<1>4. SentOk(p)
  BY <1>2, <1>3 DEF SentOk
<1>5. StoredOk(s) /\ e.m.type = 3 => StoredOk(p)
  BY <1>1, <1>4 DEF StoredOk
<1> QED BY <1>4, <1>5 DEF p

LEMMA SentPart ==
  ASSUME NEW s, SentOk(s), NEW S, S \subseteq DOMAIN s
  PROVE  SentOk([x \in S |-> s[x]]) /\ (StoredOk(s) => StoredOk([x \in S |-> s[x]]))
<1> DEFINE p == [x \in S |-> s[x]]
<1>1. DOMAIN p = S /\ \A x \in S : p[x] = s[x]
  OBVIOUS
<1> HIDE DEF p
<1>2. IsFiniteSet(DOMAIN p)
  <2>1. IsFiniteSet(DOMAIN s)
    BY DEF SentOk
  <2> QED BY <2>1, <1>1, FS_Subset
<1>3. \A x \in DOMAIN p : x \in Nat /\ Entry(p[x]) /\ p[x].m.id = x
  BY <1>1 DEF SentOk
<1>4. SentOk(p)
  BY <1>2, <1>3 DEF SentOk
<1>5. StoredOk(s) => StoredOk(p)
  BY <1>1, <1>4 DEF StoredOk
<1> QED BY <1>4, <1>5 DEF p

LEMMA SentDrop ==
  ASSUME NEW s, SentOk(s), NEW i
  PROVE  SentOk(Drop(s, i)) /\ (StoredOk(s) => StoredOk(Drop(s, i)))
<1>1. DOMAIN s \ {i} \subseteq DOMAIN s
  OBVIOUS
<1> QED BY <1>1, SentPart, Zenon DEF Drop

LEMMA NoneSent == SentOk(NoEntries) /\ StoredOk(NoEntries) /\ DOMAIN NoEntries = {}
<1>1. DOMAIN NoEntries = {}
  BY DEF NoEntries
<1>2. IsFiniteSet({})
  BY FS_EmptySet
<1> QED BY <1>1, <1>2, Zenon DEF SentOk, StoredOk

LEMMA FreeIs ==
  ASSUME NEW n \in Nat \ {0}, NEW S, IsFiniteSet(S)
  PROVE  LET free == (n .. n + Cardinality(S)) \ S
             id   == CHOOSE i \in free : \A j \in free : i <= j
         IN id \in Nat \ {0} /\ id \notin S
<1> DEFINE w == Cardinality(S)
           free == (n .. n + w) \ S
           id   == CHOOSE i \in free : \A j \in free : i <= j
<1>1. w \in Nat
  BY FS_CardinalityType
<1> HIDE DEF w
<1>2. free # {}
  <2> SUFFICES ASSUME free = {} PROVE FALSE
    OBVIOUS
  <2>1. n .. n + w \subseteq S
    OBVIOUS
  <2>2. Cardinality(n .. n + w) <= w
    BY <2>1, FS_Subset DEF w
  <2>3. ((n + w) - n) + 1 = w + 1 /\ n \in Int /\ n + w \in Int /\ ~(n > n + w)
    BY <1>1
  <2>4. Cardinality(n .. n + w) = w + 1
    <3>1. Cardinality(n .. n + w) = ((n + w) - n) + 1
      BY <2>3, FS_Interval
    <3> QED BY <3>1, <2>3
  <2> QED BY <1>1, <2>2, <2>4
<1>3. \A x \in free : x \in Nat \ {0} /\ x \notin S
  BY <1>1
<1> HIDE DEF free
<1>4. \E m \in free : \A j \in free : m <= j
  BY <1>2, <1>3, LeastNat
<1>5. id \in free
  BY <1>4, Zenon
<1> QED BY <1>3, <1>5, Zenon DEF free, w

\* A message to be numbered.
Plain(m) ==
  /\ {"type", "id"} \subseteq DOMAIN m /\ m.type \in {3, 8, 10}
  /\ m.type = 3 => "qos" \in DOMAIN m /\ m.qos \in 0 .. 2
  /\ m.type = 8 => "requestedQos" \in DOMAIN m /\ m.requestedQos[1] \in Nat

LEMMA Numbered ==
  ASSUME NEW m, Plain(m), NEW i \in Nat \ {0}
  PROVE  LET e == [m EXCEPT !.id = i] IN Asks(e) /\ e.id = i /\ e.type = m.type
BY DEF Plain, Asks, Writes, NoId

LEMMA EntryOf ==
  ASSUME NEW m, Asks(m), m.type \in {3, 8, 10}, m.id # NoId, NEW p, NEW x
  PROVE  Entry([m |-> m, pubRec |-> p, sequence |-> x]) /\ Entry(Stored([m |-> m, pubRec |-> p, sequence |-> x]))
         /\ [m |-> m, pubRec |-> p, sequence |-> x].m = m /\ Stored([m |-> m, pubRec |-> p, sequence |-> x]).m = m
BY DEF Entry, Stored

LEMMA RequiresAckKeeps ==
  ASSUME NEW cl, Typed(cl), NEW m, Plain(m)
  PROVE  /\ Keeps(cl, RequiresAck(cl, m))
         /\ ~RequiresAck(cl, m).thrown => LastId(cl, RequiresAck(cl, m)) \in DOMAIN RequiresAck(cl, m).sent
         /\ ~RequiresAck(cl, m).thrown => RequiresAck(cl, m).notify = cl.notify /\ ~cl.thrown /\ (Up(cl) => Up(RequiresAck(cl, m)))
<1> DEFINE free  == (cl.identifier .. cl.identifier + Cardinality(DOMAIN cl.sent)) \ DOMAIN cl.sent
           id    == CHOOSE i \in free : \A j \in free : i <= j
           isPublish == m.type = Code("PUBLISH")
           entry == [m |-> [m EXCEPT !.id = id], pubRec |-> FALSE,
                     sequence |-> IF isPublish THEN cl.sequence + 1 ELSE 0]
           e == [cl EXCEPT !.thrown = TRUE]
           d == [cl EXCEPT
             !.sent = Put(@, id, entry),
             !.sequence = IF isPublish THEN @ + 1 ELSE @,
             !.store.sent = IF isPublish THEN Put(@, id, Stored(entry)) ELSE @,
             !.identifier = IF id = MaxMessageIdentifier THEN 1 ELSE id]
<1>1. RequiresAck(cl, m) = IF cl.thrown THEN cl
                           ELSE IF Cardinality(DOMAIN cl.sent) > MaxMessageIdentifier THEN e ELSE d
  BY Zenon DEF RequiresAck
<1>2. id \in Nat \ {0} /\ id \notin DOMAIN cl.sent
  <2>1. cl.identifier \in Nat \ {0} /\ IsFiniteSet(DOMAIN cl.sent)
    BY DEF Typed, SentOk
  <2> QED BY <2>1, FreeIs, Zenon
<1> HIDE DEF id
<1>3. Entry(entry) /\ Entry(Stored(entry)) /\ entry.m.id = id /\ Stored(entry).m.id = id
      /\ (isPublish => Stored(entry).m.type = 3)
  <2> DEFINE mm == [m EXCEPT !.id = id]
             x  == IF isPublish THEN cl.sequence + 1 ELSE 0
  <2>1. Asks(mm) /\ mm.id = id /\ mm.type = m.type /\ m.type \in {3, 8, 10} /\ mm.id # NoId
    <3>1. Asks(mm) /\ mm.id = id /\ mm.type = m.type
      BY <1>2, Numbered, Zenon
    <3> QED BY <3>1, <1>2 DEF Plain, NoId
  <2> HIDE DEF mm, x
  <2>2. Entry([m |-> mm, pubRec |-> FALSE, sequence |-> x]) /\ Entry(Stored([m |-> mm, pubRec |-> FALSE, sequence |-> x]))
         /\ [m |-> mm, pubRec |-> FALSE, sequence |-> x].m = mm /\ Stored([m |-> mm, pubRec |-> FALSE, sequence |-> x]).m = mm
    BY <2>1, EntryOf
  <2>3. isPublish => mm.type = 3
    BY <2>1, Codes
  <2> QED BY <2>1, <2>2, <2>3, Zenon DEF mm, x
<1> HIDE DEF entry
<1>4. SentOk(Put(cl.sent, id, entry)) /\ (isPublish => StoredOk(Put(cl.store.sent, id, Stored(entry))))
  <2>1. SentOk(cl.sent) /\ SentOk(cl.store.sent) /\ StoredOk(cl.store.sent) /\ id \in Nat
    BY <1>2 DEF Typed, StoredOk
  <2> QED BY <2>1, <1>3, SentPut
<1> DEFINE s == Put(cl.sent, id, entry)
           t == Put(cl.store.sent, id, Stored(entry))
           fields == {"sent", "sequence", "store", "identifier"}
<1>5. Changes(cl, e, {"thrown"}) /\ e.thrown = TRUE
  BY DEF Typed, Changes, Fields
<1>6. /\ Changes(cl, d, fields) /\ d.sent = s
      /\ DOMAIN d.store = {"sent", "received"} /\ d.store.received = cl.store.received
      /\ d.store.sent = (IF isPublish THEN t ELSE cl.store.sent)
      /\ d.identifier = IF id = MaxMessageIdentifier THEN 1 ELSE id
  <2> HIDE DEF s, t, isPublish
  <2>1. d = [cl EXCEPT
             !.sent = s,
             !.sequence = IF isPublish THEN @ + 1 ELSE @,
             !.store.sent = IF isPublish THEN t ELSE @,
             !.identifier = IF id = MaxMessageIdentifier THEN 1 ELSE id]
    BY Zenon DEF s, t
  <2> HIDE DEF d, entry
  <2> DEFINE ss == IF isPublish THEN t ELSE cl.store.sent
             qq == IF isPublish THEN cl.sequence + 1 ELSE cl.sequence
             ii == IF id = MaxMessageIdentifier THEN 1 ELSE id
  <2>2. d = [cl EXCEPT !.sent = s, !.sequence = qq, !.store.sent = ss, !.identifier = ii]
    BY <2>1, Zenon
  <2> HIDE DEF ss, qq, ii
  <2>3. DOMAIN cl = Fields /\ DOMAIN cl.store = {"sent", "received"}
    BY DEF Typed
  <2>4. Changes(cl, d, fields) /\ d.sent = s /\ d.identifier = ii
    BY <2>2, <2>3 DEF Changes, Fields
  <2>5. DOMAIN d.store = {"sent", "received"} /\ d.store.received = cl.store.received /\ d.store.sent = ss
    BY <2>2, <2>3 DEF Fields
  <2> QED BY <2>4, <2>5, Zenon DEF ss, ii
<1>7. DOMAIN s = DOMAIN cl.sent \cup {id}
  BY PutIs, Zenon
<1> HIDE DEF s, t, e, d, isPublish
<1>8. Typed(e) /\ Changes(cl, e, Idle)
  BY <1>5 DEF Typed, Changes, Fields, Idle
<1>9. Typed(d) /\ Changes(cl, d, Idle)
  BY <1>2, <1>4, <1>6 DEF Typed, Changes, Fields, Idle, s, t
<1>10. LastId(cl, d) \in DOMAIN d.sent
  <2>1. id \in DOMAIN d.sent /\ id \notin DOMAIN cl.sent
    BY <1>2, <1>6, <1>7
  <2> QED BY <2>1, Zenon DEF LastId
<1>11. d.notify = cl.notify /\ d.thrown = cl.thrown /\ (Up(cl) => Up(d))
  BY <1>6 DEF Changes, Fields, Up
<1>12. Keeps(cl, cl) /\ Keeps(cl, e) /\ Keeps(cl, d)
  BY <1>8, <1>9, IdleKeeps, KeepsSame
<1> QED BY <1>1, <1>5, <1>10, <1>11, <1>12

LEMMA RequestKeeps ==
  ASSUME NEW cl, Typed(cl), NEW m, Plain(m), app.uris \in Nat
  PROVE  Keeps(cl, Request(cl, m))
<1> DEFINE d == RequiresAck(cl, m)
           i == LastId(cl, d)
<1>1. Request(cl, m) = IF d.thrown THEN d ELSE Schedule(d, d.sent[i].m)
  BY Zenon DEF Request
<1>2. Keeps(cl, d) /\ (~d.thrown => i \in DOMAIN d.sent)
  BY RequiresAckKeeps, Zenon
<1> HIDE DEF d, i
<1>3. Typed(d)
  BY <1>2 DEF Keeps
<1>4. ~d.thrown => Asks(d.sent[i].m)
  BY <1>2, <1>3 DEF Typed, SentOk, Entry
<1>5. ~d.thrown => Keeps(d, Schedule(d, d.sent[i].m))
  BY <1>3, <1>4, ScheduleKeeps
<1> QED BY <1>1, <1>2, <1>5, KeepsTwice

(***************************************************************************)
(* Sets of numbers and maps of messages, in order.                         *)
(***************************************************************************)
LEMMA AscendingIs ==
  ASSUME NEW S, IsFiniteSet(S), \A x \in S : x \in Nat
  PROVE  /\ Cardinality(S) \in Nat /\ DOMAIN Ascending(S) = 1 .. Cardinality(S)
         /\ \A k \in 1 .. Cardinality(S) : Ascending(S)[k] \in S
         /\ \A j, k \in 1 .. Cardinality(S) : Ascending(S)[j] = Ascending(S)[k] => j = k
<1> DEFINE n == Cardinality(S)
           below(x) == {y \in S : y < x}
           rank == [x \in S |-> Cardinality(below(x))]
           I == 0 .. n - 1
<1>1. n \in Nat
  BY FS_CardinalityType
<1>2. ASSUME NEW x \in S PROVE below(x) \in SUBSET S /\ IsFiniteSet(below(x)) /\ Cardinality(below(x)) \in Nat
  <2>1. below(x) \in SUBSET S
    OBVIOUS
  <2> HIDE DEF below
  <2>2. IsFiniteSet(below(x))
    BY <2>1, FS_Subset
  <2> QED BY <2>1, <2>2, FS_CardinalityType
<1>3. ASSUME NEW x \in S PROVE Cardinality(below(x)) < n
  <2>1. x \notin below(x)
    OBVIOUS
  <2>2. Cardinality(below(x)) <= n /\ (n = Cardinality(below(x)) => S = below(x))
    <3> HIDE DEF below
    <3> QED BY <1>2, FS_Subset
  <2> QED BY <1>1, <1>2, <2>1, <2>2
<1>4. ASSUME NEW x \in S, NEW y \in S, x < y PROVE Cardinality(below(x)) < Cardinality(below(y))
  <2>1. below(x) \in SUBSET below(y) /\ x \in below(y) /\ x \notin below(x)
    BY <1>4
  <2>2. /\ Cardinality(below(x)) <= Cardinality(below(y))
        /\ Cardinality(below(y)) = Cardinality(below(x)) => below(y) = below(x)
    <3> HIDE DEF below
    <3> QED BY <2>1, <1>2, FS_Subset
  <2> QED BY <2>1, <2>2, <1>2
<1> HIDE DEF n, below
<1>5. rank \in [S -> I]
  BY <1>1, <1>2, <1>3
<1>6. \A x, y \in S : rank[x] = rank[y] => x = y
  <2> SUFFICES ASSUME NEW x \in S, NEW y \in S, rank[x] = rank[y], x # y PROVE FALSE
    OBVIOUS
  <2>1. x < y \/ y < x
    OBVIOUS
  <2>2. Cardinality(below(x)) = Cardinality(below(y)) /\ Cardinality(below(x)) \in Nat
    BY <1>2
  <2> QED BY <2>1, <2>2, <1>4
<1>7. IsFiniteSet(I) /\ Cardinality(I) = n
  <2>1. 0 \in Int /\ n - 1 \in Int /\ (IF 0 > n - 1 THEN 0 ELSE ((n - 1) - 0) + 1) = n
    BY <1>1
  <2> QED BY <2>1, FS_Interval
<1>8. DOMAIN rank = S /\ \A x \in S : rank[x] = Cardinality(below(x))
  OBVIOUS
<1> HIDE DEF rank, I
<1>9. rank \in Injection(S, I)
  BY <1>5, <1>6, <1>8, Zenon DEF Injection, IsInjective
<1>10. rank \in Surjection(S, I)
  <2>1. Cardinality(S) = Cardinality(I) <=> rank \in Surjection(S, I)
    BY <1>7, <1>9, FS_Injection, Zenon
  <2> QED BY <2>1, <1>7 DEF n
<1>11. \A t \in I : \E x \in S : rank[x] = t
  BY <1>10, Zenon DEF Surjection
<1> DEFINE f == Ascending(S)
<1>12. DOMAIN f = 1 .. n /\ \A k \in 1 .. n : f[k] = CHOOSE x \in S : Cardinality(below(x)) = k - 1
  BY DEF Ascending, n, below
<1> HIDE DEF f
<1>13. ASSUME NEW k \in 1 .. n PROVE f[k] \in S /\ Cardinality(below(f[k])) = k - 1
  <2>1. k - 1 \in I
    BY <1>1 DEF I
  <2>2. \E x \in S : Cardinality(below(x)) = k - 1
    BY <2>1, <1>8, <1>11
  <2> QED BY <2>2, <1>12, Zenon
<1>14. \A j, k \in 1 .. n : f[j] = f[k] => j = k
  <2> SUFFICES ASSUME NEW j \in 1 .. n, NEW k \in 1 .. n, f[j] = f[k] PROVE j = k
    OBVIOUS
  <2>1. Cardinality(below(f[j])) = j - 1 /\ Cardinality(below(f[k])) = k - 1
    BY <1>13
  <2>2. j - 1 = k - 1
    BY <2>1
  <2> QED BY <2>2, <1>1
<1> QED BY <1>1, <1>12, <1>13, <1>14 DEF n, f

Entries(s) == Listed(s) /\ \A k \in DOMAIN s : Entry(s[k])

LEMMA ListedWith ==
  ASSUME NEW s, Entries(s), NEW e, Entry(e)
  PROVE  \E S : s \in Seq(S) /\ e \in S /\ \A x \in S : Entry(x)
<1>1. PICK T : s \in Seq(T)
  BY Zenon DEF Entries, Listed
<1> DEFINE S == {x \in T \cup {e} : Entry(x)}
<1>2. e \in S /\ \A x \in S : Entry(x)
  OBVIOUS
<1>3. \A k \in 1 .. Len(s) : s[k] \in S
  BY <1>1 DEF Entries
<1> HIDE DEF S
<1>4. s \in Seq(S)
  BY <1>1, <1>3
<1> QED BY <1>2, <1>4, Zenon

LEMMA InsertEntries ==
  ASSUME NEW sorted, Entries(sorted), NEW entry, Entry(entry)
  PROVE  /\ Entries(InsertSent(sorted, entry))
         /\ \E at \in 0 .. Len(sorted) :
              InsertSent(sorted, entry) = SubSeq(sorted, 1, at) \o <<entry>> \o SubSeq(sorted, at + 1, Len(sorted))
<1> DEFINE After(k) == sorted[k].sequence # 0 /\ entry.sequence # 0 /\ sorted[k].sequence > entry.sequence
           n  == Len(sorted)
           at == CHOOSE k \in 0 .. n : (k = 0 \/ ~After(k)) /\ \A j \in k + 1 .. n : After(j)
<1>1. InsertSent(sorted, entry) = SubSeq(sorted, 1, at) \o <<entry>> \o SubSeq(sorted, at + 1, n)
  BY Zenon DEF InsertSent
<1>2. n \in Nat
  BY DEF Entries, Listed
<1> DEFINE T == {n - k : k \in {i \in 0 .. n : i = 0 \/ ~After(i)}}
<1> HIDE DEF After, n
<1>3. (\A t \in T : t \in Nat) /\ T # {}
  BY <1>2
<1>4. PICK t \in T : \A u \in T : t <= u
  <2> HIDE DEF T
  <2> QED BY <1>3, LeastNat, Zenon
<1>5. PICK k \in 0 .. n : (k = 0 \/ ~After(k)) /\ t = n - k
  OBVIOUS
<1>6. \A j \in k + 1 .. n : After(j)
  <2> SUFFICES ASSUME NEW j \in k + 1 .. n, ~After(j) PROVE FALSE
    OBVIOUS
  <2>1. j \in 0 .. n /\ n - j \in T
    BY <1>2
  <2>2. n - k <= n - j
    BY <2>1, <1>4, <1>5
  <2> QED BY <2>2, <1>2
<1>7. \E i \in 0 .. n : (i = 0 \/ ~After(i)) /\ \A j \in i + 1 .. n : After(j)
  BY <1>5, <1>6
<1>8. at \in 0 .. n
  BY <1>7, Zenon
<1> HIDE DEF at
<1>15. \E z \in 0 .. Len(sorted) :
        InsertSent(sorted, entry) = SubSeq(sorted, 1, z) \o <<entry>> \o SubSeq(sorted, z + 1, Len(sorted))
  BY <1>1, <1>8, Zenon DEF n
<1>9. PICK S : sorted \in Seq(S) /\ entry \in S /\ \A x \in S : Entry(x)
  BY ListedWith, Zenon
<1> DEFINE x == SubSeq(sorted, 1, at)
           y == SubSeq(sorted, at + 1, n)
<1>10. x \in Seq(S) /\ y \in Seq(S) /\ <<entry>> \in Seq(S)
  <2>1. 1 \in 1 .. n + 1 /\ at + 1 \in 1 .. n + 1 /\ at \in Int /\ n \in Int
    BY <1>2, <1>8
  <2> QED BY <1>8, <1>9, <2>1 DEF n
<1> HIDE DEF x, y
<1>11. x \o <<entry>> \in Seq(S)
  BY <1>10, ConcatProperties, Zenon
<1>12. (x \o <<entry>>) \o y \in Seq(S)
  BY <1>10, <1>11, ConcatProperties, Zenon
<1>13. InsertSent(sorted, entry) \in Seq(S)
  BY <1>1, <1>12, Zenon DEF x, y
<1> DEFINE r == InsertSent(sorted, entry)
<1> HIDE DEF r
<1>14. \A r_1 \in Seq(S) : Listed(r_1) /\ \A i \in DOMAIN r_1 : r_1[i] \in S
  <2> TAKE r_1 \in Seq(S)
  <2>1. Listed(r_1)
    BY Zenon DEF Listed
  <2> QED BY <2>1
<1>16. Entries(InsertSent(sorted, entry))
  BY <1>9, <1>13, <1>14, Zenon DEF Entries
<1> QED BY <1>15, <1>16

LEMMA InSentOrderEntries ==
  ASSUME NEW sent, SentOk(sent)
  PROVE  Entries(InSentOrder(sent))
<1> DEFINE ids == Ascending(DOMAIN sent)
           q   == [k \in DOMAIN ids |-> sent[ids[k]]]
           n   == Cardinality(DOMAIN sent)
<1>1. InSentOrder(sent) = Folded("insert", <<>>, q)
  BY FoldsInsert, Zenon DEF InSentOrder
<1>2. n \in Nat /\ DOMAIN ids = 1 .. n /\ \A k \in 1 .. n : ids[k] \in DOMAIN sent
  <2>1. IsFiniteSet(DOMAIN sent) /\ \A x \in DOMAIN sent : x \in Nat
    BY DEF SentOk
  <2> QED BY <2>1, AscendingIs, Zenon
<1> HIDE DEF ids, n
<1>3. DOMAIN q = 1 .. n /\ \A k \in 1 .. n : Entry(q[k])
  BY <1>2 DEF SentOk
<1> HIDE DEF q
<1>4. PICK it : Turns("insert", <<>>, q, n, it) /\ Folded("insert", <<>>, q) = it[n]
  BY <1>2, <1>3, FoldedIs
<1>5. it[0] = <<>> /\ \A k \in 1 .. n : it[k] = InsertSent(it[k - 1], q[k])
  <2>1. \A x, y : Does("insert", x, y) = InsertSent(x, y)
    BY DEF Does
  <2> QED BY <1>4, <2>1, Zenon DEF Turns
<1> DEFINE G == {k \in 0 .. n : Entries(it[k])}
<1>6. 0 \in G
  <2>1. Entries(<<>>)
    <3>1. DOMAIN <<>> = {}
      OBVIOUS
    <3> QED BY <3>1, ListedEmpty, Zenon DEF Entries
  <2> QED BY <2>1, <1>2, <1>5
<1>7. ASSUME NEW k \in 1 .. n, (k - 1) \in G PROVE k \in G
  <2>1. Entries(it[k - 1]) /\ Entry(q[k]) /\ it[k] = InsertSent(it[k - 1], q[k]) /\ k \in 0 .. n
    BY <1>3, <1>5, <1>7
  <2>2. Entries(it[k])
    BY <2>1, InsertEntries, Zenon
  <2> QED BY <2>1, <2>2
<1>8. n \in G
  <2> HIDE DEF G
  <2> QED BY <1>2, <1>6, <1>7, Climbs, Zenon
<1> QED BY <1>1, <1>4, <1>8

(***************************************************************************)
(* After CONNACK: what was sent is sent again, and the page subscribes.    *)
(***************************************************************************)
LEMMA ResendKeeps ==
  ASSUME NEW cl, Typed(cl), NEW e, Entry(e), app.uris \in Nat
  PROVE  Keeps(cl, Resend(cl, e))
<1> DEFINE m == IF e.m.type = Code("PUBLISH") /\ e.pubRec THEN WithId("PUBREL", e.m.id) ELSE e.m
<1>1. Resend(cl, e) = Schedule(cl, m)
  BY Zenon DEF Resend
<1>2. Asks(WithId("PUBREL", e.m.id))
  BY Codes DEF Entry, Asks, Writes, WithId, NoId
<1>3. Asks(m)
  BY <1>2 DEF Entry
<1> HIDE DEF m
<1> QED BY <1>1, <1>3, ScheduleKeeps, Zenon

LEMMA ResendAllKeeps ==
  ASSUME NEW cl, Typed(cl), app.uris \in Nat
  PROVE  Keeps(cl, FoldLeft(Resend, cl, InSentOrder(cl.sent)))
<1> DEFINE q == InSentOrder(cl.sent)
           n == Len(q)
<1>1. FoldLeft(Resend, cl, q) = Folded("resend", cl, q)
  BY FoldsResend, Zenon
<1>2. Entries(q)
  <2>1. SentOk(cl.sent)
    BY DEF Typed
  <2> QED BY <2>1, InSentOrderEntries, Zenon
<1> HIDE DEF q
<1>3. n \in Nat /\ DOMAIN q = 1 .. n /\ \A k \in 1 .. n : Entry(q[k])
  BY <1>2 DEF Entries, Listed
<1> HIDE DEF n
<1>4. PICK it : Turns("resend", cl, q, n, it) /\ Folded("resend", cl, q) = it[n]
  BY <1>3, FoldedIs
<1>5. it[0] = cl /\ \A k \in 1 .. n : it[k] = Resend(it[k - 1], q[k])
  <2>1. \A x, y : Does("resend", x, y) = Resend(x, y)
    BY DEF Does
  <2> QED BY <1>4, <2>1, Zenon DEF Turns
<1> DEFINE G == {k \in 0 .. n : Keeps(cl, it[k])}
<1>6. 0 \in G
  BY <1>3, <1>5, KeepsSame
<1>7. ASSUME NEW k \in 1 .. n, (k - 1) \in G PROVE k \in G
  <2>1. Keeps(cl, it[k - 1]) /\ Entry(q[k]) /\ it[k] = Resend(it[k - 1], q[k]) /\ k \in 0 .. n
    BY <1>3, <1>5, <1>7
  <2>2. Keeps(it[k - 1], Resend(it[k - 1], q[k]))
    <3>1. Typed(it[k - 1])
      BY <2>1 DEF Keeps
    <3> QED BY <3>1, <2>1, ResendKeeps, Zenon
  <2>3. Keeps(cl, it[k])
    BY <2>1, <2>2, KeepsTwice, Zenon
  <2> QED BY <2>1, <2>3
<1>8. n \in G
  <2> HIDE DEF G
  <2> QED BY <1>3, <1>6, <1>7, Climbs, Zenon
<1> QED BY <1>1, <1>4, <1>8 DEF q

LEMMA CallKeeps ==
  ASSUME NEW cl, Typed(cl), NEW name, name # "arrived", NEW m
  PROVE  Keeps(cl, Call(cl, name, m))
<1> DEFINE d == Call(cl, name, m)
<1>1. Typed(d) /\ Quiet(cl, d)
  BY CallQuiet, Zenon
<1>2. Changes(cl, d, {"calls"})
  <2>1. DOMAIN cl = Fields
    BY DEF Typed
  <2> QED BY <2>1, CallChanges, Zenon
<1> HIDE DEF d
<1>3. (Up(cl) => Up(d)) /\ (Gone(cl) => Gone(d))
  BY <1>2 DEF Up, Gone, Changes, Fields
<1> QED BY <1>1, <1>3 DEF Keeps, d

LEMMA HandedKeeps ==
  ASSUME NEW cl, Typed(cl), NEW name, name # "arrived", NEW m
  PROVE  Keeps(cl, Handed(cl, name, m))
<1> DEFINE d == Call(cl, name, m)
           t == HandlerThrows(m)
           e == [d EXCEPT !.thrown = t]
<1>1. Handed(cl, name, m) = e
  BY Zenon DEF Handed
<1>2. Keeps(cl, d) /\ Typed(d)
  BY CallKeeps DEF Keeps
<1>3. t \in BOOLEAN
  BY DEF HandlerThrows
<1> HIDE DEF d, t
<1>4. Changes(d, e, {"thrown"}) /\ e.thrown = t
  BY <1>2 DEF Typed, Changes, Fields
<1> HIDE DEF e
<1>5. Typed(e) /\ Changes(d, e, Idle)
  BY <1>2, <1>3, <1>4 DEF Typed, Changes, Fields, Idle
<1>6. Keeps(d, e)
  BY <1>2, <1>5, IdleKeeps
<1> QED BY <1>1, <1>2, <1>6, KeepsTwice, Zenon

LEMMA CalmedKeeps ==
  ASSUME NEW cl, Typed(cl)
  PROVE  Keeps(cl, [cl EXCEPT !.thrown = FALSE]) /\ Keeps(cl, [cl EXCEPT !.thrown = TRUE])
<1> DEFINE d == [cl EXCEPT !.thrown = FALSE]
           e == [cl EXCEPT !.thrown = TRUE]
<1>1. Changes(cl, d, {"thrown"}) /\ d.thrown = FALSE /\ Changes(cl, e, {"thrown"}) /\ e.thrown = TRUE
  BY DEF Typed, Changes, Fields
<1> HIDE DEF d, e
<1>2. Typed(d) /\ Changes(cl, d, Idle)
  BY <1>1 DEF Typed, Changes, Fields, Idle
<1>3. Typed(e) /\ Changes(cl, e, Idle)
  BY <1>1 DEF Typed, Changes, Fields, Idle
<1> QED BY <1>2, <1>3, IdleKeeps DEF d, e

LEMMA OnSuccessKeeps ==
  ASSUME NEW cl, Typed(cl), app.uris \in Nat
  PROVE  Keeps(cl, OnSuccess(cl))
<1> DEFINE told == Call(cl, "success", NoMessage)
           m    == Subscribe(NoId, Topic, 2)
           r    == Request(told, m)
           e    == [r EXCEPT !.thrown = FALSE]
<1>1. OnSuccess(cl) = IF cl.thrown THEN cl ELSE IF ~told.connected THEN told ELSE e
  BY Zenon DEF OnSuccess
<1>2. Plain(m)
  BY Codes DEF Plain, Subscribe
<1>3. Keeps(cl, told)
  <2>1. "success" # "arrived"
    OBVIOUS
  <2> QED BY <2>1, CallKeeps, Zenon
<1> HIDE DEF told, m
<1>4. Keeps(told, r)
  <2>1. Typed(told)
    BY <1>3 DEF Keeps
  <2> QED BY <2>1, <1>2, RequestKeeps, Zenon
<1> HIDE DEF r
<1>5. Keeps(r, e)
  <2>1. Typed(r)
    BY <1>4 DEF Keeps
  <2> QED BY <2>1, CalmedKeeps, Zenon
<1> HIDE DEF e
<1>6. Keeps(cl, cl) /\ Keeps(cl, e)
  BY <1>3, <1>4, <1>5, KeepsTwice, KeepsSame
<1> QED BY <1>1, <1>3, <1>6

(***************************************************************************)
(* The handlers.                                                           *)
(***************************************************************************)
\* CONNACK: connected, possibly with the maps emptied; then quiet.
Cleared(cl, on) ==
  /\ Changes(cl, on, {"store", "sent", "received", "connectTimer", "connected", "hostIndex"})
  /\ on.received = cl.received \/ on.received = NoEntries
LEMMA ClearIs ==
  ASSUME NEW cl, Typed(cl)
  PROVE  LET clear == IF app.clean
               THEN [cl EXCEPT
                       !.store = [sent     |-> [i \in DOMAIN @.sent \ DOMAIN cl.sent |-> @.sent[i]],
                                  received |-> [i \in DOMAIN @.received \ DOMAIN cl.received |->
                                                  @.received[i]]],
                       !.sent = NoEntries, !.received = NoEntries, !.connectTimer = FALSE]
               ELSE [cl EXCEPT !.connectTimer = FALSE]
         IN /\ Typed(clear) /\ Changes(cl, clear, {"store", "sent", "received", "connectTimer"})
            /\ clear.received = cl.received \/ clear.received = NoEntries
<1> DEFINE s == [i \in DOMAIN cl.store.sent \ DOMAIN cl.sent |-> cl.store.sent[i]]
           r == [i \in DOMAIN cl.store.received \ DOMAIN cl.received |-> cl.store.received[i]]
           t == [sent |-> s, received |-> r]
           x == [cl EXCEPT
                       !.store = [sent     |-> [i \in DOMAIN @.sent \ DOMAIN cl.sent |-> @.sent[i]],
                                  received |-> [i \in DOMAIN @.received \ DOMAIN cl.received |->
                                                  @.received[i]]],
                       !.sent = NoEntries, !.received = NoEntries, !.connectTimer = FALSE]
           y == [cl EXCEPT !.connectTimer = FALSE]
<1>1. x = [cl EXCEPT !.store = t, !.sent = NoEntries, !.received = NoEntries, !.connectTimer = FALSE]
  BY Zenon
<1>2. StoredOk(s)
  <2>1. DOMAIN cl.store.sent \ DOMAIN cl.sent \subseteq DOMAIN cl.store.sent /\ StoredOk(cl.store.sent) /\ SentOk(cl.store.sent)
    BY DEF Typed, StoredOk
  <2> QED BY <2>1, SentPart, Zenon
<1>3. DOMAIN r = {}
  BY DEF Typed, Backs
<1>4. DOMAIN t = {"sent", "received"} /\ t.sent = s /\ t.received = r
  OBVIOUS
<1> HIDE DEF s, r, t, x
<1>5. /\ Changes(cl, x, {"store", "sent", "received", "connectTimer"}) /\ x.store = t
      /\ x.sent = NoEntries /\ x.received = NoEntries /\ x.connectTimer = FALSE
  BY <1>1 DEF Typed, Changes, Fields
<1>6. Typed(x)
  <2>1. ReceivedOk(x.received) /\ Backs(x.store.received, x.received)
    BY <1>3, <1>4, <1>5, NoneSent DEF ReceivedOk, Backs
  <2>2. SentOk(x.sent) /\ StoredOk(x.store.sent) /\ DOMAIN x.store = {"sent", "received"}
    BY <1>2, <1>4, <1>5, NoneSent
  <2> QED BY <2>1, <2>2, <1>5 DEF Typed, Changes, Fields
<1>7. Changes(cl, y, {"store", "sent", "received", "connectTimer"}) /\ y.received = cl.received /\ y.connectTimer = FALSE
      /\ y.store = cl.store /\ y.sent = cl.sent
  BY DEF Typed, Changes, Fields
<1> HIDE DEF y
<1>8. Typed(y)
  BY <1>7 DEF Typed, Changes, Fields
<1> QED BY <1>5, <1>6, <1>7, <1>8 DEF x, y

LEMMA ConnackIs ==
  ASSUME NEW cl, Typed(cl), NEW m, app.uris \in Nat, cl.socket = "open"
  PROVE  \E on : /\ Typed(on) /\ Cleared(cl, on)
                 /\ m.returnCode = 0 => Up(on) /\ Keeps(on, HandleConnack(cl, m))
                 /\ m.returnCode # 0 => on.connected = cl.connected /\ on.hostIndex = cl.hostIndex /\ HandleConnack(cl, m) = Disconnected(on)
<1> DEFINE clear == IF app.clean
               THEN [cl EXCEPT
                       !.store = [sent     |-> [i \in DOMAIN @.sent \ DOMAIN cl.sent |-> @.sent[i]],
                                  received |-> [i \in DOMAIN @.received \ DOMAIN cl.received |->
                                                  @.received[i]]],
                       !.sent = NoEntries, !.received = NoEntries, !.connectTimer = FALSE]
               ELSE [cl EXCEPT !.connectTimer = FALSE]
           on == Ready(clear)
           ready == OnSuccess(FoldLeft(Resend, on, InSentOrder(on.sent)))
<1>1. HandleConnack(cl, m) = IF m.returnCode # 0 THEN Disconnected(clear)
                             ELSE IF ready.thrown THEN ready ELSE ProcessQueue(ready)
  BY Zenon DEF HandleConnack
<1>2. /\ Typed(clear) /\ Changes(cl, clear, {"store", "sent", "received", "connectTimer"})
      /\ clear.received = cl.received \/ clear.received = NoEntries
  BY ClearIs, Zenon
<1> HIDE DEF clear
<1>3. Changes(clear, on, {"connected", "hostIndex"}) /\ on.connected = TRUE /\ (app.uris > 0 => on.hostIndex = app.uris)
      /\ on.hostIndex \in Nat
  BY <1>2 DEF Typed, Changes, Fields, Ready
<1> HIDE DEF on
<1>4. Typed(on) /\ Up(on)
  <2>1. clear.socket = "open" /\ on.socket = "open"
    BY <1>2, <1>3 DEF Changes, Fields
  <2>2. Typed(on)
    BY <1>2, <1>3 DEF Typed, Changes, Fields
  <2> QED BY <2>1, <2>2, <1>3 DEF Up
<1>5. Cleared(cl, on) /\ Cleared(cl, clear) /\ clear.connected = cl.connected /\ clear.hostIndex = cl.hostIndex
  BY <1>2, <1>3 DEF Cleared, Changes, Fields
<1> DEFINE all == FoldLeft(Resend, on, InSentOrder(on.sent))
<1>6. Keeps(on, all)
  BY <1>4, ResendAllKeeps, Zenon
<1> HIDE DEF all
<1>7. Keeps(all, ready)
  <2>1. Typed(all)
    BY <1>6 DEF Keeps
  <2> QED BY <2>1, OnSuccessKeeps, Zenon DEF all
<1> HIDE DEF ready
<1>8. Keeps(on, ready) /\ Keeps(on, ProcessQueue(ready))
  <2>1. Typed(ready)
    BY <1>7 DEF Keeps
  <2>2. Keeps(ready, ProcessQueue(ready))
    BY <2>1, ProcessQueueKeeps, Zenon
  <2> QED BY <2>2, <1>6, <1>7, KeepsTwice
<1> QED BY <1>1, <1>2, <1>4, <1>5, <1>8

Still(cl, d) == Typed(d) /\ Quiet(cl, d)

LEMMA KeepsStill == \A cl, d : Keeps(cl, d) => Still(cl, d)
BY DEF Keeps, Still

LEMMA StillTwice ==
  ASSUME NEW cl, NEW d, NEW e, Still(cl, d), Still(d, e)
  PROVE  Still(cl, e)
BY QuietTwice DEF Still

\* A message that was answered is forgotten, in the record and the store.
LEMMA Forgets ==
  ASSUME NEW cl, Typed(cl), NEW i
  PROVE  /\ Keeps(cl, [cl EXCEPT !.sent = Drop(@, i), !.store.sent = Drop(@, i)])
         /\ Keeps(cl, [cl EXCEPT !.sent = Drop(@, i)])
<1> DEFINE s == Drop(cl.sent, i)
           t == Drop(cl.store.sent, i)
           d == [cl EXCEPT !.sent = Drop(@, i), !.store.sent = Drop(@, i)]
           e == [cl EXCEPT !.sent = Drop(@, i)]
<1>1. SentOk(s) /\ StoredOk(t)
  <2>1. SentOk(cl.sent) /\ SentOk(cl.store.sent) /\ StoredOk(cl.store.sent)
    BY DEF Typed, StoredOk
  <2> QED BY <2>1, SentDrop, Zenon
<1>2. d = [cl EXCEPT !.sent = s, !.store.sent = t] /\ e = [cl EXCEPT !.sent = s]
  BY Zenon
<1> HIDE DEF s, t, d, e
<1>3. DOMAIN cl = Fields /\ DOMAIN cl.store = {"sent", "received"}
  BY DEF Typed
<1>4. /\ Changes(cl, d, {"sent", "store"}) /\ d.sent = s
      /\ Changes(cl, e, {"sent"}) /\ e.sent = s
  BY <1>2, <1>3 DEF Changes, Fields
<1>5. DOMAIN d.store = {"sent", "received"} /\ d.store.sent = t /\ d.store.received = cl.store.received
  BY <1>2, <1>3 DEF Fields
<1>6. Typed(d) /\ Changes(cl, d, Idle)
  BY <1>1, <1>4, <1>5 DEF Typed, Changes, Fields, Idle
<1>7. Typed(e) /\ Changes(cl, e, Idle)
  BY <1>1, <1>4 DEF Typed, Changes, Fields, Idle
<1> QED BY <1>6, <1>7, IdleKeeps DEF d, e

LEMMA AnsweredStill ==
  ASSUME NEW cl, Typed(cl), NEW m
  PROVE  /\ Still(cl, HandlePuback(cl, m)) /\ Still(cl, HandlePubcomp(cl, m))
         /\ Still(cl, HandleUnsuback(cl, m)) /\ Still(cl, HandleSuback(cl, m))
<1> DEFINE d == [cl EXCEPT !.sent = Drop(@, m.id), !.store.sent = Drop(@, m.id)]
           e == [cl EXCEPT !.sent = Drop(@, m.id)]
           x == [cl EXCEPT !.thrown = TRUE]
           told == Handed(d, "delivered", cl.sent[m.id].m)
           name == IF m.returnCode # <<>> /\ m.returnCode[1] = 128
                   THEN "subscribeFailed" ELSE "subscribed"
           answered == Call(e, name, NoMessage)
<1>1. HandlePuback(cl, m) = cl \/ HandlePuback(cl, m) = told
  BY Zenon DEF HandlePuback
<1>2. HandlePubcomp(cl, m) = x \/ HandlePubcomp(cl, m) = told
  BY Zenon DEF HandlePubcomp
<1>3. HandleSuback(cl, m) = cl \/ HandleSuback(cl, m) = answered
  BY Zenon DEF HandleSuback
<1>4. HandleUnsuback(cl, m) = cl \/ HandleUnsuback(cl, m) = e
  BY Zenon DEF HandleUnsuback
<1>5. Keeps(cl, d) /\ Keeps(cl, e) /\ Keeps(cl, x) /\ Keeps(cl, cl)
  BY Forgets, CalmedKeeps, KeepsSame, Zenon
<1>6. name # "arrived" /\ "delivered" # "arrived"
  OBVIOUS
<1> HIDE DEF d, e, x, name
<1>7. Typed(d) /\ Typed(e)
  BY <1>5 DEF Keeps
<1>8. Keeps(d, told) /\ Keeps(e, answered)
  BY <1>6, <1>7, CallKeeps, HandedKeeps, Zenon
<1> HIDE DEF told, answered
<1>9. Keeps(cl, told) /\ Keeps(cl, answered)
  BY <1>5, <1>8, KeepsTwice
<1> QED BY <1>1, <1>2, <1>3, <1>4, <1>5, <1>9, KeepsStill, Zenon

LEMMA PubrecStill ==
  ASSUME NEW cl, Typed(cl), NEW m, app.uris \in Nat
  PROVE  Still(cl, HandlePubrec(cl, m))
<1> DEFINE i == m.id
           old == cl.sent[i]
           entry == [cl.sent[i] EXCEPT !.pubRec = TRUE]
           s == Put(cl.sent, i, entry)
           t == Put(cl.store.sent, i, Stored(entry))
           x == [cl EXCEPT !.thrown = TRUE]
           d == [cl EXCEPT !.sent = Put(@, i, entry), !.store.sent = Put(@, i, Stored(entry))]
           r == WithId("PUBREL", i)
<1>1. HandlePubrec(cl, m) = IF i \notin DOMAIN cl.sent THEN cl
                            ELSE IF entry.m.type # Code("PUBLISH") THEN x ELSE Schedule(d, r)
  BY Zenon DEF HandlePubrec
<1>2. Keeps(cl, cl) /\ Keeps(cl, x)
  BY CalmedKeeps, KeepsSame, Zenon
<1>3. ASSUME i \in DOMAIN cl.sent, entry.m.type = Code("PUBLISH")
      PROVE  Keeps(cl, Schedule(d, r))
  <2>1. Entry(old) /\ old.m.id = i /\ i \in Nat /\ i # NoId
    BY <1>3 DEF Typed, SentOk, Entry
  <2> HIDE DEF old, i
  <2>2. entry = [old EXCEPT !.pubRec = TRUE]
    BY DEF old
  <2> HIDE DEF entry
  <2>3. Entry(entry) /\ entry.m = old.m
    BY <2>1, <2>2 DEF Entry
  <2>4. Entry(Stored(entry)) /\ Stored(entry).m = entry.m
    BY <2>3 DEF Entry, Stored
  <2>5. entry.m.type = 3
    BY <1>3, Codes
  <2> HIDE DEF s, t
  <2>6. SentOk(s) /\ StoredOk(t)
    <3>1. SentOk(cl.sent) /\ SentOk(cl.store.sent) /\ StoredOk(cl.store.sent)
      BY DEF Typed, StoredOk
    <3>2. SentOk(Put(cl.sent, i, entry))
      BY <3>1, <2>1, <2>3, SentPut
    <3>3. StoredOk(Put(cl.store.sent, i, Stored(entry)))
      BY <3>1, <2>1, <2>3, <2>4, <2>5, SentPut
    <3> QED BY <3>2, <3>3 DEF s, t
  <2>7. d = [cl EXCEPT !.sent = s, !.store.sent = t]
    BY Zenon DEF s, t
  <2> HIDE DEF d
  <2>8. DOMAIN cl = Fields /\ DOMAIN cl.store = {"sent", "received"}
    BY DEF Typed
  <2>9. Changes(cl, d, {"sent", "store"}) /\ d.sent = s
    BY <2>7, <2>8 DEF Changes, Fields
  <2>10. DOMAIN d.store = {"sent", "received"} /\ d.store.sent = t /\ d.store.received = cl.store.received
    BY <2>7, <2>8 DEF Fields
  <2>11. Typed(d) /\ Changes(cl, d, Idle)
    BY <2>6, <2>9, <2>10 DEF Typed, Changes, Fields, Idle
  <2>12. Asks(r)
    BY <2>1, Codes DEF Asks, Writes, WithId, NoId
  <2> HIDE DEF r
  <2>13. Keeps(cl, d) /\ Keeps(d, Schedule(d, r))
    BY <2>11, <2>12, IdleKeeps, ScheduleKeeps
  <2> QED BY <2>13, KeepsTwice
<1> HIDE DEF i, entry, x, d, r
<1> QED BY <1>1, <1>2, <1>3, KeepsStill

LEMMA PingrespStill ==
  ASSUME NEW cl, Typed(cl), NEW m
  PROVE  Still(cl, HandlePingresp(cl, m))
<1> DEFINE p == PingerReset(cl.sendPinger)
           d == [cl EXCEPT !.sendPinger = p]
<1>1. HandlePingresp(cl, m) = d
  BY Zenon DEF HandlePingresp
<1>2. Pinger(p)
  BY DEF Pinger, PingerReset
<1> HIDE DEF p
<1>3. Changes(cl, d, {"sendPinger"}) /\ d.sendPinger = p
  BY DEF Typed, Changes, Fields
<1> HIDE DEF d
<1>4. Typed(d)
  BY <1>2, <1>3 DEF Typed, Changes, Fields
<1>5. \A x : Agree(x, x)
  BY DEF Agree
<1>6. Quiet(cl, d)
  BY <1>3, <1>5 DEF Quiet, Calm, Calls, Changes, Fields
<1> QED BY <1>1, <1>4, <1>6 DEF Still

(***************************************************************************)
(* A message handed to the page.                                           *)
(***************************************************************************)
Gets(a, n) == [a EXCEPT !.arrived[n] = @ + 1]
Gained(cl, d, n) == \A a : Agree(Gets(Heard(a, cl.calls), n), Heard(a, d.calls))

LEMMA ToldArrived ==
  ASSUME NEW a, NEW call, call.name = "arrived", NEW n \in InMsgs, Inbound(call.message, n)
  PROVE  Told(a, call) = Gets(a, n)
<1> DEFINE k == IF /\ call.message # NoMessage /\ call.message.type = Code("PUBLISH")
                   /\ Len(call.message.payload) = 1
                THEN call.message.payload[1] ELSE -1
           x == Gets(a, k)
<1>1. Told(a, call) =
     CASE call.name = "arrived" /\ (k \in InMsgs /\ call.message.destinationName = Topic) -> x
       [] call.name = "arrived" /\ ~(k \in InMsgs /\ call.message.destinationName = Topic) -> [a EXCEPT !.corrupt = TRUE]
       [] call.name = "delivered" /\ k \in OutMsgs -> [a EXCEPT !.delivered = @ \cup {k}]
       [] call.name \in {"success", "failure", "lost"} -> [a EXCEPT !.last = call.name]
       [] OTHER -> a
  BY Zenon DEF Told, Gets
<1>2. k = n /\ call.message.destinationName = Topic
  BY DEF Inbound
<1> HIDE DEF k, x
<1>3. Told(a, call) = x
  BY <1>1, <1>2
<1> QED BY <1>2, <1>3, Zenon DEF x

LEMMA HeardArrived ==
  ASSUME NEW s, Listed(s), NEW call, call.name = "arrived", NEW n \in InMsgs, Inbound(call.message, n), NEW a
  PROVE  Heard(a, Append(s, call)) = Gets(Heard(a, s), n)
<1>1. Folded("told", a, Append(s, call)) = Does("told", Folded("told", a, s), call)
  BY FoldedAppend
<1>2. \A x : Does("told", x, call) = Told(x, call)
  BY DEF Does
<1>3. \A x : Told(x, call) = Gets(x, n)
  BY ToldArrived
<1> QED BY <1>1, <1>2, <1>3, Zenon DEF Heard

LEMMA GetsAgree ==
  ASSUME NEW x, NEW y, Agree(x, y), NEW n
  PROVE  Agree(Gets(x, n), Gets(y, n))
<1>1. DOMAIN x = DOMAIN y /\ \A f \in DOMAIN x \ {"delivered", "last"} : x[f] = y[f]
  BY DEF Agree
<1>2. DOMAIN Gets(x, n) = DOMAIN x /\ DOMAIN Gets(y, n) = DOMAIN y
  BY DEF Gets
<1>3. \A f \in DOMAIN x : Gets(x, n)[f] = IF f = "arrived" THEN [x.arrived EXCEPT ![n] = @ + 1] ELSE x[f]
  BY DEF Gets
<1>4. \A f \in DOMAIN y : Gets(y, n)[f] = IF f = "arrived" THEN [y.arrived EXCEPT ![n] = @ + 1] ELSE y[f]
  BY DEF Gets
<1>5. ASSUME NEW f \in DOMAIN x \ {"delivered", "last"} PROVE Gets(x, n)[f] = Gets(y, n)[f]
  <2>1. CASE f = "arrived"
    <3>1. x.arrived = y.arrived
      BY <1>1, <2>1
    <3> QED BY <3>1, <1>1, <1>3, <1>4, <2>1
  <2>2. CASE f # "arrived"
    BY <1>1, <1>3, <1>4, <2>2
  <2> QED BY <2>1, <2>2
<1> QED BY <1>1, <1>2, <1>5 DEF Agree

LEMMA GainedThen ==
  ASSUME NEW cl, NEW d, NEW e, NEW n
  PROVE  /\ Gained(cl, d, n) /\ Calls(d, e) => Gained(cl, e, n)
         /\ Calls(cl, d) /\ Gained(d, e, n) => Gained(cl, e, n)
<1>1. Gained(cl, d, n) /\ Calls(d, e) => Gained(cl, e, n)
  BY AgreeTwice DEF Gained, Calls
<1>2. Calls(cl, d) /\ Gained(d, e, n) => Gained(cl, e, n)
  BY AgreeTwice, GetsAgree DEF Gained, Calls
<1> QED BY <1>1, <1>2

\* At most one call, and for this message.
Hands(cl, d, n) == Calls(cl, d) \/ Gained(cl, d, n)

LEMMA ReceiveIs ==
  ASSUME NEW cl, DOMAIN cl = Fields, Listed(cl.calls), NEW m, NEW n \in InMsgs, Inbound(m, n)
  PROVE  /\ Changes(cl, ReceiveMessage(cl, m), {"calls", "thrown"})
         /\ Listed(ReceiveMessage(cl, m).calls)
         /\ cl.thrown \in BOOLEAN => ReceiveMessage(cl, m).thrown \in BOOLEAN
         /\ Hands(cl, ReceiveMessage(cl, m), n)
<1> DEFINE d == Handed(cl, "arrived", m)
           e == [name |-> "arrived", message |-> m]
<1>1. ReceiveMessage(cl, m) = IF cl.thrown THEN cl ELSE d
  BY Zenon DEF ReceiveMessage
<1>2. Changes(cl, d, {"calls", "thrown"}) /\ d.calls = Append(cl.calls, e) /\ d.thrown \in BOOLEAN
  BY HandedChanges, Zenon
<1>3. e.name = "arrived" /\ e.message = m
  OBVIOUS
<1> HIDE DEF d, e
<1>4. Inbound(e.message, n)
  BY <1>3
<1>5. Listed(d.calls) /\ \A a : Heard(a, d.calls) = Gets(Heard(a, cl.calls), n)
  <2>1. Listed(d.calls)
    BY <1>2, ListedAppend
  <2>2. ASSUME NEW a PROVE Heard(a, Append(cl.calls, e)) = Gets(Heard(a, cl.calls), n)
    BY <1>3, <1>4, HeardArrived
  <2> QED BY <2>1, <2>2, <1>2, Zenon
<1>6. \A x : Agree(x, x)
  BY DEF Agree
<1>7. Gained(cl, d, n) /\ Calls(cl, cl)
  BY <1>5, <1>6, Zenon DEF Gained, Calls
<1>8. Changes(cl, cl, {"calls", "thrown"})
  BY DEF Changes
<1> QED BY <1>1, <1>2, <1>5, <1>7, <1>8, Zenon DEF Hands

(***************************************************************************)
(* What handling one message does to the received messages and the page.   *)
(***************************************************************************)
Takes(cl, d, m) ==
  /\ Typed(d) /\ Calm(cl, d) /\ Calls(cl, d)
  /\ DOMAIN d.received = DOMAIN cl.received \cup {m.id} /\ d.received[m.id] = m
  /\ \A i \in DOMAIN cl.received \ {m.id} : d.received[i] = cl.received[i]
Releases(cl, d, k) ==
  /\ Typed(d) /\ Calm(cl, d)
  /\ \A i \in DOMAIN d.received :
       /\ i \in DOMAIN cl.received /\ d.received[i] = cl.received[i]
       /\ i = k => HandlerThrows(cl.received[i])
  /\ k \notin DOMAIN cl.received => Calls(cl, d)
  /\ k \in DOMAIN cl.received => \E n \in InMsgs : InId[n] = k /\ Inbound(cl.received[k], n) /\ Hands(cl, d, n)
Passes(cl, d, n) ==
  Typed(d) /\ Calm(cl, d) /\ d.received = cl.received /\ Hands(cl, d, n)

LEMMA CalmTwice ==
  ASSUME NEW cl, NEW d, NEW e, Calm(cl, d), Calm(d, e)
  PROVE  Calm(cl, e)
BY DEF Calm

LEMMA CallsTwice ==
  ASSUME NEW cl, NEW d, NEW e
  PROVE  /\ Calls(cl, d) /\ Calls(d, e) => Calls(cl, e)
         /\ \A n : Hands(cl, d, n) /\ Calls(d, e) => Hands(cl, e, n)
         /\ \A n : Calls(cl, d) /\ Hands(d, e, n) => Hands(cl, e, n)
<1>1. Calls(cl, d) /\ Calls(d, e) => Calls(cl, e)
  BY AgreeTwice DEF Calls
<1> QED BY <1>1, GainedThen DEF Hands

LEMMA StillAfter ==
  ASSUME NEW cl, NEW d, NEW e, Still(d, e)
  PROVE  /\ \A m : Takes(cl, d, m) => Takes(cl, e, m)
         /\ \A k : Releases(cl, d, k) => Releases(cl, e, k)
         /\ \A n : Passes(cl, d, n) => Passes(cl, e, n)
<1>1. Typed(e) /\ Calm(d, e) /\ e.received = d.received /\ Calls(d, e)
  BY DEF Still, Quiet
<1>2. Calm(cl, d) => Calm(cl, e)
  BY <1>1, CalmTwice
<1>3. ASSUME NEW m, Takes(cl, d, m) PROVE Takes(cl, e, m)
  <2>1. Calls(cl, e)
    BY <1>1, <1>3, CallsTwice DEF Takes
  <2> QED BY <1>1, <1>2, <1>3, <2>1 DEF Takes
<1>4. ASSUME NEW k, Releases(cl, d, k) PROVE Releases(cl, e, k)
  <2>1. k \notin DOMAIN cl.received => Calls(cl, e)
    BY <1>1, <1>4, CallsTwice DEF Releases
  <2>2. k \in DOMAIN cl.received => \E n \in InMsgs : InId[n] = k /\ Inbound(cl.received[k], n) /\ Hands(cl, e, n)
    BY <1>1, <1>4, CallsTwice DEF Releases
  <2> QED BY <1>1, <1>2, <1>4, <2>1, <2>2 DEF Releases
<1>5. ASSUME NEW n, Passes(cl, d, n) PROVE Passes(cl, e, n)
  <2>1. Hands(cl, e, n)
    BY <1>1, <1>5, CallsTwice DEF Passes
  <2> QED BY <1>1, <1>2, <1>5, <2>1 DEF Passes
<1> QED BY <1>3, <1>4, <1>5

LEMMA AckAsks == \A i \in Nat : /\ Asks(WithId("PUBACK", i)) /\ Asks(WithId("PUBCOMP", i))
                                /\ i \in Identifiers => Asks(WithId("PUBREC", i))
<1> TAKE i \in Nat
<1>1. /\ WithId("PUBACK", i) = Ack(4, i) /\ WithId("PUBCOMP", i) = Ack(7, i) /\ WithId("PUBREC", i) = Ack(5, i)
  BY Codes, Zenon DEF WithId, Ack
<1>2. \A t : DOMAIN Ack(t, i) = {"type", "id"} /\ Ack(t, i).type = t /\ Ack(t, i).id = i
  BY DEF Ack
<1> HIDE DEF Identifiers
<1> QED BY <1>1, <1>2 DEF Asks, Writes

LEMMA IdentifiersAre == \A i \in Identifiers : i \in Nat /\ i # NoId
BY DEF Identifiers, NoId

\* A message of quality 0 or 1.
LEMMA PassesPublish ==
  ASSUME NEW cl, Typed(cl), NEW m, NEW n \in InMsgs, Inbound(m, n), m.id \in Nat, m.qos \in {0, 1}, app.uris \in Nat
  PROVE  Passes(cl, ReceivePublish(cl, m), n)
<1> DEFINE s == Schedule(cl, WithId("PUBACK", m.id))
           x == ReceiveMessage(cl, m)
           y == ReceiveMessage(s, m)
<1>0. ReceivePublish(cl, m) = CASE m.qos = 0 -> x [] m.qos = 1 -> y
       [] m.qos = 2 -> Schedule([cl EXCEPT !.received = Put(@, m.id, m),
                                        !.store.received = Put(@, m.id, m)],
                             WithId("PUBREC", m.id))
  BY Zenon DEF ReceivePublish
<1>1. Keeps(cl, cl) /\ Keeps(cl, s)
  <2>1. Asks(WithId("PUBACK", m.id))
    BY AckAsks
  <2> QED BY <2>1, ScheduleKeeps, KeepsSame, Zenon
<1> HIDE DEF s
<1>2. ASSUME NEW d, Still(cl, d) PROVE Passes(cl, ReceiveMessage(d, m), n)
  <2> DEFINE e == ReceiveMessage(d, m)
  <2>1. DOMAIN d = Fields /\ Listed(d.calls)
    BY <1>2 DEF Still, Typed
  <2>2. Changes(d, e, {"calls", "thrown"}) /\ Listed(e.calls) /\ Hands(d, e, n) /\ (d.thrown \in BOOLEAN => e.thrown \in BOOLEAN)
    BY <2>1, ReceiveIs, Zenon
  <2> HIDE DEF e
  <2>3. Typed(d) /\ Calm(cl, d) /\ d.received = cl.received /\ Calls(cl, d)
    BY <1>2 DEF Still, Quiet
  <2>4. Typed(e)
    BY <2>2, <2>3 DEF Typed, Changes, Fields
  <2>5. Calm(d, e) /\ e.received = d.received
    BY <2>2 DEF Calm, Changes, Fields
  <2>6. Calm(cl, e)
    BY <2>3, <2>5, CalmTwice, Zenon
  <2>7. Hands(cl, e, n)
    BY <2>2, <2>3, CallsTwice
  <2> QED BY <2>3, <2>4, <2>5, <2>6, <2>7 DEF Passes, e
<1>3. Passes(cl, x, n) /\ Passes(cl, y, n)
  BY <1>1, <1>2, KeepsStill
<1> HIDE DEF x, y
<1> QED BY <1>0, <1>3

\* A message of quality 2 is kept until it is released.
LEMMA TakesPublish ==
  ASSUME NEW cl, Typed(cl), NEW m, NEW n \in InMsgs, Inbound(m, n), InId[n] = m.id, m.id \in Identifiers, m.qos = 2,
         app.uris \in Nat
  PROVE  Takes(cl, ReceivePublish(cl, m), m)
<1> DEFINE i == m.id
           s == Put(cl.received, i, m)
           t == Put(cl.store.received, i, m)
           d == [cl EXCEPT !.received = Put(@, m.id, m), !.store.received = Put(@, m.id, m)]
           r == WithId("PUBREC", m.id)
           e == Schedule(d, r)
<1>0. ReceivePublish(cl, m) = e
  <2>1. ReceivePublish(cl, m) = CASE m.qos = 0 -> ReceiveMessage(cl, m)
          [] m.qos = 1 -> ReceiveMessage(Schedule(cl, WithId("PUBACK", m.id)), m)
          [] m.qos = 2 -> e
    BY Zenon DEF ReceivePublish
  <2> HIDE DEF e
  <2> QED BY <2>1
<1>1. d = [cl EXCEPT !.received = s, !.store.received = t]
  BY Zenon
<1>2. /\ DOMAIN s = DOMAIN cl.received \cup {i} /\ s[i] = m
      /\ \A x \in DOMAIN cl.received \ {i} : s[x] = cl.received[x]
  BY DEF Put
<1>3. /\ DOMAIN t = DOMAIN cl.store.received \cup {i} /\ t[i] = m
      /\ \A x \in DOMAIN cl.store.received \ {i} : t[x] = cl.store.received[x]
  BY DEF Put
<1> HIDE DEF s, t, d
<1>4. DOMAIN cl = Fields /\ DOMAIN cl.store = {"sent", "received"} /\ ReceivedOk(cl.received)
      /\ Backs(cl.store.received, cl.received)
  BY DEF Typed
<1>5. Changes(cl, d, {"received", "store"}) /\ d.received = s
  BY <1>1, <1>4 DEF Changes, Fields
<1>6. DOMAIN d.store = {"sent", "received"} /\ d.store.received = t /\ d.store.sent = cl.store.sent
  BY <1>1, <1>4 DEF Fields
<1>7. ReceivedOk(s) /\ Backs(t, s)
  <2>1. ReceivedOk(s)
    <3> SUFFICES ASSUME NEW x \in DOMAIN s PROVE \E k \in InMsgs : InId[k] = x /\ Inbound(s[x], k)
      BY Zenon DEF ReceivedOk
    <3>1. CASE x = i
      BY <3>1, <1>2
    <3>2. CASE x # i
      BY <3>2, <1>2, <1>4 DEF ReceivedOk
    <3> QED BY <3>1, <3>2
  <2>2. Backs(t, s)
    BY <1>2, <1>3, <1>4 DEF Backs
  <2> QED BY <2>1, <2>2
<1>8. Typed(d)
  BY <1>5, <1>6, <1>7 DEF Typed, Changes, Fields
<1>9. \A x : Agree(x, x)
  BY DEF Agree
<1>10. Calm(cl, d) /\ Calls(cl, d)
  BY <1>5, <1>9 DEF Calm, Calls, Changes, Fields
<1>11. Takes(cl, d, m)
  BY <1>2, <1>5, <1>8, <1>10 DEF Takes
<1>12. Still(d, e)
  <2>1. m.id \in Nat
    BY IdentifiersAre, Zenon
  <2>2. Asks(r)
    BY <2>1, AckAsks
  <2> HIDE DEF r
  <2> QED BY <2>2, <1>8, ScheduleKeeps, KeepsStill, Zenon
<1> HIDE DEF e
<1> QED BY <1>0, <1>11, <1>12, StillAfter

\* It is released: forgotten, and handed to the page.
LEMMA ReleasesPubrel ==
  ASSUME NEW cl, Typed(cl), NEW m, m.id \in Nat, app.uris \in Nat
  PROVE  Releases(cl, HandlePubrel(cl, m), m.id)
<1> DEFINE i == m.id
           s == Drop(cl.received, i)
           t == Drop(cl.store.received, i)
           gone == [cl EXCEPT !.store.received = Drop(@, m.id)]
           got  == ReceiveMessage(gone, cl.received[i])
           d == [got EXCEPT !.received = Drop(@, m.id)]
           x == IF m.id \notin DOMAIN cl.received THEN gone
                ELSE IF HandlerThrows(cl.received[m.id]) THEN got ELSE d
           r == WithId("PUBCOMP", m.id)
           e == Schedule(x, r)
<1>0. HandlePubrel(cl, m) = e
  BY Zenon DEF HandlePubrel
<1>1. gone = [cl EXCEPT !.store.received = t]
  BY Zenon
<1>2. DOMAIN s = DOMAIN cl.received \ {i} /\ \A k \in DOMAIN cl.received \ {i} : s[k] = cl.received[k]
  BY DEF Drop
<1>3. DOMAIN t = DOMAIN cl.store.received \ {i} /\ \A k \in DOMAIN cl.store.received \ {i} : t[k] = cl.store.received[k]
  BY DEF Drop
<1> HIDE DEF s, t, gone
<1>4. DOMAIN cl = Fields /\ DOMAIN cl.store = {"sent", "received"} /\ ReceivedOk(cl.received)
      /\ Backs(cl.store.received, cl.received) /\ Listed(cl.calls)
  BY DEF Typed
<1>5. Changes(cl, gone, {"store"})
  BY <1>1, <1>4 DEF Changes, Fields
<1>6. DOMAIN gone.store = {"sent", "received"} /\ gone.store.received = t /\ gone.store.sent = cl.store.sent
  BY <1>1, <1>4 DEF Fields
<1>7. gone.received = cl.received /\ gone.calls = cl.calls /\ DOMAIN gone = Fields
  BY <1>5 DEF Changes, Fields
<1>8. \A z : Agree(z, z)
  BY DEF Agree
<1>9. ReceivedOk(s) /\ Backs(t, s)
  BY <1>2, <1>3, <1>4 DEF ReceivedOk, Backs
<1>10. ASSUME i \notin DOMAIN cl.received PROVE Releases(cl, gone, i)
  <2>1. Backs(t, cl.received) /\ ReceivedOk(cl.received)
    BY <1>3, <1>4, <1>10 DEF Backs
  <2>2. Typed(gone)
    BY <2>1, <1>5, <1>6, <1>7 DEF Typed, Changes, Fields
  <2>3. Calm(cl, gone) /\ Calls(cl, gone)
    BY <1>5, <1>8 DEF Calm, Calls, Changes, Fields
  <2> QED BY <2>2, <2>3, <1>7, <1>10 DEF Releases
<1>11. ASSUME i \in DOMAIN cl.received
       PROVE  /\ Releases(cl, d, i)
              /\ HandlerThrows(cl.received[i]) => Releases(cl, got, i)
  <2>1. PICK n \in InMsgs : InId[n] = i /\ Inbound(cl.received[i], n)
    BY <1>4, <1>11 DEF ReceivedOk
  <2>2. Changes(gone, got, {"calls", "thrown"}) /\ Listed(got.calls) /\ Hands(gone, got, n) /\ got.thrown \in BOOLEAN
    <3>1. Listed(gone.calls) /\ gone.thrown \in BOOLEAN
      BY <1>4, <1>5, <1>7 DEF Typed, Changes, Fields
    <3> QED BY <3>1, <2>1, <1>7, ReceiveIs
  <2> HIDE DEF got
  <2>9. ASSUME HandlerThrows(cl.received[i]) PROVE Releases(cl, got, i)
    <3>1. Changes(cl, got, {"calls", "thrown", "store"}) /\ got.store = gone.store /\ got.received = cl.received
      BY <2>2, <1>5, <1>7 DEF Changes, Fields
    <3>2. Backs(t, cl.received)
      BY <2>9, <1>3, <1>4, <1>11 DEF Backs
    <3>3. Typed(got)
      BY <2>2, <3>1, <3>2, <1>4, <1>6 DEF Typed, Changes, Fields
    <3>4. Calm(cl, got)
      BY <3>1 DEF Calm, Changes, Fields
    <3>5. Hands(cl, got, n)
      BY <2>2, <1>7, Zenon DEF Hands, Calls, Gained
    <3> QED BY <2>1, <2>9, <3>1, <3>3, <3>4, <3>5, <1>11 DEF Releases
  <2>3. d = [got EXCEPT !.received = s] /\ DOMAIN got = Fields /\ got.received = cl.received
    <3>1. got.received = cl.received /\ DOMAIN got = Fields
      BY <2>2, <1>7 DEF Changes, Fields
    <3> QED BY <3>1, Zenon DEF s
  <2> HIDE DEF d
  <2>4. Changes(got, d, {"received"}) /\ d.received = s
    BY <2>3 DEF Changes, Fields
  <2>5. /\ Changes(cl, d, {"received", "calls", "thrown", "store"}) /\ d.store = gone.store
        /\ d.calls = got.calls /\ d.thrown = got.thrown
    BY <2>2, <2>4, <1>5 DEF Changes, Fields
  <2>6. Typed(d)
    BY <2>2, <2>4, <2>5, <1>6, <1>9 DEF Typed, Changes, Fields
  <2>7. Calm(cl, d)
    BY <2>5 DEF Calm, Changes, Fields
  <2>8. Hands(cl, d, n)
    BY <2>2, <2>5, <1>7, Zenon DEF Hands, Calls, Gained
  <2>10. Releases(cl, d, i)
    BY <2>1, <2>4, <2>6, <2>7, <2>8, <1>2, <1>11 DEF Releases
  <2> QED BY <2>9, <2>10
<1> HIDE DEF d, i, got
<1>12. Releases(cl, x, i)
  BY <1>10, <1>11 DEF i
<1> HIDE DEF x
<1>13. Still(x, e)
  <2>1. Asks(r)
    BY AckAsks
  <2>2. Typed(x)
    BY <1>12 DEF Releases
  <2> HIDE DEF r
  <2> QED BY <2>1, <2>2, ScheduleKeeps, KeepsStill, Zenon
<1> HIDE DEF e
<1> QED BY <1>0, <1>12, <1>13, StillAfter DEF i

(***************************************************************************)
(* _handleMessage.                                                         *)
(***************************************************************************)
Wrapped(d) == IF d.thrown THEN Disconnected([d EXCEPT !.thrown = FALSE]) ELSE d

LEMMA WrappedStill ==
  ASSUME NEW d, Typed(d)
  PROVE  Still(d, Wrapped(d)) /\ (Wrapped(d).connected => Wrapped(d) = d)
<1> DEFINE e == [d EXCEPT !.thrown = FALSE]
           x == Disconnected(e)
<1>1. Wrapped(d) = IF d.thrown THEN x ELSE d
  BY Zenon DEF Wrapped
<1>2. Keeps(d, e) /\ Keeps(d, d)
  BY CalmedKeeps, KeepsSame, Zenon
<1> HIDE DEF e
<1>3. Typed(e)
  BY <1>2 DEF Keeps
<1>4. Typed(x) /\ Quiet(e, x) /\ ~x.connected
  BY <1>3, DisconnectedQuiet, Zenon
<1> HIDE DEF x
<1>5. Still(d, x) /\ Still(d, d)
  <2>1. Still(d, e) /\ Still(e, x) /\ Still(d, d)
    BY <1>2, <1>4, KeepsStill DEF Still
  <2> QED BY <2>1, StillTwice, Zenon
<1> QED BY <1>1, <1>4, <1>5

LEMMA HandleIs ==
  ASSUME NEW cl, NEW m
  PROVE  /\ m.type = 2  => HandleMessage(cl, m) = Wrapped(HandleConnack(cl, m))
         /\ m.type = 3  => HandleMessage(cl, m) = Wrapped(ReceivePublish(cl, m))
         /\ m.type = 4  => HandleMessage(cl, m) = Wrapped(HandlePuback(cl, m))
         /\ m.type = 5  => HandleMessage(cl, m) = Wrapped(HandlePubrec(cl, m))
         /\ m.type = 6  => HandleMessage(cl, m) = Wrapped(HandlePubrel(cl, m))
         /\ m.type = 7  => HandleMessage(cl, m) = Wrapped(HandlePubcomp(cl, m))
         /\ m.type = 9  => HandleMessage(cl, m) = Wrapped(HandleSuback(cl, m))
         /\ m.type = 11 => HandleMessage(cl, m) = Wrapped(HandleUnsuback(cl, m))
         /\ m.type = 13 => HandleMessage(cl, m) = Wrapped(HandlePingresp(cl, m))
<1> DEFINE h2 == HandleConnack(cl, m)
           h3 == ReceivePublish(cl, m)
           h4 == HandlePuback(cl, m)
           h5 == HandlePubrec(cl, m)
           h6 == HandlePubrel(cl, m)
           h7 == HandlePubcomp(cl, m)
           h9 == HandleSuback(cl, m)
           h11 == HandleUnsuback(cl, m)
           h13 == HandlePingresp(cl, m)
           h0 == Disconnected(cl)
           done == CASE m.type = Code("CONNACK")  -> h2
                [] m.type = Code("PUBLISH")  -> h3
                [] m.type = Code("PUBACK")   -> h4
                [] m.type = Code("PUBREC")   -> h5
                [] m.type = Code("PUBREL")   -> h6
                [] m.type = Code("PUBCOMP")  -> h7
                [] m.type = Code("SUBACK")   -> h9
                [] m.type = Code("UNSUBACK") -> h11
                [] m.type = Code("PINGRESP") -> h13
                [] OTHER                     -> h0
<1>1. HandleMessage(cl, m) = Wrapped(done)
  BY Zenon DEF HandleMessage, Wrapped
<1> HIDE DEF h2, h3, h4, h5, h6, h7, h9, h11, h13, h0
<1>2. /\ m.type = 2 => done = h2
      /\ m.type = 3 => done = h3
      /\ m.type = 4 => done = h4
      /\ m.type = 5 => done = h5
      /\ m.type = 6 => done = h6
      /\ m.type = 7 => done = h7
      /\ m.type = 9 => done = h9
      /\ m.type = 11 => done = h11
      /\ m.type = 13 => done = h13
  BY Codes
<1> HIDE DEF done
<1> QED BY <1>1, <1>2, Zenon DEF h2, h3, h4, h5, h6, h7, h9, h11, h13

LEMMA AnswerStill ==
  ASSUME NEW cl, Typed(cl), NEW m, m.type \in {4, 5, 7, 9, 11, 13}, app.uris \in Nat
  PROVE  Still(cl, HandleMessage(cl, m))
<1>1. ASSUME NEW d, Still(cl, d), HandleMessage(cl, m) = Wrapped(d)
      PROVE  Still(cl, HandleMessage(cl, m))
  <2>1. Typed(d)
    BY <1>1 DEF Still
  <2>2. Still(d, Wrapped(d))
    BY <2>1, WrappedStill, Zenon
  <2> QED BY <1>1, <2>2, StillTwice, Zenon
<1>2. /\ Still(cl, HandlePuback(cl, m)) /\ Still(cl, HandlePubcomp(cl, m))
      /\ Still(cl, HandleUnsuback(cl, m)) /\ Still(cl, HandleSuback(cl, m))
  BY AnsweredStill, Zenon
<1>3. Still(cl, HandlePubrec(cl, m)) /\ Still(cl, HandlePingresp(cl, m))
  BY PubrecStill, PingrespStill, Zenon
<1>4. CASE m.type = 4
  <2>1. HandleMessage(cl, m) = Wrapped(HandlePuback(cl, m))
    BY <1>4, HandleIs, Zenon
  <2> QED BY <2>1, <1>1, <1>2, Zenon
<1>5. CASE m.type = 5
  <2>1. HandleMessage(cl, m) = Wrapped(HandlePubrec(cl, m))
    BY <1>5, HandleIs, Zenon
  <2> QED BY <2>1, <1>1, <1>3, Zenon
<1>6. CASE m.type = 7
  <2>1. HandleMessage(cl, m) = Wrapped(HandlePubcomp(cl, m))
    BY <1>6, HandleIs, Zenon
  <2> QED BY <2>1, <1>1, <1>2, Zenon
<1>7. CASE m.type = 9
  <2>1. HandleMessage(cl, m) = Wrapped(HandleSuback(cl, m))
    BY <1>7, HandleIs, Zenon
  <2> QED BY <2>1, <1>1, <1>2, Zenon
<1>8. CASE m.type = 11
  <2>1. HandleMessage(cl, m) = Wrapped(HandleUnsuback(cl, m))
    BY <1>8, HandleIs, Zenon
  <2> QED BY <2>1, <1>1, <1>2, Zenon
<1>9. CASE m.type = 13
  <2>1. HandleMessage(cl, m) = Wrapped(HandlePingresp(cl, m))
    BY <1>9, HandleIs, Zenon
  <2> QED BY <2>1, <1>1, <1>3, Zenon
<1> QED BY <1>4, <1>5, <1>6, <1>7, <1>8, <1>9

LEMMA PublishEffect ==
  ASSUME NEW cl, Typed(cl), NEW m, m.type = 3, NEW n \in InMsgs, Inbound(m, n), m.id \in Nat, m.qos \in 0 .. 2,
         app.uris \in Nat, m.qos = 2 => InId[n] = m.id /\ m.id \in Identifiers
  PROVE  /\ m.qos = 2 => Takes(cl, HandleMessage(cl, m), m)
         /\ m.qos # 2 => Passes(cl, HandleMessage(cl, m), n)
<1> DEFINE d == ReceivePublish(cl, m)
<1>1. HandleMessage(cl, m) = Wrapped(d)
  BY HandleIs, Zenon
<1>2. m.qos = 2 => Takes(cl, d, m)
  BY TakesPublish
<1>3. m.qos # 2 => Passes(cl, d, n)
  <2>1. m.qos # 2 => m.qos \in {0, 1}
    OBVIOUS
  <2> QED BY <2>1, PassesPublish
<1> HIDE DEF d
<1>4. Typed(d)
  BY <1>2, <1>3 DEF Takes, Passes
<1>5. Still(d, Wrapped(d))
  BY <1>4, WrappedStill, Zenon
<1> QED BY <1>1, <1>2, <1>3, <1>5, StillAfter

LEMMA PubrelEffect ==
  ASSUME NEW cl, Typed(cl), NEW m, m.type = 6, m.id \in Nat, app.uris \in Nat
  PROVE  Releases(cl, HandleMessage(cl, m), m.id)
<1> DEFINE d == HandlePubrel(cl, m)
<1>1. HandleMessage(cl, m) = Wrapped(d)
  BY HandleIs, Zenon
<1>2. Releases(cl, d, m.id)
  BY ReleasesPubrel, Zenon
<1> HIDE DEF d
<1>3. Typed(d)
  BY <1>2 DEF Releases
<1>4. Still(d, Wrapped(d))
  BY <1>3, WrappedStill, Zenon
<1> QED BY <1>1, <1>2, <1>4, StillAfter

\* What every step of a connection keeps to, the one that connects included.
Bound(cl, d) ==
  /\ d.buffer = cl.buffer
  /\ ~d.cut => ~cl.cut /\ d.socket = cl.socket
  /\ \A p \in DOMAIN d.out : d.out[p].type = 1 => p \in DOMAIN cl.out /\ cl.out[p] = d.out[p]
  /\ d.socket = "connecting" => cl.socket = "connecting" \/ \A p \in DOMAIN d.out : d.out[p].type # 1

LEMMA BoundTwice ==
  ASSUME NEW cl, NEW d, NEW e, Bound(cl, d), Bound(d, e)
  PROVE  Bound(cl, e)
BY DEF Bound

LEMMA CalmBound == \A cl, d : Calm(cl, d) => Bound(cl, d)
BY DEF Calm, Bound

LEMMA UpStays ==
  ASSUME NEW cl, NEW d, Calm(cl, d), cl.connected => Up(cl)
  PROVE  d.connected => Up(d)
BY DEF Calm, Up

LEMMA ConnackEffect ==
  ASSUME NEW cl, Typed(cl), NEW m, m.type = 2, cl.socket = "open", ~cl.connected, app.uris \in Nat
  PROVE  LET d == HandleMessage(cl, m)
         IN /\ Typed(d) /\ Bound(cl, d) /\ (d.connected => Up(d)) /\ Calls(cl, d)
            /\ d.received = cl.received \/ d.received = NoEntries
<1> DEFINE d == HandleConnack(cl, m)
           w == HandleMessage(cl, m)
<1>1. w = Wrapped(d)
  BY HandleIs, Zenon
<1>2. PICK on :
                 /\ Typed(on) /\ Cleared(cl, on)
                 /\ m.returnCode = 0 => Up(on) /\ Keeps(on, d)
                 /\ m.returnCode # 0 => on.connected = cl.connected /\ on.hostIndex = cl.hostIndex /\ d = Disconnected(on)
  BY ConnackIs
<1>3. Bound(cl, on) /\ on.calls = cl.calls
  BY <1>2 DEF Cleared, Bound, Changes, Fields
<1>4. on.connected => Up(on)
  BY <1>2
<1>5. Still(on, Disconnected(on))
  BY <1>2, DisconnectedQuiet, Zenon DEF Still
<1> HIDE DEF d, w
<1>6. Still(on, d)
  BY <1>2, <1>5, KeepsStill
<1>7. Still(on, w)
  <2>1. Still(d, Wrapped(d))
    BY <1>6, WrappedStill, Zenon DEF Still
  <2> QED BY <1>1, <1>6, <2>1, StillTwice, Zenon
<1>8. Typed(w) /\ Calm(on, w) /\ w.received = on.received /\ Calls(on, w)
  BY <1>7 DEF Still, Quiet
<1>9. Bound(cl, w) /\ (w.connected => Up(w))
  BY <1>3, <1>4, <1>8, CalmBound, BoundTwice, UpStays
<1>10. Calls(cl, w)
  BY <1>3, <1>8 DEF Calls
<1>11. w.received = cl.received \/ w.received = NoEntries
  BY <1>2, <1>8 DEF Cleared
<1> QED BY <1>8, <1>9, <1>10, <1>11, Zenon DEF w

(***************************************************************************)
(* The ledger of a message of quality 2: what the page was handed (g),     *)
(* what the client keeps (r), what is on its way to it (T) and how far the *)
(* broker is (f).                                                          *)
(***************************************************************************)
Pending(T, i) == i \in DOMAIN T /\ T[i].part # "first"
Pub(T, i, n)  == Pending(T, i) /\ T[i].msg.type = 3 /\ T[i].msg.payload = <<n>>
Rel(T, i, k)  == Pending(T, i) /\ T[i].msg.type = 6 /\ T[i].msg.id = k
Kept(r, n)    == InId[n] \in DOMAIN r /\ r[InId[n]].payload = <<n>>
Past(f, n)    == f[n] \in {"released", "done"}
Open(f, n)    == f[n] \in {"published", "released"}
Stages        == {"idle", "published", "released", "done"}

\* The page has it and did not throw: nothing is left that could hand it
\* over again.
HandedOnce(r, T, g, f) ==
  \A n \in InMsgs \ Unreadable : g[n] >= 1 => g[n] = 1 /\ Past(f, n) /\ ~Kept(r, n) /\ \A i : ~Pub(T, i, n)
\* It was published before it is kept or on its way.
Published(r, T, f) ==
  \A n \in InMsgs : f[n] = "idle" => ~Kept(r, n) /\ \A i : ~Pub(T, i, n)
\* Only one copy is on its way.
OneCopy(T) == \A n \in InMsgs : \A i, j : Pub(T, i, n) /\ Pub(T, j, n) => i = j
\* Its release follows every copy of it.
ReleasedLast(r, T, f) ==
  \A n \in InMsgs : \A p : Rel(T, p, InId[n]) /\ Kept(r, n) => Past(f, n) /\ \A i : Pub(T, i, n) => i < p
ReleasedPast(T, f) ==
  \A n \in InMsgs : \A i, p : Pub(T, i, n) /\ Rel(T, p, InId[n]) /\ i < p => Past(f, n)
\* An identifier serves one open message.
OneOpen(f) == \A n, k \in InMsgs : InId[n] = InId[k] /\ Open(f, n) /\ Open(f, k) => n = k

Ledger(r, T, g, f) ==
  /\ g \in [InMsgs -> Nat] /\ f \in [InMsgs -> Stages] /\ DOMAIN T \subseteq Nat \ {0}
  /\ HandedOnce(r, T, g, f) /\ Published(r, T, f) /\ OneCopy(T)
  /\ ReleasedLast(r, T, f) /\ ReleasedPast(T, f) /\ OneOpen(f)

\* The tags but for the first s.
Later(T, U, s) == \A i \in DOMAIN U : i \in Nat \ {0} /\ i + s \in DOMAIN T /\ U[i] = T[i + s]

LEMMA LaterHas ==
  ASSUME NEW T, NEW U, NEW s, Later(T, U, s)
  PROVE  /\ DOMAIN U \subseteq Nat \ {0}
         /\ \A i, n : Pub(U, i, n) => i \in Nat \ {0} /\ Pub(T, i + s, n)
         /\ \A i, k : Rel(U, i, k) => i \in Nat \ {0} /\ Rel(T, i + s, k)
BY DEF Later, Pub, Rel, Pending

LEMMA LedgerLess ==
  ASSUME NEW r, NEW T, NEW g, NEW f, Ledger(r, T, g, f), NEW r2, \A n \in InMsgs : Kept(r2, n) => Kept(r, n),
         NEW U, NEW s \in Nat, Later(T, U, s)
  PROVE  Ledger(r2, U, g, f)
<1>1. /\ DOMAIN U \subseteq Nat \ {0}
      /\ \A i, n : Pub(U, i, n) => i \in Nat \ {0} /\ Pub(T, i + s, n)
      /\ \A i, k : Rel(U, i, k) => i \in Nat \ {0} /\ Rel(T, i + s, k)
  BY LaterHas
<1>2. HandedOnce(r2, U, g, f)
  BY <1>1 DEF Ledger, HandedOnce
<1>3. Published(r2, U, f)
  BY <1>1 DEF Ledger, Published
<1>4. OneCopy(U)
  <2> SUFFICES ASSUME NEW n \in InMsgs, NEW i, NEW j, Pub(U, i, n), Pub(U, j, n) PROVE i = j
    BY DEF OneCopy
  <2>1. i \in Nat /\ j \in Nat /\ i + s = j + s
    BY <1>1 DEF Ledger, OneCopy
  <2> QED BY <2>1
<1>5. ReleasedLast(r2, U, f)
  <2> SUFFICES ASSUME NEW n \in InMsgs, NEW p, Rel(U, p, InId[n]), Kept(r2, n)
               PROVE  Past(f, n) /\ \A i : Pub(U, i, n) => i < p
    BY DEF ReleasedLast
  <2>1. p \in Nat /\ Rel(T, p + s, InId[n]) /\ Kept(r, n)
    BY <1>1
  <2>2. Past(f, n) /\ \A i : Pub(T, i, n) => i < p + s
    BY <2>1 DEF Ledger, ReleasedLast
  <2>3. ASSUME NEW i, Pub(U, i, n) PROVE i < p
    <3>1. i \in Nat /\ i + s < p + s
      BY <1>1, <2>2, <2>3
    <3> QED BY <3>1, <2>1
  <2> QED BY <2>2, <2>3
<1>6. ReleasedPast(U, f)
  <2> SUFFICES ASSUME NEW n \in InMsgs, NEW i, NEW p, Pub(U, i, n), Rel(U, p, InId[n]), i < p
               PROVE  Past(f, n)
    BY DEF ReleasedPast
  <2>1. i \in Nat /\ p \in Nat /\ Pub(T, i + s, n) /\ Rel(T, p + s, InId[n])
    BY <1>1
  <2>2. i + s < p + s
    BY <2>1
  <2> QED BY <2>1, <2>2 DEF Ledger, ReleasedPast
<1> QED BY <1>1, <1>2, <1>3, <1>4, <1>5, <1>6 DEF Ledger

\* The client takes the copy in front.
LEMMA LedgerTake ==
  ASSUME NEW r, NEW T, NEW g, NEW f, Ledger(r, T, g, f), NEW n \in InMsgs, Pub(T, 1, n),
         NEW U, Later(T, U, 1), NEW r2, \A k \in InMsgs : Kept(r2, k) => Kept(r, k) \/ k = n
  PROVE  Ledger(r2, U, g, f)
<1>1. /\ DOMAIN U \subseteq Nat \ {0} /\ DOMAIN T \subseteq Nat \ {0}
      /\ \A i, k : Pub(U, i, k) => i \in Nat \ {0} /\ Pub(T, i + 1, k)
      /\ \A i, k : Rel(U, i, k) => i \in Nat \ {0} /\ Rel(T, i + 1, k)
  BY LaterHas DEF Ledger
<1>2. Ledger(r, U, g, f)
  BY LedgerLess
<1>3. \A i : ~Pub(U, i, n)
  <2> SUFFICES ASSUME NEW i, Pub(U, i, n) PROVE FALSE
    OBVIOUS
  <2>1. i \in Nat \ {0} /\ i + 1 = 1
    BY <1>1 DEF Ledger, OneCopy
  <2> QED BY <2>1
<1>4. HandedOnce(r2, U, g, f)
  BY <1>2 DEF Ledger, HandedOnce
<1>5. Published(r2, U, f)
  BY <1>2 DEF Ledger, Published
<1>6. ReleasedLast(r2, U, f)
  <2> SUFFICES ASSUME NEW k \in InMsgs, NEW p, Rel(U, p, InId[k]), Kept(r2, k)
               PROVE  Past(f, k) /\ \A i : Pub(U, i, k) => i < p
    BY DEF ReleasedLast
  <2>1. CASE k # n
    BY <2>1, <1>2 DEF Ledger, ReleasedLast
  <2>2. CASE k = n
    <3>1. p \in Nat \ {0} /\ Rel(T, p + 1, InId[n])
      BY <2>2, <1>1
    <3>2. 1 < p + 1
      BY <3>1
    <3>3. Past(f, n)
      BY <3>1, <3>2 DEF Ledger, ReleasedPast
    <3> QED BY <2>2, <3>3, <1>3
  <2> QED BY <2>1, <2>2
<1> QED BY <1>2, <1>4, <1>5, <1>6 DEF Ledger

\* The client releases what it kept.
LEMMA LedgerRelease ==
  ASSUME NEW r, NEW T, NEW g, NEW f, Ledger(r, T, g, f), NEW n \in InMsgs, Rel(T, 1, InId[n]), Kept(r, n),
         NEW U, Later(T, U, 1), NEW r2, \A k \in InMsgs : Kept(r2, k) => Kept(r, k) /\ (k = n => n \in Unreadable),
         NEW h \in [InMsgs -> Nat], h[n] = g[n] + 1, \A k \in InMsgs : k # n => h[k] = g[k]
  PROVE  Ledger(r2, U, h, f)
<1>1. /\ DOMAIN U \subseteq Nat \ {0} /\ DOMAIN T \subseteq Nat \ {0}
      /\ \A i, k : Pub(U, i, k) => i \in Nat \ {0} /\ Pub(T, i + 1, k)
  BY LaterHas DEF Ledger
<1>2. Ledger(r2, U, g, f)
  BY LedgerLess
<1>3. Past(f, n) /\ \A i : Pub(T, i, n) => i < 1
  BY DEF Ledger, ReleasedLast
<1>4. \A i : ~Pub(U, i, n)
  <2> SUFFICES ASSUME NEW i, Pub(U, i, n) PROVE FALSE
    OBVIOUS
  <2>1. i \in Nat \ {0} /\ i + 1 < 1
    BY <1>1, <1>3
  <2> QED BY <2>1
<1>5. n \notin Unreadable => g[n] = 0
  <2>1. g[n] \in Nat
    BY DEF Ledger
  <2> QED BY <2>1 DEF Ledger, HandedOnce
<1>6. HandedOnce(r2, U, h, f)
  BY <1>2, <1>3, <1>4, <1>5 DEF Ledger, HandedOnce
<1> QED BY <1>2, <1>6 DEF Ledger

(***************************************************************************)
(* The same ledger at the broker's steps.                                  *)
(***************************************************************************)
\* The messages on their way are those of T, and these at position p.
Adds(T, U, p) ==
  /\ DOMAIN U \subseteq Nat \ {0} /\ p \in Nat /\ \A i \in DOMAIN T : i < p
  /\ \A i \in DOMAIN U : i # p /\ Pending(U, i) => i \in DOMAIN T /\ U[i] = T[i]

LEMMA AddsHas ==
  ASSUME NEW T, NEW U, NEW p, Adds(T, U, p)
  PROVE  /\ \A i, n : Pub(U, i, n) => i = p \/ (Pub(T, i, n) /\ i < p)
         /\ \A i, k : Rel(U, i, k) => i = p \/ (Rel(T, i, k) /\ i < p)
BY DEF Adds, Pub, Rel, Pending

\* A new message, whose identifier is free.
LEMMA LedgerPublish ==
  ASSUME NEW r, NEW T, NEW g, NEW f, Ledger(r, T, g, f), NEW n \in InMsgs, f[n] = "idle",
         NEW U, NEW p, Adds(T, U, p), \A i : ~Rel(U, p, i), \A k : Pub(U, p, k) => k = n,
         NEW f2 \in [InMsgs -> Stages], f2[n] = "published", \A k \in InMsgs : k # n => f2[k] = f[k],
         \A k \in InMsgs : InId[k] = InId[n] => ~Open(f, k)
  PROVE  Ledger(r, U, g, f2)
<1>1. /\ \A i, k : Pub(U, i, k) => i = p \/ (Pub(T, i, k) /\ i < p)
      /\ \A i, k : Rel(U, i, k) => i = p \/ (Rel(T, i, k) /\ i < p)
  BY AddsHas
<1>2. (n \notin Unreadable => g[n] = 0) /\ ~Kept(r, n) /\ \A i : ~Pub(T, i, n)
  <2>1. g[n] \in Nat
    BY DEF Ledger
  <2> QED BY <2>1 DEF Ledger, HandedOnce, Published, Past
<1>3. \A k \in InMsgs : Past(f, k) => Past(f2, k)
  BY DEF Past
<1>4. \A i, k : Rel(U, i, k) => Rel(T, i, k) /\ i < p
  BY <1>1
<1>5. \A i, k : Pub(U, i, k) => (k = n /\ i = p) \/ (k # n /\ Pub(T, i, k))
  BY <1>1, <1>2
<1>6. HandedOnce(r, U, g, f2)
  BY <1>2, <1>3, <1>5 DEF Ledger, HandedOnce
<1>7. Published(r, U, f2)
  BY <1>5 DEF Ledger, Published
<1>8. OneCopy(U)
  BY <1>5 DEF Ledger, OneCopy
<1>9. ReleasedLast(r, U, f2)
  BY <1>2, <1>3, <1>4, <1>5 DEF Ledger, ReleasedLast
<1>10. ReleasedPast(U, f2)
  <2> SUFFICES ASSUME NEW k \in InMsgs, NEW i, NEW j, Pub(U, i, k), Rel(U, j, InId[k]), i < j
               PROVE  Past(f2, k)
    BY DEF ReleasedPast
  <2>1. Rel(T, j, InId[k]) /\ j < p /\ j \in Nat /\ p \in Nat
    BY <1>4 DEF Ledger, Rel, Pending, Adds
  <2>2. i # p
    BY <2>1
  <2>3. Pub(T, i, k)
    BY <2>2, <1>5
  <2> QED BY <2>1, <2>3, <1>3 DEF Ledger, ReleasedPast
<1>11. OneOpen(f2)
  BY DEF Ledger, OneOpen, Open
<1>12. DOMAIN U \subseteq Nat \ {0}
  BY DEF Adds
<1> QED BY <1>6, <1>7, <1>8, <1>9, <1>10, <1>11, <1>12 DEF Ledger

\* The broker goes on with the messages of one identifier; it may answer
\* with their release.
LEMMA LedgerAdvance ==
  ASSUME NEW r, NEW T, NEW g, NEW f, Ledger(r, T, g, f),
         NEW U, NEW p, Adds(T, U, p), \A k : ~Pub(U, p, k),
         NEW f2 \in [InMsgs -> Stages],
         \A k \in InMsgs : /\ f[k] = "idle" <=> f2[k] = "idle"
                           /\ Past(f, k) => Past(f2, k)
                           /\ Open(f2, k) => Open(f, k)
                           /\ Rel(U, p, InId[k]) => f[k] = "idle" \/ Past(f2, k)
  PROVE  Ledger(r, U, g, f2)
<1>1. /\ \A i, k : Pub(U, i, k) => i = p \/ (Pub(T, i, k) /\ i < p)
      /\ \A i, k : Rel(U, i, k) => i = p \/ (Rel(T, i, k) /\ i < p)
  BY AddsHas
<1>2. \A i, k : Pub(U, i, k) => Pub(T, i, k) /\ i < p
  BY <1>1
<1>3. HandedOnce(r, U, g, f2)
  BY <1>2 DEF Ledger, HandedOnce
<1>4. Published(r, U, f2)
  BY <1>2 DEF Ledger, Published
<1>5. OneCopy(U)
  BY <1>2 DEF Ledger, OneCopy
<1>6. ReleasedLast(r, U, f2)
  <2> SUFFICES ASSUME NEW k \in InMsgs, NEW i, Rel(U, i, InId[k]), Kept(r, k)
               PROVE  Past(f2, k) /\ \A j : Pub(U, j, k) => j < i
    BY DEF ReleasedLast
  <2>1. f[k] # "idle"
    BY DEF Ledger, Published
  <2>2. CASE i = p
    BY <2>1, <2>2, <1>2
  <2>3. CASE i # p
    BY <2>3, <1>1, <1>2 DEF Ledger, ReleasedLast
  <2> QED BY <2>2, <2>3
<1>7. ReleasedPast(U, f2)
  <2> SUFFICES ASSUME NEW k \in InMsgs, NEW i, NEW j, Pub(U, i, k), Rel(U, j, InId[k]), i < j
               PROVE  Past(f2, k)
    BY DEF ReleasedPast
  <2>1. f[k] # "idle" /\ Pub(T, i, k)
    BY <1>2 DEF Ledger, Published
  <2>2. CASE j = p
    BY <2>1, <2>2
  <2>3. CASE j # p
    BY <2>1, <2>3, <1>1 DEF Ledger, ReleasedPast
  <2> QED BY <2>2, <2>3
<1>8. OneOpen(f2)
  BY DEF Ledger, OneOpen
<1>9. DOMAIN U \subseteq Nat \ {0}
  BY DEF Adds
<1> QED BY <1>3, <1>4, <1>5, <1>6, <1>7, <1>8, <1>9 DEF Ledger

\* The broker resumes the session: after CONNACK it repeats each open message,
\* published or released as it is.
LEMMA LedgerResume ==
  ASSUME NEW r, NEW T, NEW g, NEW f, Ledger(r, T, g, f),
         NEW f2 \in [InMsgs -> Stages],
         \A k \in InMsgs : f2[k] = f[k] \/ (f[k] # "idle" /\ f2[k] = "done"),
         NEW U, DOMAIN U \subseteq Nat \ {0},
         NEW who, \A i \in DOMAIN U \ {1} : who[i] \in InMsgs,
         \A i, k : Pub(U, i, k) => i # 1 /\ k = who[i] /\ f2[who[i]] = "published",
         \A i, k : Rel(U, i, k) => i # 1 /\ k = InId[who[i]] /\ f2[who[i]] = "released",
         \A i, j \in DOMAIN U \ {1} : who[i] = who[j] => i = j
  PROVE  Ledger(r, U, g, f2)
<1>1. \A i, k : (Pub(U, i, k) => i \in DOMAIN U \ {1}) /\ (Rel(U, i, k) => i \in DOMAIN U \ {1})
  BY DEF Pub, Rel, Pending
<1>2. \A k \in InMsgs : (Past(f, k) => Past(f2, k)) /\ (f[k] = "idle" <=> f2[k] = "idle") /\ (Open(f2, k) => Open(f, k))
  BY DEF Past, Open
<1>3. HandedOnce(r, U, g, f2)
  <2> SUFFICES ASSUME NEW n \in InMsgs \ Unreadable, g[n] >= 1
               PROVE  g[n] = 1 /\ Past(f2, n) /\ ~Kept(r, n) /\ \A i : ~Pub(U, i, n)
    BY DEF HandedOnce
  <2>1. g[n] = 1 /\ Past(f2, n) /\ ~Kept(r, n)
    BY <1>2 DEF Ledger, HandedOnce
  <2>2. f2[n] # "published"
    BY <2>1 DEF Past
  <2> QED BY <2>1, <2>2
<1>4. Published(r, U, f2)
  <2> SUFFICES ASSUME NEW n \in InMsgs, f2[n] = "idle"
               PROVE  ~Kept(r, n) /\ \A i : ~Pub(U, i, n)
    BY DEF Published
  <2>1. f[n] = "idle" /\ f2[n] # "published"
    BY <1>2
  <2> QED BY <2>1 DEF Ledger, Published
<1>5. OneCopy(U)
  BY <1>1 DEF OneCopy
<1>6. OneOpen(f2)
  BY <1>2 DEF Ledger, OneOpen
<1>7. ASSUME NEW n \in InMsgs, NEW p, Rel(U, p, InId[n])
      PROVE  ~Open(f2, n) \/ (f2[n] = "released")
  <2>1. who[p] \in InMsgs /\ InId[who[p]] = InId[n] /\ f2[who[p]] = "released" /\ Open(f2, who[p])
    BY <1>1, <1>7 DEF Open
  <2> QED BY <2>1, <1>6 DEF OneOpen
<1>8. ReleasedLast(r, U, f2)
  <2> SUFFICES ASSUME NEW n \in InMsgs, NEW p, Rel(U, p, InId[n]), Kept(r, n)
               PROVE  Past(f2, n) /\ \A i : Pub(U, i, n) => i < p
    BY DEF ReleasedLast
  <2>1. f2[n] # "idle" /\ f2[n] \in Stages
    BY <1>2 DEF Ledger, Published
  <2>2. Past(f2, n)
    BY <2>1, <1>7 DEF Past, Open, Stages
  <2>3. f2[n] # "published"
    BY <2>2 DEF Past
  <2> QED BY <2>2, <2>3
<1>9. ReleasedPast(U, f2)
  <2> SUFFICES ASSUME NEW n \in InMsgs, NEW i, NEW p, Pub(U, i, n), Rel(U, p, InId[n]), i < p
               PROVE  Past(f2, n)
    BY DEF ReleasedPast
  <2>1. f2[n] = "published"
    OBVIOUS
  <2> QED BY <2>1, <1>7 DEF Open
<1> QED BY <1>3, <1>4, <1>5, <1>6, <1>8, <1>9 DEF Ledger

(***************************************************************************)
(* What is on its way to the client: each chunk is a packet of a known     *)
(* message, or its first or second part.                                   *)
(***************************************************************************)
Arriving(m) ==
  /\ m.type \in {2, 3, 4, 5, 6, 7, 9, 11, 13} /\ m.id \in Nat
  /\ m.type = 3 => /\ m.qos = app.inQos
                   /\ \E n \in InMsgs : Inbound(m, n) /\ (m.qos = 2 => InId[n] = m.id /\ m.id \in Identifiers)
Tag(t) ==
  /\ Carries(t.bytes, t.msg) /\ Arriving(t.msg) /\ t.at \in 0 .. Len(t.bytes) - 1
  /\ t.part \in {"whole", "first", "second"} /\ (t.msg.type = 2 => t.part = "whole")
Chunk(t) == CASE t.part = "whole"  -> t.bytes
              [] t.part = "first"  -> First(t.bytes, t.at)
              [] t.part = "second" -> Second(t.bytes, t.at)

\* The second part follows the first.
Chain(T) ==
  /\ \A i \in DOMAIN T : T[i].part = "first" =>
       /\ i + 1 \in DOMAIN T /\ T[i + 1].part = "second"
       /\ T[i + 1].bytes = T[i].bytes /\ T[i + 1].msg = T[i].msg /\ T[i + 1].at = T[i].at
  /\ \A i \in DOMAIN T : T[i].part = "second" /\ i # 1 => T[i - 1].part = "first"
\* Only the first can be a CONNACK, and then it is awaited.
AckFirst(cl, T) == \A i \in DOMAIN T : T[i].msg.type = 2 => i = 1 /\ ~cl.connected
Tagged(T, n) == n \in Nat /\ DOMAIN T = 1 .. n /\ (\A i \in 1 .. n : Tag(T[i])) /\ Chain(T)

After(T, n, k) == [i \in 1 .. n - k |-> T[i + k]]

\* The page hears of messages that were published, and of nothing else.
Tells(x, y) ==
  /\ DOMAIN x = DOMAIN y /\ \A f \in DOMAIN x \ {"delivered", "last", "arrived"} : x[f] = y[f]
  /\ y.arrived \in [InMsgs -> Nat]
AppOk(a) ==
  /\ {"arrived", "corrupt", "inQos", "outQos", "uris"} \subseteq DOMAIN a
  /\ a.uris \in Nat /\ a.inQos \in 0 .. 2 /\ a.outQos \in 0 .. 2 /\ a.arrived \in [InMsgs -> Nat]

\* The client while it handles what has arrived.
Mid(cl, T, n) ==
  /\ Tagged(T, n) /\ AckFirst(cl, T) /\ Typed(cl) /\ (cl.connected => Up(cl))
  /\ Tells(app, Heard(app, cl.calls))
  /\ app.inQos = 2 => Ledger(cl.received, T, Heard(app, cl.calls).arrived, b.flow)

LEMMA TellsMore ==
  ASSUME NEW x, NEW y, NEW z, Tells(x, y), "arrived" \in DOMAIN x
  PROVE  /\ Agree(y, z) => Tells(x, z) /\ z.arrived = y.arrived
         /\ \A n \in InMsgs : Agree(Gets(y, n), z) =>
              /\ Tells(x, z) /\ z.arrived[n] = y.arrived[n] + 1
              /\ \A k \in InMsgs : k # n => z.arrived[k] = y.arrived[k]
<1>1. Agree(y, z) => Tells(x, z) /\ z.arrived = y.arrived
  BY DEF Tells, Agree
<1>2. ASSUME NEW n \in InMsgs, Agree(Gets(y, n), z)
      PROVE  /\ Tells(x, z) /\ z.arrived[n] = y.arrived[n] + 1
             /\ \A k \in InMsgs : k # n => z.arrived[k] = y.arrived[k]
  <2> DEFINE e == Gets(y, n)
             g == [y.arrived EXCEPT ![n] = @ + 1]
  <2>0. "arrived" \in DOMAIN y /\ y.arrived \in [InMsgs -> Nat]
    BY DEF Tells
  <2>1. /\ g \in [InMsgs -> Nat] /\ g[n] = y.arrived[n] + 1
        /\ \A k \in InMsgs : k # n => g[k] = y.arrived[k]
    BY <2>0
  <2>2. e = [y EXCEPT !.arrived = g]
    BY Zenon DEF Gets
  <2> HIDE DEF g, e
  <2>3. DOMAIN e = DOMAIN y /\ e.arrived = g /\ \A f \in DOMAIN y \ {"arrived"} : e[f] = y[f]
    BY <2>0, <2>2
  <2>4. Agree(e, z)
    BY <1>2 DEF e
  <2>5. z.arrived = g /\ DOMAIN z = DOMAIN y
    BY <2>0, <2>3, <2>4 DEF Agree
  <2>6. Tells(x, z)
    BY <2>1, <2>3, <2>4, <2>5 DEF Tells, Agree
  <2> QED BY <2>1, <2>5, <2>6
<1> QED BY <1>1, <1>2

LEMMA AfterIs ==
  ASSUME NEW T, NEW n, Tagged(T, n), NEW k \in 0 .. n
  PROVE  Tagged(After(T, n, k), n - k) /\ Later(T, After(T, n, k), k)
         /\ \A i \in DOMAIN After(T, n, k) : After(T, n, k)[i] = T[i + k]
<1> DEFINE U == After(T, n, k)
<1>1. n \in Nat /\ DOMAIN T = 1 .. n /\ n - k \in Nat
  BY DEF Tagged
<1>2. DOMAIN U = 1 .. n - k /\ \A i \in 1 .. n - k : U[i] = T[i + k] /\ i + k \in 1 .. n
  BY <1>1 DEF After
<1> HIDE DEF U
<1>3. \A i \in 1 .. n - k : Tag(U[i])
  BY <1>2 DEF Tagged
<1>4. ASSUME NEW i \in DOMAIN U, U[i].part = "first"
      PROVE  /\ i + 1 \in DOMAIN U /\ U[i + 1].part = "second"
             /\ U[i + 1].bytes = U[i].bytes /\ U[i + 1].msg = U[i].msg /\ U[i + 1].at = U[i].at
  <2>1. i + k \in DOMAIN T /\ T[i + k].part = "first" /\ U[i] = T[i + k]
    BY <1>1, <1>2, <1>4
  <2>2. /\ (i + k) + 1 \in DOMAIN T /\ T[(i + k) + 1].part = "second"
        /\ T[(i + k) + 1].bytes = T[i + k].bytes /\ T[(i + k) + 1].msg = T[i + k].msg
        /\ T[(i + k) + 1].at = T[i + k].at
    BY <2>1 DEF Tagged, Chain
  <2>3. i + 1 \in 1 .. n - k /\ (i + 1) + k = (i + k) + 1
    BY <1>1, <1>2, <2>2
  <2>4. U[i + 1] = T[(i + k) + 1]
    BY <1>2, <2>3
  <2> QED BY <1>2, <2>1, <2>2, <2>3, <2>4
<1>5. ASSUME NEW i \in DOMAIN U, U[i].part = "second", i # 1
      PROVE  U[i - 1].part = "first"
  <2>1. i - 1 \in 1 .. n - k /\ (i - 1) + k = (i + k) - 1 /\ i + k \in 1 .. n /\ i + k # 1
    BY <1>1, <1>2, <1>5
  <2>2. U[i - 1] = T[(i + k) - 1] /\ U[i] = T[i + k]
    BY <1>2, <2>1
  <2> QED BY <1>1, <1>5, <2>1, <2>2 DEF Tagged, Chain
<1>6. Later(T, U, k)
  BY <1>1, <1>2 DEF Later
<1>7. Tagged(U, n - k)
  BY <1>1, <1>2, <1>3, <1>4, <1>5 DEF Tagged, Chain
<1> QED BY <1>2, <1>6, <1>7 DEF U

\* Nothing behind the first is a CONNACK.
LEMMA AfterAck ==
  ASSUME NEW T, NEW n, Tagged(T, n), NEW cl, AckFirst(cl, T), NEW d, NEW k \in 1 .. n
  PROVE  AckFirst(d, After(T, n, k))
<1> SUFFICES ASSUME NEW i \in DOMAIN After(T, n, k), After(T, n, k)[i].msg.type = 2
             PROVE  FALSE
  BY DEF AckFirst
<1>1. n \in Nat /\ DOMAIN T = 1 .. n
  BY DEF Tagged
<1>2. i \in 1 .. n - k /\ After(T, n, k)[i] = T[i + k] /\ i + k \in 1 .. n /\ i + k # 1
  BY <1>1 DEF After
<1> QED BY <1>1, <1>2 DEF AckFirst

\* The first part of a packet waits in the buffer.
LEMMA DropMid ==
  ASSUME NEW cl, NEW T, NEW n, Mid(cl, T, n), n > 0
  PROVE  Mid(cl, After(T, n, 1), n - 1)
<1> DEFINE U == After(T, n, 1)
<1>1. n \in Nat /\ 1 \in 0 .. n /\ 1 \in 1 .. n /\ Tagged(T, n) /\ AckFirst(cl, T)
  BY DEF Mid, Tagged
<1>2. Tagged(U, n - 1) /\ Later(T, U, 1)
  BY <1>1, AfterIs
<1>3. AckFirst(cl, U)
  BY <1>1, AfterAck
<1> HIDE DEF U
<1>4. app.inQos = 2 => Ledger(cl.received, U, Heard(app, cl.calls).arrived, b.flow)
  BY <1>2, LedgerLess DEF Mid
<1> QED BY <1>2, <1>3, <1>4 DEF Mid, U

\* A message that changes nothing the ledger tells apart.
LEMMA StillMid ==
  ASSUME NEW cl, NEW T, NEW n, Mid(cl, T, n), n > 0, NEW d, Typed(d), d.connected => Up(d), Calls(cl, d),
         app.inQos = 2 => \A k \in InMsgs : Kept(d.received, k) => Kept(cl.received, k), AppOk(app)
  PROVE  Mid(d, After(T, n, 1), n - 1)
<1> DEFINE U == After(T, n, 1)
<1>1. n \in Nat /\ 1 \in 0 .. n /\ 1 \in 1 .. n /\ Tagged(T, n) /\ AckFirst(cl, T)
  BY DEF Mid, Tagged
<1>2. Tagged(U, n - 1) /\ Later(T, U, 1)
  BY <1>1, AfterIs
<1>3. AckFirst(d, U)
  BY <1>1, AfterAck
<1> HIDE DEF U
<1>4. Tells(app, Heard(app, d.calls)) /\ Heard(app, d.calls).arrived = Heard(app, cl.calls).arrived
  <2>1. Tells(app, Heard(app, cl.calls)) /\ "arrived" \in DOMAIN app
    BY DEF Mid, AppOk
  <2>2. Agree(Heard(app, cl.calls), Heard(app, d.calls))
    BY DEF Calls
  <2> QED BY <2>1, <2>2, TellsMore
<1>5. app.inQos = 2 => Ledger(d.received, U, Heard(app, d.calls).arrived, b.flow)
  BY <1>2, <1>4, LedgerLess DEF Mid
<1> QED BY <1>2, <1>3, <1>4, <1>5 DEF Mid, U

LEMMA HandleMid ==
  ASSUME NEW cl, NEW T, NEW n, Mid(cl, T, n), n > 0, T[1].part # "first", AppOk(app),
         T[1].msg.type = 2 => cl.socket = "open"
  PROVE  Mid(HandleMessage(cl, T[1].msg), After(T, n, 1), n - 1) /\ Bound(cl, HandleMessage(cl, T[1].msg))
<1> DEFINE m == T[1].msg
           d == HandleMessage(cl, m)
           U == After(T, n, 1)
<1>1. n \in Nat /\ 1 \in DOMAIN T /\ 1 \in 0 .. n /\ 1 \in 1 .. n /\ Tagged(T, n) /\ AckFirst(cl, T) /\ Typed(cl)
  BY DEF Mid, Tagged
<1>2. Arriving(m) /\ app.uris \in Nat /\ (cl.connected => Up(cl))
  BY <1>1 DEF Tagged, Tag, AppOk, Mid
<1>3. CASE m.type = 2
  <2>1. cl.socket = "open" /\ ~cl.connected
    BY <1>1, <1>3 DEF AckFirst
  <2>2. Typed(d) /\ Bound(cl, d) /\ (d.connected => Up(d)) /\ Calls(cl, d)
        /\ (d.received = cl.received \/ d.received = NoEntries)
    BY <1>1, <1>2, <1>3, <2>1, ConnackEffect
  <2> HIDE DEF d, U
  <2>3. \A k \in InMsgs : Kept(d.received, k) => Kept(cl.received, k)
    BY <2>2 DEF Kept, NoEntries
  <2>4. Mid(d, After(T, n, 1), n - 1)
    BY <2>2, <2>3, StillMid
  <2> QED BY <2>2, <2>4 DEF d
<1>4. CASE m.type \in {4, 5, 7, 9, 11, 13}
  <2>1. Still(cl, d)
    BY <1>1, <1>2, <1>4, AnswerStill
  <2> HIDE DEF d, U
  <2>2. Typed(d) /\ Calm(cl, d) /\ d.received = cl.received /\ Calls(cl, d)
    BY <2>1 DEF Still, Quiet
  <2>3. Bound(cl, d) /\ (d.connected => Up(d))
    BY <1>2, <2>2, CalmBound, UpStays
  <2>4. Mid(d, After(T, n, 1), n - 1)
    BY <2>2, <2>3, StillMid
  <2> QED BY <2>3, <2>4 DEF d
<1>5. Tagged(U, n - 1) /\ Later(T, U, 1)
  BY <1>1, AfterIs
<1>6. AckFirst(d, U)
  BY <1>1, AfterAck
<1>7. Tells(app, Heard(app, cl.calls)) /\ "arrived" \in DOMAIN app
  BY DEF Mid, AppOk
<1>8. CASE m.type = 3
  <2>1. PICK k \in InMsgs : Inbound(m, k) /\ (m.qos = 2 => InId[k] = m.id /\ m.id \in Identifiers)
    BY <1>2, <1>8 DEF Arriving
  <2>2. m.qos \in 0 .. 2 /\ m.id \in Nat /\ m.qos = app.inQos
    BY <1>2, <1>8 DEF Arriving, AppOk
  <2>3. /\ m.qos = 2 => Takes(cl, d, m)
        /\ m.qos # 2 => Passes(cl, d, k)
    BY <1>1, <1>2, <1>8, <2>1, <2>2, PublishEffect
  <2> HIDE DEF d, U
  <2>4. Typed(d) /\ Calm(cl, d)
    BY <2>3 DEF Takes, Passes
  <2>5. Bound(cl, d) /\ (d.connected => Up(d))
    BY <1>2, <2>4, CalmBound, UpStays
  <2>6. Tells(app, Heard(app, d.calls)) /\ (m.qos = 2 => Heard(app, d.calls).arrived = Heard(app, cl.calls).arrived)
    <3>1. m.qos = 2 => Agree(Heard(app, cl.calls), Heard(app, d.calls))
      BY <2>3 DEF Takes, Calls
    <3>2. m.qos # 2 => Agree(Heard(app, cl.calls), Heard(app, d.calls)) \/ Agree(Gets(Heard(app, cl.calls), k), Heard(app, d.calls))
      BY <2>3 DEF Passes, Hands, Calls, Gained
    <3> QED BY <1>7, <3>1, <3>2, TellsMore
  <2>7. ASSUME app.inQos = 2 PROVE Ledger(d.received, U, Heard(app, d.calls).arrived, b.flow)
    <3>1. Takes(cl, d, m) /\ InId[k] = m.id /\ m.payload = <<k>>
      BY <2>1, <2>2, <2>3, <2>7 DEF Inbound
    <3>2. Pub(T, 1, k)
      BY <1>1, <1>8, <3>1 DEF Pub, Pending
    <3>3. \A j \in InMsgs : Kept(d.received, j) => Kept(cl.received, j) \/ j = k
      <4> SUFFICES ASSUME NEW j \in InMsgs, Kept(d.received, j), j # k PROVE Kept(cl.received, j)
        OBVIOUS
      <4>1. InId[j] # m.id
        <5> SUFFICES ASSUME InId[j] = m.id PROVE FALSE
          OBVIOUS
        <5>1. <<j>> = <<k>>
          BY <3>1 DEF Kept, Takes
        <5> QED BY <5>1
      <4> QED BY <4>1, <3>1 DEF Kept, Takes
    <3>4. Ledger(cl.received, T, Heard(app, cl.calls).arrived, b.flow)
      BY <2>7 DEF Mid
    <3>5. Ledger(d.received, U, Heard(app, cl.calls).arrived, b.flow)
      BY <1>5, <3>2, <3>3, <3>4, LedgerTake
    <3> QED BY <2>2, <2>6, <2>7, <3>5
  <2>8. Mid(d, U, n - 1)
    BY <1>5, <1>6, <2>4, <2>5, <2>6, <2>7 DEF Mid, d
  <2> QED BY <2>5, <2>8 DEF d, U
<1>9. CASE m.type = 6
  <2>1. m.id \in Nat
    BY <1>2 DEF Arriving
  <2>2. Releases(cl, d, m.id)
    BY <1>1, <1>2, <1>9, <2>1, PubrelEffect
  <2> HIDE DEF d, U
  <2>4. Typed(d) /\ Calm(cl, d)
    BY <2>2 DEF Releases
  <2>5. Bound(cl, d) /\ (d.connected => Up(d))
    BY <1>2, <2>4, CalmBound, UpStays
  <2>6. \A j \in InMsgs : Kept(d.received, j) =>
          Kept(cl.received, j) /\ (InId[j] = m.id => HandlerThrows(cl.received[m.id]))
    BY <2>2 DEF Kept, Releases
  <2>7. CASE Calls(cl, d)
    <3>1. Mid(d, After(T, n, 1), n - 1)
      BY <2>4, <2>5, <2>6, <2>7, StillMid
    <3> QED BY <2>5, <3>1 DEF d
  <2>8. CASE ~Calls(cl, d)
    <3>1. PICK k \in InMsgs : m.id \in DOMAIN cl.received /\ InId[k] = m.id /\ Inbound(cl.received[m.id], k) /\ Gained(cl, d, k)
      BY <2>2, <2>8 DEF Releases, Hands
    <3>2. Agree(Gets(Heard(app, cl.calls), k), Heard(app, d.calls))
      BY <3>1 DEF Gained
    <3>3. /\ Tells(app, Heard(app, d.calls)) /\ Heard(app, d.calls).arrived[k] = Heard(app, cl.calls).arrived[k] + 1
          /\ \A j \in InMsgs : j # k => Heard(app, d.calls).arrived[j] = Heard(app, cl.calls).arrived[j]
      BY <1>7, <3>2, TellsMore
    <3>4. Rel(T, 1, InId[k]) /\ Kept(cl.received, k)
      BY <1>1, <1>9, <3>1 DEF Rel, Pending, Kept, Inbound
    <3>5. \A j \in InMsgs : Kept(d.received, j) => Kept(cl.received, j) /\ (j = k => k \in Unreadable)
      BY <2>6, <3>1 DEF HandlerThrows, Inbound
    <3>6. ASSUME app.inQos = 2 PROVE Ledger(d.received, U, Heard(app, d.calls).arrived, b.flow)
      <4> DEFINE g == Heard(app, cl.calls).arrived
                 h == Heard(app, d.calls).arrived
      <4>1. Ledger(cl.received, T, g, b.flow)
        BY <3>6 DEF Mid
      <4>2. h \in [InMsgs -> Nat] /\ h[k] = g[k] + 1 /\ \A j \in InMsgs : j # k => h[j] = g[j]
        BY <3>3 DEF Tells
      <4> HIDE DEF g, h
      <4>3. Ledger(d.received, U, h, b.flow)
        BY <4>1, <4>2, <3>4, <3>5, <1>5, LedgerRelease
      <4> QED BY <4>3 DEF h
    <3>7. Mid(d, U, n - 1)
      BY <1>5, <1>6, <2>4, <2>5, <3>3, <3>6 DEF Mid, d
    <3> QED BY <2>5, <3>7 DEF d, U
  <2> QED BY <2>7, <2>8
<1> QED BY <1>2, <1>3, <1>4, <1>8, <1>9 DEF Arriving

(***************************************************************************)
(* One chunk, or two that arrive together.                                 *)
(***************************************************************************)
Flat(s, f) == [i \in 1 .. Len(s) |-> IF i = 1 THEN s[i] ELSE f[i - 1] \o s[i]]

Joined(s, d) == /\ Len(s) = 1 => d = s[1]
                /\ Len(s) = 2 => d = s[1] \o s[2]

LEMMA FlattenIs ==
  ASSUME NEW s, Len(s) \in {1, 2}
  PROVE  Joined(s, FlattenSeq(s))
<1> DEFINE g == CHOOSE f : f = Flat(s, f)
           x == s[1] \o s[2]
           w == [i \in 1 .. Len(s) |-> IF i = 1 THEN s[1] ELSE x]
<1>1. FlattenSeq(s) = IF Len(s) = 0 THEN s ELSE g[Len(s)]
  BY Zenon DEF FlattenSeq, Flat, g
<1>2. w = Flat(s, w)
  <2>1. ASSUME NEW i \in 1 .. Len(s)
        PROVE  (IF i = 1 THEN s[1] ELSE x) = IF i = 1 THEN s[i] ELSE w[i - 1] \o s[i]
    <3>1. CASE i = 1
      <4> HIDE DEF w, x
      <4> QED BY <3>1
    <3>2. CASE i # 1
      <4>1. i = 2 /\ 1 \in 1 .. Len(s) /\ i - 1 = 1
        <5> HIDE DEF w, x, g
        <5> DEFINE l == Len(s)
        <5>1. (l = 1 \/ l = 2) /\ i \in 1 .. l /\ i # 1
          BY <3>2
        <5> HIDE DEF l
        <5>2. i = 2 /\ 1 \in 1 .. l /\ i - 1 = 1
          BY <5>1
        <5> QED BY <5>2 DEF l
      <4>2. w[1] = s[1]
        BY <4>1
      <4> HIDE DEF w
      <4>3. w[i - 1] \o s[i] = x
        BY <4>1, <4>2
      <4> QED BY <3>2, <4>3
    <3> QED BY <3>1, <3>2
  <2> DEFINE v == [i \in 1 .. Len(s) |-> IF i = 1 THEN s[i] ELSE w[i - 1] \o s[i]]
  <2>2. w = v
    <3> HIDE DEF x
    <3> QED BY <2>1, Zenon
  <2>3. Flat(s, w) = v
    BY Zenon DEF Flat
  <2> QED BY <2>2, <2>3, Zenon
<1>3. g = Flat(s, g)
  BY <1>2, Zenon
<1> HIDE DEF g, x, w
<1>4. \A i \in 1 .. Len(s) : g[i] = IF i = 1 THEN s[i] ELSE g[i - 1] \o s[i]
  BY <1>3, Zenon DEF Flat
<1>5. 1 \in 1 .. Len(s) /\ g[1] = s[1]
  BY <1>4
<1>6. ASSUME Len(s) = 2 PROVE g[2] = s[1] \o s[2]
  <2>1. 2 \in 1 .. Len(s) /\ 2 # 1 /\ 2 - 1 = 1
    BY <1>6
  <2>2. g[2] = g[2 - 1] \o s[2]
    BY <1>4, <2>1, Zenon
  <2> QED BY <1>5, <2>1, <2>2, Zenon
<1>7. Len(s) # 0
  OBVIOUS
<1>8. Len(s) = 1 => FlattenSeq(s) = s[1]
  BY <1>1, <1>5, <1>7, Zenon
<1>9. Len(s) = 2 => FlattenSeq(s) = s[1] \o s[2]
  BY <1>1, <1>6, <1>7, Zenon
<1> QED BY <1>8, <1>9, Zenon DEF Joined

\* The receive buffer holds the first part of the packet whose second part is
\* the next to arrive, and is empty otherwise.
Link(buffer, T, n) ==
  buffer = IF n > 0 /\ T[1].part = "second" THEN First(T[1].bytes, T[1].at) ELSE <<>>

LEMMA JoinEmpty == \A x \in Bytewise : <<>> \o x = x
BY DEF Bytewise

LEMMA JoinThree ==
  ASSUME NEW x \in Bytewise, NEW y \in Bytewise, NEW z \in Bytewise
  PROVE  x \o (y \o z) = (x \o y) \o z
<1>1. /\ x \o y \in Bytewise /\ Len(x \o y) = Len(x) + Len(y)
      /\ \A i \in 1 .. Len(x) : (x \o y)[i] = x[i]
      /\ \A i \in 1 .. Len(y) : (x \o y)[Len(x) + i] = y[i]
  BY JoinOf
<1>2. /\ y \o z \in Bytewise /\ Len(y \o z) = Len(y) + Len(z)
      /\ \A i \in 1 .. Len(y) : (y \o z)[i] = y[i]
      /\ \A i \in 1 .. Len(z) : (y \o z)[Len(y) + i] = z[i]
  BY JoinOf
<1>3. x \in Seq(Nat) /\ y \in Seq(Nat) /\ z \in Seq(Nat)
  BY DEF Bytewise
<1> QED BY <1>3

LEMMA ChunkIs ==
  ASSUME NEW t, Tag(t)
  PROVE  /\ Packet(t.bytes) /\ Carries(t.bytes, t.msg) /\ t.bytes \in Bytewise
         /\ t.part = "whole"  => Chunk(t) = t.bytes
         /\ t.part = "first"  => Chunk(t) = First(t.bytes, t.at)
         /\ t.part = "second" => Chunk(t) = Second(t.bytes, t.at)
         /\ First(t.bytes, t.at) \in Bytewise /\ Second(t.bytes, t.at) \in Bytewise
         /\ First(t.bytes, t.at) \o Second(t.bytes, t.at) = t.bytes
         /\ Yields(First(t.bytes, t.at), <<>>, First(t.bytes, t.at))
         /\ Yields(t.bytes, <<t.msg>>, <<>>)
<1>1. Packet(t.bytes) /\ Carries(t.bytes, t.msg) /\ t.bytes \in Bytewise /\ t.at \in 0 .. Len(t.bytes) - 1
  BY DEF Tag, Carries, Packet
<1>2. t.at \in 0 .. Len(t.bytes)
  BY <1>1 DEF Bytewise
<1>3. /\ First(t.bytes, t.at) \in Bytewise /\ Second(t.bytes, t.at) \in Bytewise
      /\ First(t.bytes, t.at) \o Second(t.bytes, t.at) = t.bytes
  BY <1>1, <1>2, Parts, Zenon
<1>4. Yields(First(t.bytes, t.at), <<>>, First(t.bytes, t.at))
  BY <1>1, YieldsPart, Zenon
<1>5. Yields(t.bytes, <<t.msg>>, <<>>)
  BY <1>1, YieldsWhole, Zenon
<1>6. /\ t.part = "whole"  => Chunk(t) = t.bytes
      /\ t.part = "first"  => Chunk(t) = First(t.bytes, t.at)
      /\ t.part = "second" => Chunk(t) = Second(t.bytes, t.at)
  BY DEF Chunk
<1> QED BY <1>1, <1>3, <1>4, <1>5, <1>6

LEMMA FramesOne ==
  ASSUME NEW T, NEW n, Tagged(T, n), n > 0, NEW buffer, Link(buffer, T, n)
  PROVE  /\ T[1].part = "first" => Yields(buffer \o Chunk(T[1]), <<>>, First(T[1].bytes, T[1].at))
         /\ T[1].part # "first" => /\ buffer \o Chunk(T[1]) = T[1].bytes
                                   /\ Yields(buffer \o Chunk(T[1]), <<T[1].msg>>, <<>>)
         /\ buffer \in Bytewise /\ Chunk(T[1]) \in Bytewise
<1> DEFINE t == T[1]
<1>1. Tag(t) /\ t.part \in {"whole", "first", "second"}
  BY DEF Tagged, Tag
<1>2. buffer = IF t.part = "second" THEN First(t.bytes, t.at) ELSE <<>>
  BY DEF Link
<1> HIDE DEF t
<1>3. /\ t.bytes \in Bytewise
      /\ t.part = "whole"  => Chunk(t) = t.bytes
      /\ t.part = "first"  => Chunk(t) = First(t.bytes, t.at)
      /\ t.part = "second" => Chunk(t) = Second(t.bytes, t.at)
      /\ First(t.bytes, t.at) \in Bytewise /\ Second(t.bytes, t.at) \in Bytewise
      /\ First(t.bytes, t.at) \o Second(t.bytes, t.at) = t.bytes
      /\ Yields(First(t.bytes, t.at), <<>>, First(t.bytes, t.at))
      /\ Yields(t.bytes, <<t.msg>>, <<>>)
  BY <1>1, ChunkIs, Zenon
<1>4. <<>> \in Bytewise
  BY DEF Bytewise
<1>5. CASE t.part = "whole"
  <2>1. buffer = <<>> /\ Chunk(t) = t.bytes /\ buffer \o Chunk(t) = t.bytes
    BY <1>2, <1>3, <1>5, JoinEmpty
  <2> QED BY <2>1, <1>3, <1>4, <1>5 DEF t
<1>6. CASE t.part = "first"
  <2>1. buffer = <<>> /\ Chunk(t) = First(t.bytes, t.at) /\ buffer \o Chunk(t) = First(t.bytes, t.at)
    BY <1>2, <1>3, <1>6, JoinEmpty
  <2> QED BY <2>1, <1>3, <1>4, <1>6 DEF t
<1>7. CASE t.part = "second"
  <2>1. buffer = First(t.bytes, t.at) /\ Chunk(t) = Second(t.bytes, t.at) /\ buffer \o Chunk(t) = t.bytes
    BY <1>2, <1>3, <1>7
  <2> QED BY <2>1, <1>3, <1>4, <1>7 DEF t
<1> QED BY <1>1, <1>5, <1>6, <1>7

LEMMA FramesTwo ==
  ASSUME NEW T, NEW n, Tagged(T, n), n > 1, NEW buffer, Link(buffer, T, n)
  PROVE  LET bytes == buffer \o (Chunk(T[1]) \o Chunk(T[2]))
         IN /\ T[1].part = "first" => /\ T[2].part = "second"
                                      /\ Yields(bytes, <<T[2].msg>>, <<>>)
            /\ T[1].part # "first" => T[2].part # "second"
            /\ T[1].part # "first" /\ T[2].part = "whole" => Yields(bytes, <<T[1].msg, T[2].msg>>, <<>>)
            /\ T[1].part # "first" /\ T[2].part = "first" => Yields(bytes, <<T[1].msg>>, First(T[2].bytes, T[2].at))
<1> DEFINE t == T[1]
           u == T[2]
           bytes == buffer \o (Chunk(t) \o Chunk(u))
<1>0. n \in Nat /\ 1 \in 1 .. n /\ 2 \in 1 .. n /\ DOMAIN T = 1 .. n
  BY DEF Tagged
<1>1. Tag(t) /\ Tag(u) /\ u.part \in {"whole", "first", "second"} /\ u.at \in 0 .. Len(u.bytes) - 1
  BY <1>0 DEF Tagged, Tag
<1>2. /\ t.part = "first" => u.part = "second" /\ u.bytes = t.bytes /\ u.msg = t.msg /\ u.at = t.at
      /\ u.part = "second" => t.part = "first"
  <2>1. 1 \in DOMAIN T /\ 2 \in DOMAIN T /\ 1 + 1 = 2 /\ 2 - 1 = 1 /\ 2 # 1 /\ Chain(T)
    BY <1>0 DEF Tagged
  <2>2. T[1].part = "first" => /\ T[1 + 1].part = "second" /\ T[1 + 1].bytes = T[1].bytes
                               /\ T[1 + 1].msg = T[1].msg /\ T[1 + 1].at = T[1].at
    BY <2>1, Zenon DEF Chain
  <2>3. T[2].part = "second" => T[2 - 1].part = "first"
    BY <2>1, Zenon DEF Chain
  <2> QED BY <2>1, <2>2, <2>3
<1>3. n > 0
  BY <1>0
<1>4. /\ t.part # "first" => buffer \o Chunk(t) = t.bytes
      /\ buffer \in Bytewise /\ Chunk(t) \in Bytewise
  BY <1>3, FramesOne
<1>5. t.part = "first" => buffer = <<>>
  BY DEF Link
<1> HIDE DEF t, u
<1>6. /\ Packet(t.bytes) /\ Carries(t.bytes, t.msg) /\ t.bytes \in Bytewise
      /\ t.part = "first"  => Chunk(t) = First(t.bytes, t.at)
      /\ First(t.bytes, t.at) \o Second(t.bytes, t.at) = t.bytes
      /\ Yields(t.bytes, <<t.msg>>, <<>>)
  BY <1>1, ChunkIs, Zenon
<1>7. /\ Packet(u.bytes) /\ Carries(u.bytes, u.msg) /\ u.bytes \in Bytewise
      /\ u.part = "whole"  => Chunk(u) = u.bytes
      /\ u.part = "first"  => Chunk(u) = First(u.bytes, u.at)
      /\ u.part = "second" => Chunk(u) = Second(u.bytes, u.at)
      /\ First(u.bytes, u.at) \in Bytewise /\ Second(u.bytes, u.at) \in Bytewise
  BY <1>1, ChunkIs, Zenon
<1>8. CASE t.part = "first"
  <2>1. bytes = t.bytes
    <3>1. Chunk(t) \o Chunk(u) = t.bytes
      BY <1>2, <1>6, <1>7, <1>8
    <3> QED BY <3>1, <1>5, <1>6, <1>8, JoinEmpty
  <2>2. Yields(bytes, <<u.msg>>, <<>>)
    BY <2>1, <1>2, <1>6, <1>8
  <2> QED BY <2>2, <1>2, <1>8 DEF t, u
<1>9. CASE t.part # "first"
  <2>1. Chunk(u) \in Bytewise
    BY <1>1, <1>7
  <2>2. bytes = t.bytes \o Chunk(u)
    <3>1. bytes = (buffer \o Chunk(t)) \o Chunk(u)
      BY <2>1, <1>4, JoinThree
    <3> QED BY <3>1, <1>4, <1>9
  <2>3. u.part # "second"
    BY <1>2, <1>9
  <2>4. u.part = "whole" => Yields(bytes, <<t.msg, u.msg>>, <<>>)
    <3>1. Yields(t.bytes \o u.bytes, <<t.msg, u.msg>>, <<>>)
      BY <1>6, <1>7, YieldsBoth, Zenon
    <3> HIDE DEF bytes
    <3> QED BY <3>1, <2>2, <1>7
  <2>5. u.part = "first" => Yields(bytes, <<t.msg>>, First(u.bytes, u.at))
    <3>1. Yields(t.bytes \o First(u.bytes, u.at), <<t.msg>>, First(u.bytes, u.at))
      BY <1>1, <1>6, <1>7, YieldsWholeAndPart, Zenon
    <3> HIDE DEF bytes
    <3> QED BY <3>1, <2>2, <1>7
  <2> QED BY <2>3, <2>4, <2>5, <1>9 DEF t, u
<1> QED BY <1>8, <1>9

LEMMA FoldsFew ==
  ASSUME NEW a, NEW m
  PROVE  /\ Folded("handle", a, <<>>) = a
         /\ Folded("handle", a, <<m>>) = HandleMessage(a, m)
<1>1. \A x, y : Does("handle", x, y) = HandleMessage(x, y)
  BY DEF Does
<1>2. Folded("handle", a, <<>>) = a
  BY FoldedEmpty
<1>3. <<m>> = Append(<<>>, m)
  <2>1. <<>> \in Seq({m})
    OBVIOUS
  <2> QED BY <2>1
<1>4. Listed(<<>>) /\ Listed(<<m>>)
  <2>1. <<m>> \in Seq({m})
    OBVIOUS
  <2> QED BY <2>1, ListedEmpty, Zenon DEF Listed
<1> DEFINE none == <<>>
<1> HIDE DEF none
<1>7. ASSUME NEW s, Listed(s), NEW e
      PROVE  Folded("handle", a, Append(s, e)) = Does("handle", Folded("handle", a, s), e)
  BY <1>7, FoldedAppend
<1>5. Folded("handle", a, <<m>>) = HandleMessage(a, m)
  <2>1. Folded("handle", a, Append(none, m)) = Does("handle", Folded("handle", a, none), m)
    BY <1>4, <1>7, Zenon DEF none
  <2> QED BY <2>1, <1>1, <1>2, <1>3, Zenon DEF none
<1> QED BY <1>2, <1>5

LEMMA FoldsPair ==
  ASSUME NEW a, NEW m, NEW k
  PROVE  Folded("handle", a, <<m, k>>) = HandleMessage(HandleMessage(a, m), k)
<1> DEFINE one == <<m>>
           two == <<m, k>>
           r   == HandleMessage(a, m)
<1>1. two = Append(one, k)
  <2>1. <<m>> \in Seq({m, k})
    OBVIOUS
  <2> QED BY <2>1
<1>2. Listed(one)
  <2>1. <<m>> \in Seq({m})
    OBVIOUS
  <2> QED BY <2>1, Zenon DEF Listed
<1>3. Folded("handle", a, one) = r
  BY FoldsFew
<1> HIDE DEF one, two, r
<1>4. Folded("handle", a, Append(one, k)) = Does("handle", Folded("handle", a, one), k)
  BY <1>2, FoldedAppend
<1>5. Does("handle", r, k) = HandleMessage(r, k)
  BY DEF Does
<1>6. Folded("handle", a, two) = HandleMessage(r, k)
  BY <1>1, <1>3, <1>4, <1>5, Zenon
<1> QED BY <1>6 DEF two, r

\* The event begins with the rest of the bytes in the buffer, and the receive
\* pinger reset.
Starts(cl, start, rest) == Changes(cl, start, {"receivePinger", "buffer"}) /\ start.buffer = rest

LEMMA StartIs ==
  ASSUME NEW cl, DOMAIN cl = Fields, NEW data, NEW messages, NEW rest, Yields(cl.buffer \o data, messages, rest)
  PROVE  \E start : /\ Starts(cl, start, rest) /\ Pinger(start.receivePinger)
                    /\ OnSocketMessage(cl, data) = Folded("handle", start, messages)
<1> DEFINE alive  == [cl EXCEPT !.receivePinger = PingerReset(@), !.buffer = <<>>]
           framed == Deframe(cl.buffer \o data)
           start  == [alive EXCEPT !.buffer = framed.rest]
           result == FoldLeft(HandleMessage, start, framed.messages)
<1>1. OnSocketMessage(cl, data) = IF ~framed.ok THEN Disconnected(alive) ELSE result
  BY Zenon DEF OnSocketMessage
<1>2. framed = [ok |-> TRUE, messages |-> messages, rest |-> rest]
  BY Zenon DEF Yields
<1> HIDE DEF framed
<1>3. framed.ok /\ framed.messages = messages /\ framed.rest = rest
  BY <1>2
<1>4. result = Folded("handle", start, messages)
  BY <1>3, FoldsHandle, Zenon
<1> HIDE DEF result
<1>5. Starts(cl, start, rest) /\ Pinger(start.receivePinger)
  <2> DEFINE p == PingerReset(cl.receivePinger)
  <2>1. Pinger(p)
    BY DEF Pinger, PingerReset
  <2>2. alive = [cl EXCEPT !.receivePinger = p, !.buffer = <<>>]
    BY Zenon
  <2> HIDE DEF p, alive
  <2>3. DOMAIN alive = Fields /\ alive.receivePinger = p /\ \A f \in Fields \ {"receivePinger", "buffer"} : alive[f] = cl[f]
    BY <2>2 DEF Fields
  <2> QED BY <2>1, <2>3, <1>3 DEF Starts, Changes, Fields
<1> HIDE DEF start
<1> QED BY <1>1, <1>3, <1>4, <1>5, Zenon

LEMMA StartMid ==
  ASSUME NEW cl, NEW T, NEW n, Mid(cl, T, n), NEW start, NEW rest, Starts(cl, start, rest), Pinger(start.receivePinger)
  PROVE  Mid(start, T, n) /\ start.socket = cl.socket
<1>1. Typed(cl)
  BY DEF Mid
<1>2. Typed(start)
  BY <1>1 DEF Typed, Starts, Changes, Fields
<1>3. /\ start.socket = cl.socket /\ start.connected = cl.connected /\ start.hostIndex = cl.hostIndex
      /\ start.calls = cl.calls /\ start.received = cl.received
  BY DEF Starts, Changes, Fields
<1> QED BY <1>2, <1>3 DEF Mid, Up, AckFirst

LEMMA AfterTwice ==
  ASSUME NEW T, NEW n \in Nat, n > 1
  PROVE  After(After(T, n, 1), n - 1, 1) = After(T, n, 2) /\ (n - 1) - 1 = n - 2
         /\ After(T, n, 1)[1] = T[2]
<1> DEFINE U == After(T, n, 1)
<1>1. DOMAIN U = 1 .. n - 1 /\ \A i \in 1 .. n - 1 : U[i] = T[i + 1]
  BY DEF After
<1> HIDE DEF U
<1>2. (n - 1) - 1 = n - 2 /\ 1 \in 1 .. n - 1 /\ 1 + 1 = 2
  OBVIOUS
<1>3. ASSUME NEW i \in 1 .. n - 2 PROVE U[i + 1] = T[i + 2]
  <2>1. i + 1 \in 1 .. n - 1 /\ (i + 1) + 1 = i + 2
    OBVIOUS
  <2> QED BY <1>1, <2>1
<1>4. [i \in 1 .. n - 2 |-> U[i + 1]] = [i \in 1 .. n - 2 |-> T[i + 2]]
  BY <1>3
<1>5. After(U, n - 1, 1) = [i \in 1 .. n - 2 |-> U[i + 1]]
  BY <1>2, Zenon DEF After
<1> QED BY <1>1, <1>2, <1>4, <1>5, Zenon DEF After, U

\* What an event of the socket leaves.
Arrives(cl, d, T, n, k) ==
  /\ Mid(d, After(T, n, k), n - k) /\ Link(d.buffer, After(T, n, k), n - k)
  /\ \E start, rest : Starts(cl, start, rest) /\ Bound(start, d)

LEMMA BoundSame == \A cl : Bound(cl, cl)
BY DEF Bound

LEMMA NotBefore ==
  ASSUME NEW T, NEW n, Tagged(T, n), NEW k \in 1 .. n, T[k].part # "first"
  PROVE  Link(<<>>, After(T, n, k), n - k)
<1> DEFINE U == After(T, n, k)
<1>0. n \in Nat /\ DOMAIN T = 1 .. n
  BY DEF Tagged
<1>1. n - k > 0 => U[1].part # "second"
  <2> SUFFICES ASSUME n - k > 0, U[1].part = "second" PROVE FALSE
    OBVIOUS
  <2>1. 1 \in 1 .. n - k /\ 1 + k \in DOMAIN T /\ 1 + k # 1 /\ (1 + k) - 1 = k
    BY <1>0
  <2>2. U[1] = T[1 + k]
    BY <2>1 DEF After
  <2>3. T[(1 + k) - 1].part = "first"
    BY <2>1, <2>2, Zenon DEF Tagged, Chain
  <2> QED BY <2>1, <2>3
<1> HIDE DEF U
<1> QED BY <1>1 DEF Link, U

LEMMA ArriveOne ==
  ASSUME NEW cl, NEW T, NEW n, Mid(cl, T, n), Link(cl.buffer, T, n), cl.socket = "open", AppOk(app), n > 0
  PROVE  Arrives(cl, OnSocketMessage(cl, Chunk(T[1])), T, n, 1)
<1> DEFINE d == OnSocketMessage(cl, Chunk(T[1]))
           U == After(T, n, 1)
<1>0. n \in Nat /\ Tagged(T, n) /\ DOMAIN cl = Fields /\ DOMAIN T = 1 .. n /\ 1 \in 1 .. n /\ 1 \in 0 .. n
  BY DEF Mid, Tagged, Typed
<1>1. CASE T[1].part = "first"
  <2> DEFINE rest == First(T[1].bytes, T[1].at)
  <2>1. Yields(cl.buffer \o Chunk(T[1]), <<>>, rest)
    BY <1>0, <1>1, FramesOne
  <2> HIDE DEF rest
  <2>2. PICK start : /\ Starts(cl, start, rest) /\ Pinger(start.receivePinger)
                     /\ d = Folded("handle", start, <<>>)
    BY <1>0, <2>1, StartIs, Zenon
  <2>3. d = start
    BY <2>2, FoldsFew, Zenon
  <2> HIDE DEF d
  <2>4. Mid(d, U, n - 1)
    <3>1. Mid(start, T, n)
      BY <2>2, StartMid, Zenon
    <3> QED BY <2>3, <3>1, DropMid
  <2>5. Link(d.buffer, U, n - 1)
    <3>1. d.buffer = rest
      BY <2>2, <2>3 DEF Starts
    <3>2. /\ 1 + 1 \in DOMAIN T /\ T[1 + 1].part = "second"
          /\ T[1 + 1].bytes = T[1].bytes /\ T[1 + 1].at = T[1].at
      BY <1>0, <1>1, Zenon DEF Tagged, Chain
    <3>3. U[1] = T[1 + 1] /\ n - 1 > 0
      <4>1. 1 \in 1 .. n - 1 /\ n - 1 > 0
        BY <1>0, <3>2
      <4> QED BY <4>1 DEF After
    <3> HIDE DEF U
    <3> QED BY <3>1, <3>2, <3>3 DEF Link, rest
  <2>6. Bound(start, d)
    BY <2>3, BoundSame
  <2> HIDE DEF U
  <2> QED BY <2>2, <2>4, <2>5, <2>6, Zenon DEF Arrives, U, d
<1>2. CASE T[1].part # "first"
  <2> DEFINE m == T[1].msg
  <2>1. Yields(cl.buffer \o Chunk(T[1]), <<m>>, <<>>)
    BY <1>0, <1>2, FramesOne
  <2>2. PICK start : /\ Starts(cl, start, <<>>) /\ Pinger(start.receivePinger)
                     /\ d = Folded("handle", start, <<m>>)
    BY <1>0, <2>1, StartIs, Zenon
  <2>3. d = HandleMessage(start, m)
    BY <2>2, FoldsFew, Zenon
  <2> HIDE DEF d
  <2>4. Mid(start, T, n) /\ start.socket = "open"
    BY <2>2, StartMid
  <2>5. Mid(d, U, n - 1) /\ Bound(start, d)
    BY <2>3, <2>4, <1>2, HandleMid
  <2>6. Link(d.buffer, U, n - 1)
    <3>1. d.buffer = <<>>
      BY <2>2, <2>5 DEF Starts, Bound
    <3>2. Link(<<>>, U, n - 1)
      BY <1>0, <1>2, NotBefore
    <3> QED BY <3>1, <3>2
  <2> HIDE DEF U
  <2> QED BY <2>2, <2>5, <2>6, Zenon DEF Arrives, U, d
<1> QED BY <1>1, <1>2

LEMMA ArriveTwo ==
  ASSUME NEW cl, NEW T, NEW n, Mid(cl, T, n), Link(cl.buffer, T, n), cl.socket = "open", AppOk(app), n > 1
  PROVE  Arrives(cl, OnSocketMessage(cl, Chunk(T[1]) \o Chunk(T[2])), T, n, 2)
<1> DEFINE data == Chunk(T[1]) \o Chunk(T[2])
           d == OnSocketMessage(cl, data)
           U == After(T, n, 1)
           V == After(T, n, 2)
           m == T[1].msg
           k == T[2].msg
<1>0. n \in Nat /\ Tagged(T, n) /\ DOMAIN cl = Fields /\ DOMAIN T = 1 .. n /\ 1 \in 1 .. n /\ 2 \in 1 .. n /\ n > 0
      /\ AckFirst(cl, T) /\ Tag(T[2])
  BY DEF Mid, Tagged, Typed
<1>1. /\ T[1].part = "first" => T[2].part = "second" /\ Yields(cl.buffer \o data, <<k>>, <<>>)
      /\ T[1].part # "first" => T[2].part # "second"
      /\ T[1].part # "first" /\ T[2].part = "whole" => Yields(cl.buffer \o data, <<m, k>>, <<>>)
      /\ T[1].part # "first" /\ T[2].part = "first" => Yields(cl.buffer \o data, <<m>>, First(T[2].bytes, T[2].at))
  BY <1>0, FramesTwo
<1>2. U[1] = T[2] /\ After(U, n - 1, 1) = V /\ (n - 1) - 1 = n - 2 /\ n - 1 > 0
  BY <1>0, AfterTwice
<1>3. k.type # 2
  BY <1>0 DEF AckFirst
<1> HIDE DEF data, U
<1>4. ASSUME NEW x, Mid(x, U, n - 1), T[2].part # "first"
      PROVE  Mid(HandleMessage(x, k), V, n - 2) /\ Bound(x, HandleMessage(x, k))
  <2> HIDE DEF V
  <2> QED BY <1>2, <1>3, <1>4, HandleMid
<1>5. T[2].part # "first" => Link(<<>>, V, n - 2)
  BY <1>0, NotBefore
<1>6. CASE T[1].part = "first"
  <2>1. PICK start : /\ Starts(cl, start, <<>>) /\ Pinger(start.receivePinger)
                     /\ d = Folded("handle", start, <<k>>)
    BY <1>0, <1>1, <1>6, StartIs, Zenon
  <2>2. d = HandleMessage(start, k)
    BY <2>1, FoldsFew, Zenon
  <2> HIDE DEF d
  <2>3. Mid(start, T, n)
    BY <2>1, StartMid, Zenon
  <2>4. Mid(start, U, n - 1)
    BY <2>3, <1>0, DropMid, Zenon DEF U
  <2>5. T[2].part # "first"
    BY <1>1, <1>6
  <2>6. Mid(d, V, n - 2) /\ Bound(start, d)
    BY <1>4, <2>2, <2>4, <2>5
  <2>7. Link(d.buffer, V, n - 2)
    BY <2>1, <2>6, <2>5, <1>5 DEF Starts, Bound
  <2> HIDE DEF V
  <2> QED BY <2>1, <2>6, <2>7, Zenon DEF Arrives, V, d, data
<1>7. ASSUME T[1].part # "first", NEW start, NEW rest, Starts(cl, start, rest), Pinger(start.receivePinger)
      PROVE  Mid(HandleMessage(start, m), U, n - 1) /\ Bound(start, HandleMessage(start, m))
  <2>1. Mid(start, T, n) /\ start.socket = "open"
    BY <1>7, StartMid
  <2> QED BY <2>1, <1>0, <1>7, HandleMid DEF U
<1>8. CASE T[1].part # "first" /\ T[2].part = "whole"
  <2>1. PICK start : /\ Starts(cl, start, <<>>) /\ Pinger(start.receivePinger)
                     /\ d = Folded("handle", start, <<m, k>>)
    BY <1>0, <1>1, <1>8, StartIs, Zenon
  <2> DEFINE e == HandleMessage(start, m)
  <2>2. d = HandleMessage(e, k)
    <3>1. Folded("handle", start, <<m, k>>) = HandleMessage(HandleMessage(start, m), k)
      BY FoldsPair
    <3> QED BY <2>1, <3>1, Zenon
  <2>3. Mid(e, U, n - 1) /\ Bound(start, e)
    BY <2>1, <1>7, <1>8
  <2> HIDE DEF d, e
  <2>4. T[2].part # "first"
    BY <1>8
  <2>5. Mid(d, V, n - 2) /\ Bound(e, d)
    BY <1>4, <2>2, <2>3, <2>4
  <2>6. Bound(start, d)
    BY <2>3, <2>5, BoundTwice
  <2>7. Link(d.buffer, V, n - 2)
    BY <2>1, <2>6, <2>4, <1>5 DEF Starts, Bound
  <2> HIDE DEF V
  <2> QED BY <2>1, <2>5, <2>6, <2>7, Zenon DEF Arrives, V, d, data
<1>9. CASE T[1].part # "first" /\ T[2].part = "first"
  <2> DEFINE rest == First(T[2].bytes, T[2].at)
  <2>0. Yields(cl.buffer \o data, <<m>>, rest)
    BY <1>1, <1>9
  <2> HIDE DEF rest
  <2>1. PICK start : /\ Starts(cl, start, rest) /\ Pinger(start.receivePinger)
                     /\ d = Folded("handle", start, <<m>>)
    BY <1>0, <2>0, StartIs, Zenon
  <2>2. d = HandleMessage(start, m)
    BY <2>1, FoldsFew, Zenon
  <2>3. Mid(d, U, n - 1) /\ Bound(start, d)
    BY <2>1, <2>2, <1>7, <1>9
  <2> HIDE DEF d
  <2>4. Mid(d, V, n - 2)
    BY <1>2, <2>3, DropMid
  <2>5. Link(d.buffer, V, n - 2)
    <3>1. d.buffer = rest
      BY <2>1, <2>3 DEF Starts, Bound
    <3>2. /\ 2 + 1 \in DOMAIN T /\ T[2 + 1].part = "second"
          /\ T[2 + 1].bytes = T[2].bytes /\ T[2 + 1].at = T[2].at
      BY <1>0, <1>9, Zenon DEF Tagged, Chain
    <3>3. V[1] = T[2 + 1] /\ n - 2 > 0
      <4>1. 1 \in 1 .. n - 2 /\ n - 2 > 0 /\ 1 + 2 = 2 + 1
        BY <1>0, <3>2
      <4> QED BY <4>1 DEF After
    <3> HIDE DEF V
    <3> QED BY <3>1, <3>2, <3>3 DEF Link, rest
  <2> HIDE DEF V
  <2> QED BY <2>1, <2>3, <2>4, <2>5, Zenon DEF Arrives, V, d, data
<1>10. T[2].part \in {"whole", "first", "second"}
  BY <1>0 DEF Tag
<1> QED BY <1>1, <1>6, <1>8, <1>9, <1>10

(***************************************************************************)
(* The inductive invariant.                                                *)
(***************************************************************************)
BrokerFields == {"link", "subscribed", "holding", "got", "flow"}
BrokerOk(br) == DOMAIN br = BrokerFields /\ br.link \in BOOLEAN /\ br.flow \in [InMsgs -> Stages]
PageOk(a)    == AppOk(a) /\ "ended" \in DOMAIN a /\ a.corrupt = FALSE
Rests(cl)    == Typed(cl) /\ cl.cut = FALSE /\ cl.thrown = FALSE /\ cl.calls = <<>>
Dials(cl, p) == p \in DOMAIN cl.out /\ cl.out[p].type = 1

\* The chunks are those of T, which the receive buffer fits.
Carried(cl, chunks, T) ==
  /\ Listed(chunks) /\ Tagged(T, Len(chunks)) /\ (\A i \in DOMAIN chunks : chunks[i] = Chunk(T[i]))
  /\ AckFirst(cl, T) /\ (cl.socket = "open" => Link(cl.buffer, T, Len(chunks)))

Booked   == app.inQos = 0 => \A n \in InMsgs : b.flow[n] \in {"idle", "done"}
Attached == /\ c.connected => Up(c)
            /\ c.socket # "open" => toClient = <<>>
            /\ c.socket = "connecting" => b.link = FALSE
\* A CONNECT is the only one, and the first thing on a new connection.
Dialled  == /\ \A p, q : Dials(c, p) /\ Dials(c, q) => p = q
            /\ \A p : Dials(c, p) => /\ c.socket # "connecting"
                                     /\ c.socket = "open" => /\ b.link = FALSE /\ ~c.connected
                                                             /\ toClient = <<>> /\ c.buffer = <<>>
Ended    == app.ended => Gone(c)
OnTheWay == \E T : /\ Carried(c, toClient, T)
                   /\ app.inQos = 2 => Ledger(c.received, T, app.arrived, b.flow)

Good == PageOk(app) /\ BrokerOk(b) /\ Booked /\ Rests(c) /\ Attached /\ Dialled /\ Ended /\ OnTheWay
IInv == misframed = TRUE \/ (misframed = FALSE /\ Good)

\* What every event of the client keeps to.
Turn(d, chunks, asked) ==
  /\ Typed(d) /\ (d.connected => Up(d))
  /\ ~d.cut => d.socket = c.socket \/ (d.socket = "connecting" /\ chunks = <<>>)
  /\ \A p : Dials(d, p) => Dials(c, p)
  /\ d.socket = "connecting" => c.socket = "connecting" \/ \A p : ~Dials(d, p)
  /\ toClient = <<>> => chunks = <<>> /\ (d.connected => c.connected) /\ d.buffer = c.buffer
  /\ DOMAIN asked = DOMAIN app /\ asked.uris = app.uris /\ asked.inQos = app.inQos /\ asked.outQos = app.outQos
  /\ asked.corrupt = app.corrupt
  /\ Tells(asked, Heard(asked, d.calls)) /\ (asked.ended => Gone(d))
  /\ \E T : /\ Carried(d, chunks, T)
            /\ app.inQos = 2 => Ledger(d.received, T, Heard(asked, d.calls).arrived, b.flow)

LEMMA TaggedNext ==
  ASSUME app'.inQos = app.inQos, NEW T, NEW n, Tagged(T, n)
  PROVE  Tagged(T, n)'
BY DEF Tagged, Tag, Arriving

\* Nothing is on its way.
LEMMA CarriedNone ==
  ASSUME NEW T, DOMAIN T = {}, NEW cl, cl.socket # "open" \/ cl.buffer = <<>>
  PROVE  Carried(cl, <<>>, T)
<1>1. Len(<<>>) = 0 /\ DOMAIN <<>> = {} /\ 1 .. 0 = {} /\ 0 \in Nat /\ ~(0 > 0)
  OBVIOUS
<1>2. Tagged(T, 0)
  BY <1>1 DEF Tagged, Chain
<1>3. AckFirst(cl, T)
  BY DEF AckFirst
<1>4. cl.buffer = <<>> => Link(cl.buffer, T, 0)
  BY <1>1 DEF Link
<1> QED BY <1>1, <1>2, <1>3, <1>4, ListedEmpty, Zenon DEF Carried

LEMMA BecomesIs ==
  ASSUME NEW d, Typed(d), NEW chunks, NEW asked, Becomes(d, chunks, asked)
  PROVE  /\ Rests(c') /\ Changes(d, c', {"calls", "cut", "thrown"})
         /\ toClient' = IF d.cut THEN <<>> ELSE chunks
         /\ app' = Heard(asked, d.calls)
<1> DEFINE e == [d EXCEPT !.calls = <<>>, !.cut = FALSE, !.thrown = FALSE]
<1>1. c' = e /\ toClient' = (IF d.cut THEN <<>> ELSE chunks) /\ app' = FoldLeft(Told, asked, d.calls)
  BY Zenon DEF Becomes
<1>2. app' = Heard(asked, d.calls)
  BY <1>1, FoldsTold, Zenon DEF Heard
<1>3. DOMAIN d = Fields
  BY DEF Typed
<1>4. Changes(d, e, {"calls", "cut", "thrown"}) /\ e.calls = <<>> /\ e.cut = FALSE /\ e.thrown = FALSE
  BY <1>3 DEF Changes, Fields
<1> HIDE DEF e
<1>5. Typed(e)
  BY <1>4, ListedEmpty DEF Typed, Changes, Fields
<1> QED BY <1>1, <1>2, <1>4, <1>5 DEF Rests

LEMMA TurnGood ==
  ASSUME Good, NEW d, NEW chunks, NEW asked, Turn(d, chunks, asked), Becomes(d, chunks, asked),
         b' = b \/ b' = [b EXCEPT !.link = FALSE], d.socket = "connecting" => b'.link = FALSE
  PROVE  Good'
<1>1. /\ Rests(c') /\ Changes(d, c', {"calls", "cut", "thrown"})
      /\ toClient' = IF d.cut THEN <<>> ELSE chunks
      /\ app' = Heard(asked, d.calls)
  BY BecomesIs DEF Turn
<1>2. /\ c'.socket = d.socket /\ c'.connected = d.connected /\ c'.hostIndex = d.hostIndex /\ c'.out = d.out
      /\ c'.buffer = d.buffer /\ c'.received = d.received /\ c'.connectTimer = d.connectTimer
      /\ c'.sendPinger = d.sendPinger /\ c'.receivePinger = d.receivePinger
  BY <1>1 DEF Changes, Fields
<1>3. /\ app'.uris = app.uris /\ app'.inQos = app.inQos /\ app'.outQos = app.outQos
      /\ app'.corrupt = app.corrupt /\ app'.ended = asked.ended
      /\ DOMAIN app' = DOMAIN app /\ app'.arrived \in [InMsgs -> Nat]
  BY <1>1 DEF Turn, Tells, Good, PageOk, AppOk
<1>4. PageOk(app')
  BY <1>3 DEF Good, PageOk, AppOk
<1>5. DOMAIN b' = DOMAIN b /\ b'.flow = b.flow /\ b'.link \in BOOLEAN /\ (b.link = FALSE => b'.link = FALSE)
  BY DEF Good, BrokerOk, BrokerFields
<1>6. BrokerOk(b') /\ Booked'
  BY <1>3, <1>5 DEF Good, BrokerOk, Booked
<1>7. d.cut \in BOOLEAN /\ (d.cut => d.socket # "open")
  BY DEF Turn, Typed
<1>8. c.socket # "open" => toClient = <<>>
  BY DEF Good, Attached
<1>9. Attached'
  <2>1. c'.connected => Up(c)'
    BY <1>2, <1>3 DEF Turn, Up
  <2>2. c'.socket # "open" => toClient' = <<>>
    BY <1>1, <1>2, <1>7, <1>8 DEF Turn
  <2> QED BY <2>1, <2>2, <1>2 DEF Attached
<1>10. \A p : Dials(c', p) => Dials(d, p) /\ Dials(c, p)
  BY <1>2 DEF Dials, Turn
<1>11. Dialled'
  <2>1. \A p, q : Dials(c', p) /\ Dials(c', q) => p = q
    BY <1>10 DEF Good, Dialled
  <2>2. ASSUME NEW p, Dials(c', p)
        PROVE  /\ c'.socket # "connecting"
               /\ c'.socket = "open" => /\ b'.link = FALSE /\ ~c'.connected
                                        /\ toClient' = <<>> /\ c'.buffer = <<>>
    <3>1. Dials(d, p) /\ Dials(c, p) /\ c.socket # "connecting"
      BY <1>10, <2>2 DEF Good, Dialled
    <3>2. c'.socket # "connecting"
      BY <3>1, <1>2 DEF Turn
    <3>3. ASSUME c'.socket = "open"
          PROVE  b'.link = FALSE /\ ~c'.connected /\ toClient' = <<>> /\ c'.buffer = <<>>
      <4>1. ~d.cut /\ c.socket = "open"
        BY <1>2, <1>7, <3>3 DEF Turn
      <4>2. b.link = FALSE /\ ~c.connected /\ toClient = <<>> /\ c.buffer = <<>>
        BY <3>1, <4>1 DEF Good, Dialled
      <4> QED BY <4>1, <4>2, <1>1, <1>2, <1>5 DEF Turn
    <3> QED BY <3>2, <3>3
  <2> QED BY <2>1, <2>2 DEF Dialled
<1>12. Ended'
  BY <1>2, <1>3 DEF Ended, Turn, Gone
<1>13. PICK T : /\ Carried(d, chunks, T)
                /\ app.inQos = 2 => Ledger(d.received, T, Heard(asked, d.calls).arrived, b.flow)
  BY DEF Turn
<1>14. OnTheWay'
  <2>1. CASE d.cut
    <3> DEFINE U == [i \in {} |-> i]
    <3>1. DOMAIN U = {} /\ Later(T, U, 0) /\ 0 \in Nat
      BY DEF Later
    <3> HIDE DEF U
    <3>2. app.inQos = 2 => Ledger(d.received, U, Heard(asked, d.calls).arrived, b.flow)
      BY <3>1, <1>13, LedgerLess
    <3>3. toClient' = <<>> /\ c'.socket # "open"
      BY <1>1, <1>2, <1>7, <2>1
    <3>4. Listed(<<>>) /\ Len(<<>>) = 0 /\ DOMAIN <<>> = {}
      BY ListedEmpty
    <3>5. Tagged(U, 0)' /\ AckFirst(c', U)
      BY <3>1 DEF Tagged, Chain, AckFirst
    <3>6. Carried(c, toClient, U)'
      BY <3>3, <3>4, <3>5, <3>1, Zenon DEF Carried, AckFirst
    <3> QED BY <3>2, <3>6, <1>1, <1>2, <1>3, <1>5 DEF OnTheWay
  <2>2. CASE ~d.cut
    <3>1. toClient' = chunks
      BY <1>1, <2>2
    <3>2. Tagged(T, Len(chunks))'
      BY <1>3, <1>13, TaggedNext DEF Carried
    <3>3. Carried(c, toClient, T)'
      BY <3>1, <3>2, <1>2, <1>13 DEF Carried, AckFirst
    <3> QED BY <3>3, <1>1, <1>2, <1>3, <1>5, <1>13 DEF OnTheWay
  <2> QED BY <2>1, <2>2, <1>7
<1> QED BY <1>1, <1>4, <1>6, <1>9, <1>11, <1>12, <1>14 DEF Good

(***************************************************************************)
(* The events of the page and of the browser.                              *)
(***************************************************************************)
LEMMA HeardNothing == \A a : Heard(a, <<>>) = a
BY FoldedEmpty DEF Heard

\* What the page writes down before the client tells it anything.
Asked(asked) ==
  DOMAIN asked = DOMAIN app /\ \A f \in {"arrived", "corrupt", "inQos", "outQos", "uris"} : asked[f] = app[f]

LEMMA StillTurn ==
  ASSUME Good, NEW d, Still(c, d), NEW asked, Asked(asked), asked.ended => Gone(d)
  PROVE  Turn(d, toClient, asked)
<1>1. Typed(d) /\ Calm(c, d) /\ d.received = c.received /\ Calls(c, d) /\ Typed(c) /\ c.calls = <<>> /\ c.cut = FALSE
  BY DEF Still, Quiet, Good, Rests
<1>2. d.connected => Up(d)
  BY <1>1, UpStays DEF Good, Attached
<1>3. /\ d.buffer = c.buffer /\ (d.connected => c.connected) /\ (~d.cut => d.socket = c.socket)
      /\ \A p : Dials(d, p) => Dials(c, p)
      /\ d.socket = "connecting" => c.socket = "connecting" \/ \A p : ~Dials(d, p)
      /\ d.socket = "open" => c.socket = "open"
  BY <1>1 DEF Calm, Dials, Typed
<1>4. "arrived" \in DOMAIN asked /\ asked.arrived = app.arrived /\ app.arrived \in [InMsgs -> Nat]
  BY DEF Asked, Good, PageOk, AppOk
<1>5. Tells(asked, Heard(asked, d.calls)) /\ Heard(asked, d.calls).arrived = app.arrived
  <2>1. Agree(asked, Heard(asked, d.calls))
    BY <1>1, HeardNothing DEF Calls
  <2>2. Tells(asked, asked)
    BY <1>4 DEF Tells
  <2> QED BY <2>1, <2>2, <1>4, TellsMore
<1>6. PICK T : Carried(c, toClient, T) /\ (app.inQos = 2 => Ledger(c.received, T, app.arrived, b.flow))
  BY DEF Good, OnTheWay
<1>7. Carried(d, toClient, T)
  BY <1>3, <1>6 DEF Carried, AckFirst
<1>8. app.inQos = 2 => Ledger(d.received, T, Heard(asked, d.calls).arrived, b.flow)
  BY <1>1, <1>5, <1>6
<1>9. /\ DOMAIN asked = DOMAIN app /\ asked.uris = app.uris /\ asked.inQos = app.inQos /\ asked.outQos = app.outQos
      /\ asked.corrupt = app.corrupt
  BY DEF Asked
<1> QED BY <1>1, <1>2, <1>3, <1>5, <1>7, <1>8, <1>9, Zenon DEF Turn

\* A step that neither opens a socket nor concerns the broker.
LEMMA StillGood ==
  ASSUME Good, NEW d, Still(c, d), NEW asked, Asked(asked), asked.ended => Gone(d), Becomes(d, toClient, asked),
         b' = b, d.socket # "connecting" \/ d.socket = c.socket
  PROVE  Good'
<1>1. Turn(d, toClient, asked)
  BY StillTurn
<1>2. d.socket = "connecting" => b'.link = FALSE
  BY DEF Good, Attached
<1> QED BY <1>1, <1>2, TurnGood

\* A step that may open a socket.
LEMMA LinkGood ==
  ASSUME Good, NEW d, NEW chunks, NEW asked, Turn(d, chunks, asked), Becomes(d, chunks, asked), b' = LinkAfter(d)
  PROVE  Good'
<1>1. b' = IF d.socket = "connecting" THEN [b EXCEPT !.link = FALSE] ELSE b
  BY Zenon DEF LinkAfter
<1>2. DOMAIN b = BrokerFields
  BY DEF Good, BrokerOk
<1>3. [b EXCEPT !.link = FALSE].link = FALSE
  BY <1>2 DEF BrokerFields
<1>4. b' = b \/ b' = [b EXCEPT !.link = FALSE]
  BY <1>1
<1>5. d.socket = "connecting" => b'.link = FALSE
  BY <1>1, <1>3, Zenon
<1> QED BY <1>4, <1>5, TurnGood

LEMMA GoodHas ==
  ASSUME Good
  PROVE  /\ Typed(c) /\ DOMAIN c = Fields /\ c.thrown = FALSE /\ c.cut = FALSE /\ (c.connected => Up(c))
         /\ app.uris \in Nat /\ app.outQos \in 0 .. 2 /\ Still(c, c) /\ (app.ended => Gone(c))
<1>1. Typed(c)
  BY DEF Good, Rests
<1>2. Still(c, c)
  BY <1>1, QuietSame DEF Still
<1>3. c.thrown = FALSE /\ c.cut = FALSE /\ (c.connected => Up(c)) /\ app.uris \in Nat /\ app.outQos \in 0 .. 2
      /\ (app.ended => Gone(c))
  BY DEF Good, Rests, Attached, PageOk, AppOk, Ended
<1> QED BY <1>1, <1>2, <1>3 DEF Typed

LEMMA AsksBare == Asks(Bare("DISCONNECT")) /\ Asks(Bare("PINGREQ"))
<1>1. Bare("DISCONNECT") = Ack(14, NoId) /\ Bare("PINGREQ") = Ack(12, NoId)
  BY Codes, Zenon DEF Bare, Ack
<1>2. \A t : DOMAIN Ack(t, NoId) = {"type", "id"} /\ Ack(t, NoId).type = t /\ Ack(t, NoId).id = 0
  BY DEF Ack, NoId
<1> HIDE DEF Identifiers
<1> QED BY <1>1, <1>2 DEF Asks, Writes

\* Disconnecting: nothing else may be sent.
LEMMA NotifyKeeps ==
  ASSUME NEW cl, Typed(cl), app.uris \in Nat
  PROVE  LET d == Schedule([cl EXCEPT !.notify = TRUE], Bare("DISCONNECT"))
         IN /\ Keeps(cl, d) /\ (Up(cl) /\ ~cl.thrown => Gone(d))
            /\ ~cl.connected => d.socket = cl.socket
<1> DEFINE e == [cl EXCEPT !.notify = TRUE]
           m == Bare("DISCONNECT")
           d == Schedule(e, m)
<1>1. DOMAIN cl = Fields
  BY DEF Typed
<1>2. Changes(cl, e, {"notify"}) /\ e.notify = TRUE
  BY <1>1 DEF Changes, Fields
<1>3. Asks(m)
  BY AsksBare
<1> DEFINE queued == [e EXCEPT !.queue = Append(@, m)]
<1>4. d = IF e.thrown THEN e ELSE IF e.connected THEN ProcessQueue(queued) ELSE queued
  BY Zenon DEF Schedule
<1> HIDE DEF e
<1>5. Typed(e)
  BY <1>2 DEF Typed, Changes, Fields
<1>6. Keeps(cl, e)
  <2>1. Changes(cl, e, Idle)
    BY <1>2 DEF Changes, Idle
  <2> QED BY <2>1, <1>5, IdleKeeps
<1>7. ~cl.connected => d.socket = cl.socket
  <2>1. queued.socket = e.socket
    <3>1. DOMAIN e = Fields
      BY <1>2 DEF Changes
    <3> QED BY <3>1 DEF Fields
  <2>2. e.connected = cl.connected /\ e.socket = cl.socket
    BY <1>2 DEF Changes, Fields
  <2> HIDE DEF queued, d
  <2> QED BY <2>1, <2>2, <1>4
<1> HIDE DEF m
<1>8. Keeps(e, d) /\ (Up(e) /\ e.notify /\ ~e.thrown => Gone(d))
  BY <1>3, <1>5, ScheduleKeeps
<1> HIDE DEF d
<1>9. Up(cl) => Up(e)
  BY <1>2 DEF Up, Changes, Fields
<1>10. e.thrown = cl.thrown
  BY <1>2 DEF Changes, Fields
<1>11. Keeps(cl, d)
  BY <1>6, <1>8, KeepsTwice
<1> QED BY <1>2, <1>7, <1>8, <1>9, <1>10, <1>11 DEF d, m, e

LEMMA DisconnectGood ==
  ASSUME Good, Disconnect
  PROVE  Good'
<1> DEFINE d == Schedule([c EXCEPT !.notify = TRUE], Bare("DISCONNECT"))
           asked == [app EXCEPT !.ended = c.connected]
<1>1. Becomes(d, toClient, asked) /\ b' = b
  BY Zenon DEF Disconnect
<1>2. Keeps(c, d) /\ (Up(c) /\ ~c.thrown => Gone(d)) /\ (~c.connected => d.socket = c.socket)
  BY GoodHas, NotifyKeeps
<1>3. Asked(asked) /\ asked.ended = c.connected
  BY DEF Asked, Good, PageOk, AppOk
<1> HIDE DEF d, asked
<1>4. c.connected => Gone(d)
  BY <1>2, GoodHas
<1>5. d.socket # "connecting" \/ d.socket = c.socket
  BY <1>2, <1>4 DEF Gone
<1>6. Still(c, d)
  BY <1>2, KeepsStill
<1> QED BY <1>1, <1>3, <1>4, <1>5, <1>6, StillGood

\* A page that is connected sends, or leaves.
LEMMA PageGood ==
  ASSUME Good, c.connected, NEW d, Keeps(c, d), NEW asked, Asked(asked), asked.ended => Gone(d),
         Becomes(d, toClient, asked), b' = b
  PROVE  Good'
<1>1. Up(d) \/ Gone(d)
  BY GoodHas DEF Keeps
<1>2. d.socket # "connecting"
  BY <1>1 DEF Up, Gone
<1>3. Still(c, d)
  BY KeepsStill
<1> QED BY <1>2, <1>3, StillGood

LEMMA SendGood ==
  ASSUME Good, NEW m \in OutMsgs, Send(m)
  PROVE  Good'
<1> DEFINE message == Publish(NoId, app.outQos, FALSE, FALSE, Topic, <<m>>)
           x == Request(c, message)
           told == Handed(c, "delivered", message)
           y == Schedule(told, message)
           d == IF app.outQos > 0 THEN x ELSE y
           asked == [app EXCEPT !.sent = @ \cup {m}]
<1>1. c.connected /\ Becomes(d, toClient, asked) /\ b' = b
  BY Zenon DEF Send
<1>2. Asked(asked) /\ asked.ended = app.ended
  BY DEF Asked, Good, PageOk, AppOk
<1>3. message.type = 3 /\ message.id = 0 /\ message.qos = app.outQos /\ {"type", "id", "qos"} \subseteq DOMAIN message
  BY Codes DEF Publish, NoId
<1> HIDE DEF message
<1>4. Plain(message) /\ (~(app.outQos > 0) => Asks(message))
  BY <1>3, GoodHas DEF Plain, Asks, Writes, NoId
<1>5. Keeps(c, x)
  BY <1>4, GoodHas, RequestKeeps
<1>6. Keeps(c, told)
  <2>1. "delivered" # "arrived"
    OBVIOUS
  <2> QED BY <2>1, GoodHas, HandedKeeps
<1> HIDE DEF told
<1>7. ~(app.outQos > 0) => Keeps(told, y)
  BY <1>4, <1>6, GoodHas, ScheduleKeeps DEF Keeps
<1> HIDE DEF x, y
<1>8. Keeps(c, d)
  BY <1>5, <1>6, <1>7, KeepsTwice
<1>9. ~app.ended
  BY <1>1, GoodHas DEF Gone
<1> HIDE DEF d, asked
<1> QED BY <1>1, <1>2, <1>8, <1>9, PageGood

LEMMA StopGood ==
  ASSUME Good, StopLiveUpdates
  PROVE  Good'
<1> DEFINE message == Unsubscribe(NoId, Topic)
           left == Request(c, message)
           e == Schedule([left EXCEPT !.notify = TRUE], Bare("DISCONNECT"))
           d == IF left.thrown THEN left ELSE e
           asked == [app EXCEPT !.ended = ~left.thrown]
<1>1. c.connected /\ Becomes(d, toClient, asked) /\ b' = b
  BY Zenon DEF StopLiveUpdates
<1>2. Asked(asked) /\ asked.ended = ~left.thrown
  BY DEF Asked, Good, PageOk, AppOk
<1>3. Plain(message)
  <2>1. message.type = 10 /\ {"type", "id"} \subseteq DOMAIN message
    BY Codes DEF Unsubscribe
  <2> HIDE DEF message
  <2> QED BY <2>1 DEF Plain
<1> HIDE DEF message
<1>4. Keeps(c, left)
  BY <1>3, GoodHas, RequestKeeps
<1> HIDE DEF left
<1>5. Typed(left)
  BY <1>4 DEF Keeps
<1>6. Keeps(left, e) /\ (Up(left) /\ ~left.thrown => Gone(e))
  BY <1>5, GoodHas, NotifyKeeps
<1> HIDE DEF e
<1>7. Keeps(c, d)
  BY <1>4, <1>6, KeepsTwice
<1>8. ~left.thrown => Gone(d)
  BY <1>1, <1>4, <1>6, GoodHas DEF Keeps
<1> HIDE DEF d, asked
<1> QED BY <1>1, <1>2, <1>7, <1>8, PageGood

\* A step of the ledger that loses nothing: no message is on its way.
LEMMA LedgerNone ==
  ASSUME NEW r, NEW T, NEW g, NEW f, Ledger(r, T, g, f), NEW U, DOMAIN U = {}
  PROVE  Ledger(r, U, g, f)
<1>1. Later(T, U, 0) /\ 0 \in Nat
  BY DEF Later
<1> QED BY <1>1, LedgerLess

LEMMA ConnectGood ==
  ASSUME Good, ConnectAndSubscribe
  PROVE  Good'
<1> DEFINE e == [c EXCEPT !.hostIndex = 0, !.version = app.version]
           d == DoConnect(e)
           asked == [app EXCEPT !.connects = @ + 1, !.ended = FALSE, !.last = "none"]
           U == [i \in {} |-> i]
<1>11. DOMAIN U = {}
  OBVIOUS
<1> HIDE DEF U
<1>1. ~c.connected /\ c.socket = "none" /\ Becomes(d, <<>>, asked) /\ b' = LinkAfter(d)
  BY Zenon DEF ConnectAndSubscribe
<1>2. Asked(asked) /\ asked.ended = FALSE
  BY DEF Asked, Good, PageOk, AppOk
<1>3. Changes(c, e, {"hostIndex", "version"}) /\ e.hostIndex = 0
  BY GoodHas DEF Changes, Fields
<1> HIDE DEF e, asked
<1>4. DOMAIN e = Fields
  BY <1>3 DEF Changes
<1>5. /\ Changes(e, d, {"connected", "socket", "out", "sendPinger", "receivePinger", "connectTimer"})
      /\ d.connected = FALSE /\ d.socket = "connecting" /\ d.out = <<>>
      /\ d.sendPinger = NewPinger /\ d.receivePinger = NewPinger
      /\ d.connectTimer = TRUE
  BY <1>4, DoConnectChanges, Zenon
<1> HIDE DEF d
<1>6. Pinger(NewPinger) /\ DOMAIN <<>> = {}
  BY DEF Pinger, NewPinger
<1>7. /\ Changes(c, d, {"hostIndex", "version", "connected", "socket", "out", "sendPinger", "receivePinger", "connectTimer"})
      /\ d.hostIndex = 0
  BY <1>3, <1>5 DEF Changes, Fields
<1>8. Typed(d)
  <2>1. Writing(d.out) /\ Pinger(d.sendPinger) /\ Pinger(d.receivePinger)
    BY <1>5, <1>6, EmptyLists, Zenon
  <2>2. /\ d.queue = c.queue /\ d.calls = c.calls /\ d.identifier = c.identifier /\ d.notify = c.notify
        /\ d.thrown = c.thrown /\ d.cut = c.cut /\ d.sent = c.sent /\ d.store = c.store /\ d.received = c.received
        /\ DOMAIN d = Fields
    BY <1>7 DEF Changes, Fields
  <2>3. d.cut => d.socket # "open"
    BY <1>5
  <2>4. Typed(c)
    BY GoodHas
  <2>5. d.socket \in {"none", "connecting", "open"} /\ d.connected \in BOOLEAN /\ d.connectTimer \in BOOLEAN /\ d.hostIndex \in Nat
    <3>1. d.socket = "connecting" /\ d.connected = FALSE /\ d.connectTimer = TRUE
      BY <1>5
    <3>2. d.hostIndex = 0
      BY <1>7
    <3>3. 0 \in Nat
      OBVIOUS
    <3>4. d.hostIndex \in Nat
      BY <3>2, <3>3, Zenon
    <3>5. d.socket \in {"none", "connecting", "open"} /\ d.connected \in BOOLEAN /\ d.connectTimer \in BOOLEAN
      BY <3>1, Zenon
    <3> QED BY <3>4, <3>5
  <2>6. Asking(d.queue) /\ Listed(d.calls) /\ d.identifier \in Nat \ {0} /\ d.notify \in BOOLEAN /\ d.thrown \in BOOLEAN
        /\ d.cut \in BOOLEAN /\ SentOk(d.sent) /\ DOMAIN d.store = {"sent", "received"} /\ StoredOk(d.store.sent)
        /\ ReceivedOk(d.received) /\ Backs(d.store.received, d.received)
    BY <2>2, <2>4 DEF Typed
  <2> QED BY <2>1, <2>2, <2>3, <2>5, <2>6 DEF Typed
<1>9. d.calls = c.calls /\ d.buffer = c.buffer /\ d.received = c.received /\ \A p : ~Dials(d, p)
  BY <1>5, <1>6, <1>7 DEF Changes, Fields, Dials
<1>10. Heard(asked, d.calls) = asked /\ asked.arrived = app.arrived /\ Tells(asked, asked)
  <2>1. Heard(asked, d.calls) = asked
    BY <1>9, HeardNothing DEF Good, Rests
  <2> QED BY <2>1, <1>2 DEF Tells, Asked, Good, PageOk, AppOk
<1>12. PICK T : Carried(c, toClient, T) /\ (app.inQos = 2 => Ledger(c.received, T, app.arrived, b.flow))
  BY DEF Good, OnTheWay
<1>13. Carried(d, <<>>, U)
  BY <1>5, <1>11, CarriedNone
<1>14. app.inQos = 2 => Ledger(d.received, U, Heard(asked, d.calls).arrived, b.flow)
  BY <1>9, <1>10, <1>11, <1>12, LedgerNone
<1>15. /\ DOMAIN asked = DOMAIN app /\ asked.uris = app.uris /\ asked.inQos = app.inQos /\ asked.outQos = app.outQos
       /\ asked.corrupt = app.corrupt
  BY <1>2 DEF Asked
<1>16. Turn(d, <<>>, asked)
  BY <1>2, <1>5, <1>8, <1>9, <1>10, <1>13, <1>14, <1>15 DEF Turn
<1> QED BY <1>1, <1>16, LinkGood

LEMMA ChunksJoined ==
  ASSUME NEW k, Len(SubSeq(toClient, 1, k)) \in {1, 2}
  PROVE  Joined(SubSeq(toClient, 1, k), FlattenSeq(SubSeq(toClient, 1, k)))
<1> DEFINE s == SubSeq(toClient, 1, k)
<1>1. Len(s) \in {1, 2}
  OBVIOUS
<1> HIDE DEF s
<1>2. Joined(s, FlattenSeq(s))
  BY <1>1, FlattenIs
<1> QED BY <1>2 DEF s

LEMMA MessageGood ==
  ASSUME Good, SocketMessage
  PROVE  Good'
<1>1. PICK k \in 1 .. 2 :
         /\ k <= Len(toClient) /\ c.socket = "open"
         /\ Becomes(OnSocketMessage(c, FlattenSeq(SubSeq(toClient, 1, k))), SubSeq(toClient, k + 1, Len(toClient)), app)
         /\ b' = LinkAfter(OnSocketMessage(c, FlattenSeq(SubSeq(toClient, 1, k))))
  BY Zenon DEF SocketMessage
<1> DEFINE n == Len(toClient)
           s == SubSeq(toClient, 1, k)
           rest == SubSeq(toClient, k + 1, n)
           data == FlattenSeq(s)
           d == OnSocketMessage(c, data)
<1>2. PICK T : Carried(c, toClient, T) /\ (app.inQos = 2 => Ledger(c.received, T, app.arrived, b.flow))
  BY DEF Good, OnTheWay
<1>3. /\ n \in Nat /\ Len(s) = k /\ (\A i \in 1 .. k : s[i] = toClient[i])
      /\ Listed(rest) /\ Len(rest) = n - k /\ DOMAIN rest = 1 .. n - k /\ (\A i \in 1 .. n - k : rest[i] = toClient[i + k])
      /\ DOMAIN toClient = 1 .. n /\ Listed(toClient)
  <2>1. PICK S : toClient \in Seq(S)
    BY <1>2 DEF Carried, Listed
  <2>2. rest \in Seq(S) /\ Len(rest) = n - k /\ (\A i \in 1 .. n - k : rest[i] = toClient[i + k])
        /\ n \in Nat /\ DOMAIN rest = 1 .. n - k
    BY <1>1, <2>1
  <2>3. Len(s) = k /\ (\A i \in 1 .. k : s[i] = toClient[i]) /\ DOMAIN toClient = 1 .. n
    BY <1>1, <2>1
  <2>4. Listed(rest) /\ Listed(toClient)
    BY <2>1, <2>2, Zenon DEF Listed
  <2> QED BY <2>2, <2>3, <2>4
<1>4. /\ k = 1 => data = Chunk(T[1])
      /\ k = 2 => data = Chunk(T[1]) \o Chunk(T[2])
  <2>1. /\ k = 1 => data = s[1]
        /\ k = 2 => data = s[1] \o s[2]
    <3>1. Len(s) \in {1, 2} /\ Len(s) = k
      <4> HIDE DEF s, n
      <4>1. k \in 1 .. 2 /\ Len(s) = k
        BY <1>3
      <4> QED BY <4>1
    <3>2. Joined(s, data)
      BY <3>1, ChunksJoined
    <3> HIDE DEF s
    <3> HIDE DEF data
    <3> QED BY <3>1, <3>2 DEF Joined
  <2>2. \A i \in 1 .. k : s[i] = Chunk(T[i])
    <3> HIDE DEF s, data
    <3>1. \A i \in 1 .. k : i \in DOMAIN toClient
      <4> HIDE DEF n
      <4>1. n \in Nat /\ DOMAIN toClient = 1 .. n /\ k <= n
        BY <1>1, <1>3 DEF n
      <4> QED BY <4>1, <1>1
    <3> QED BY <3>1, <1>2, <1>3 DEF Carried
  <2>3. (k = 1 \/ k = 2) /\ 1 \in 1 .. k /\ (k = 2 => 2 \in 1 .. k)
    BY <1>1
  <2> HIDE DEF data, s
  <2> QED BY <2>1, <2>2, <2>3
<1> HIDE DEF s, rest, data
<1>5. Mid(c, T, n) /\ Link(c.buffer, T, n) /\ AppOk(app) /\ Typed(c) /\ c.calls = <<>>
  <2>1. Heard(app, c.calls) = app /\ Tells(app, app) /\ AppOk(app)
    BY HeardNothing DEF Good, Rests, PageOk, AppOk, Tells
  <2>2. Tagged(T, n) /\ AckFirst(c, T) /\ Link(c.buffer, T, n)
    BY <1>1, <1>2 DEF Carried
  <2> QED BY <2>1, <2>2, <1>2, GoodHas DEF Mid, Good, Rests
<1>6. Arrives(c, d, T, n, k)
  <2>1. CASE k = 1
    <3>1. n > 0
      BY <1>1, <1>3, <2>1
    <3> QED BY <3>1, <1>1, <1>4, <1>5, <2>1, ArriveOne
  <2>2. CASE k = 2
    <3>1. n > 1
      BY <1>1, <1>3, <2>2
    <3> QED BY <3>1, <1>1, <1>4, <1>5, <2>2, ArriveTwo
  <2> QED BY <1>1, <2>1, <2>2
<1> HIDE DEF d
<1> DEFINE U == After(T, n, k)
<1>7. PICK start, left : Starts(c, start, left) /\ Bound(start, d)
  BY <1>6, Zenon DEF Arrives
<1>8. Mid(d, U, n - k) /\ Link(d.buffer, U, n - k)
  BY <1>6, Zenon DEF Arrives
<1>9. start.out = c.out /\ start.cut = c.cut /\ start.socket = c.socket
  BY <1>7 DEF Starts, Changes, Fields
<1>10. Carried(d, rest, U)
  <2>1. \A i \in 1 .. n - k : U[i] = T[i + k] /\ i + k \in 1 .. n
    BY <1>1, <1>3 DEF After
  <2> HIDE DEF U
  <2>2. Tagged(U, n - k) /\ AckFirst(d, U)
    BY <1>8 DEF Mid
  <2>3. \A i \in DOMAIN rest : rest[i] = Chunk(U[i])
    BY <2>1, <1>2, <1>3 DEF Carried
  <2> QED BY <2>2, <2>3, <1>3, <1>8 DEF Carried
<1> HIDE DEF U
<1>11. toClient # <<>>
  BY <1>1, <1>3
<1>12. Typed(d) /\ (d.connected => Up(d)) /\ Tells(app, Heard(app, d.calls))
       /\ (app.inQos = 2 => Ledger(d.received, U, Heard(app, d.calls).arrived, b.flow))
  BY <1>8 DEF Mid
<1>13. /\ ~d.cut => d.socket = c.socket
       /\ \A p : Dials(d, p) => Dials(c, p)
       /\ d.socket = "connecting" => c.socket = "connecting" \/ \A p : ~Dials(d, p)
  BY <1>7, <1>9 DEF Bound, Dials
<1>14. ~app.ended
  BY <1>1, GoodHas DEF Gone
<1>15. Turn(d, rest, app)
  BY <1>10, <1>11, <1>12, <1>13, <1>14 DEF Turn
<1>16. Becomes(d, rest, app) /\ b' = LinkAfter(d)
  BY <1>1 DEF d, data, s, rest
<1> QED BY <1>15, <1>16, LinkGood

\* The socket is given up, by whichever event.
LEMMA LeftGood ==
  ASSUME Good, ~app.ended, NEW d, Still(c, d), NEW asked, asked = app \/ asked = Fault(app),
         Becomes(d, toClient, asked), b' = LinkAfter(d)
  PROVE  Good'
<1>1. Asked(asked) /\ ~asked.ended
  BY DEF Asked, Fault, Good, PageOk, AppOk
<1>2. Turn(d, toClient, asked)
  BY <1>1, StillTurn
<1> QED BY <1>2, LinkGood

\* Fields that Still does not look at.
LEMMA AsideStill ==
  ASSUME NEW cl, Typed(cl), NEW d, Typed(d),
         Changes(cl, d, {"sendPinger", "receivePinger", "connectTimer", "out"}),
         \A p : Dials(d, p) => Dials(cl, p) /\ cl.out[p] = d.out[p]
  PROVE  Still(cl, d)
<1>1. \A x : Agree(x, x)
  BY DEF Agree
<1>2. /\ d.received = cl.received /\ d.buffer = cl.buffer /\ d.connected = cl.connected /\ d.hostIndex = cl.hostIndex
      /\ d.cut = cl.cut /\ d.socket = cl.socket /\ d.calls = cl.calls
  BY DEF Changes, Fields
<1>3. Quiet(cl, d)
  BY <1>1, <1>2 DEF Quiet, Calm, Calls, Dials
<1> QED BY <1>3 DEF Still

LEMMA DisconnectedStill ==
  ASSUME NEW cl, NEW d, Still(cl, d)
  PROVE  Still(cl, Disconnected(d))
<1>1. Still(d, Disconnected(d))
  BY DisconnectedQuiet, Zenon DEF Still
<1> QED BY <1>1, StillTwice

LEMMA ClosesGood ==
  ASSUME Good, SocketCloses
  PROVE  Good'
<1>1. PICK out \in {c.out, <<>>} : /\ c.socket # "none"
                                   /\ Becomes(Disconnected([c EXCEPT !.out = out]), toClient, Fault(app))
                                   /\ b' = LinkAfter(Disconnected([c EXCEPT !.out = out]))
  BY Zenon DEF SocketCloses
<1> DEFINE e == [c EXCEPT !.out = out]
<1>2. Changes(c, e, {"out"}) /\ e.out = out
  BY GoodHas DEF Changes, Fields
<1> HIDE DEF e
<1>3. Writing(out) /\ \A p \in DOMAIN out : p \in DOMAIN c.out /\ c.out[p] = out[p]
  <2>1. DOMAIN <<>> = {} /\ Writing(c.out)
    BY GoodHas DEF Typed
  <2> QED BY <2>1, EmptyLists
<1>4. Typed(e)
  BY <1>2, <1>3, GoodHas DEF Typed, Changes, Fields
<1>5. Still(c, e)
  <2>1. Changes(c, e, {"sendPinger", "receivePinger", "connectTimer", "out"})
    BY <1>2 DEF Changes
  <2>2. \A p : Dials(e, p) => Dials(c, p) /\ c.out[p] = e.out[p]
    BY <1>2, <1>3 DEF Dials
  <2> QED BY <2>1, <2>2, <1>4, GoodHas, AsideStill
<1>6. Still(c, Disconnected(e))
  BY <1>5, DisconnectedStill, Zenon
<1>7. ~app.ended
  BY <1>1, GoodHas DEF Gone
<1>8. Becomes(Disconnected(e), toClient, Fault(app)) /\ b' = LinkAfter(Disconnected(e))
  BY <1>1 DEF e
<1> QED BY <1>6, <1>7, <1>8, LeftGood

LEMMA TimeoutGood ==
  ASSUME Good, ConnectTimeout
  PROVE  Good'
<1> DEFINE e == [c EXCEPT !.connectTimer = FALSE]
<1>1. c.connectTimer /\ Becomes(Disconnected(e), toClient, app) /\ b' = LinkAfter(Disconnected(e))
  BY Zenon DEF ConnectTimeout
<1>2. Changes(c, e, {"connectTimer"}) /\ e.connectTimer = FALSE
  BY GoodHas DEF Changes, Fields
<1> HIDE DEF e
<1>3. Typed(e)
  BY <1>2, GoodHas DEF Typed, Changes, Fields
<1>4. Still(c, e)
  <2>1. Changes(c, e, {"sendPinger", "receivePinger", "connectTimer", "out"}) /\ e.out = c.out
    BY <1>2 DEF Changes, Fields
  <2>2. \A p : Dials(e, p) => Dials(c, p) /\ c.out[p] = e.out[p]
    BY <2>1 DEF Dials
  <2> QED BY <2>1, <2>2, <1>3, GoodHas, AsideStill
<1>5. Still(c, Disconnected(e))
  BY <1>4, DisconnectedStill, Zenon
<1>6. ~app.ended
  BY <1>1, GoodHas DEF Gone
<1> QED BY <1>1, <1>5, <1>6, LeftGood

LEMMA PingStill ==
  ASSUME NEW cl, Typed(cl), NEW pinger
  PROVE  Still(cl, DoPing(cl, pinger))
<1> DEFINE m == Bare("PINGREQ")
           e == [cl EXCEPT !.out = Append(@, m)]
           x == Disconnected(cl)
<1>1. DoPing(cl, pinger) = IF ~pinger.isReset THEN x ELSE e
  BY Zenon DEF DoPing
<1>2. Still(cl, x)
  BY DisconnectedQuiet, Zenon DEF Still
<1>3. Changes(cl, e, {"out"}) /\ e.out = Append(cl.out, m)
  BY DEF Typed, Changes, Fields
<1> HIDE DEF x, e
<1>4. Asks(m) /\ Writing(cl.out) /\ Listed(cl.out)
  BY AsksBare DEF Typed, Writing
<1> HIDE DEF m
<1>5. Writing(e.out)
  BY <1>3, <1>4, WritingAppend, Zenon DEF Asks
<1>6. Typed(e)
  BY <1>3, <1>5 DEF Typed, Changes, Fields
<1>7. \A p : Dials(e, p) => Dials(cl, p) /\ cl.out[p] = e.out[p]
  <2>1. /\ Append(cl.out, m)[Len(cl.out) + 1] = m /\ (\A i \in 1 .. Len(cl.out) : Append(cl.out, m)[i] = cl.out[i])
        /\ DOMAIN Append(cl.out, m) = 1 .. Len(cl.out) + 1 /\ DOMAIN cl.out = 1 .. Len(cl.out) /\ Len(cl.out) \in Nat
    BY <1>4, ListedAppend
  <2> QED BY <2>1, <1>3, <1>4 DEF Dials, Asks
<1>8. Still(cl, e)
  <2>1. Changes(cl, e, {"sendPinger", "receivePinger", "connectTimer", "out"})
    BY <1>3 DEF Changes
  <2> QED BY <2>1, <1>6, <1>7, AsideStill
<1> QED BY <1>1, <1>2, <1>8

LEMMA PingGood ==
  ASSUME Good, PingFires
  PROVE  Good'
<1> DEFINE s == [c EXCEPT !.sendPinger.isReset = FALSE]
           r == [c EXCEPT !.receivePinger.isReset = FALSE]
<1>1. \/ c.sendPinger.armed /\ Becomes(DoPing(s, c.sendPinger), toClient, Fault(app)) /\ b' = LinkAfter(DoPing(s, c.sendPinger))
      \/ c.receivePinger.armed /\ Becomes(DoPing(r, c.receivePinger), toClient, Fault(app)) /\ b' = LinkAfter(DoPing(r, c.receivePinger))
  BY Zenon DEF PingFires
<1>2. Still(c, s) /\ Still(c, r)
  <2> DEFINE p == [c.sendPinger EXCEPT !.isReset = FALSE]
             q == [c.receivePinger EXCEPT !.isReset = FALSE]
  <2>1. s = [c EXCEPT !.sendPinger = p] /\ r = [c EXCEPT !.receivePinger = q]
    BY Zenon
  <2>2. Pinger(p) /\ Pinger(q)
    BY GoodHas DEF Typed, Pinger
  <2> HIDE DEF p, q, s, r
  <2>3. Changes(c, s, {"sendPinger"}) /\ s.sendPinger = p /\ Changes(c, r, {"receivePinger"}) /\ r.receivePinger = q
    BY <2>1, GoodHas DEF Changes, Fields
  <2>4. Typed(s)
    BY <2>2, <2>3, GoodHas DEF Typed, Changes, Fields
  <2>5. Typed(r)
    BY <2>2, <2>3, GoodHas DEF Typed, Changes, Fields
  <2>6. /\ Changes(c, s, {"sendPinger", "receivePinger", "connectTimer", "out"}) /\ s.out = c.out
        /\ Changes(c, r, {"sendPinger", "receivePinger", "connectTimer", "out"}) /\ r.out = c.out
    BY <2>3 DEF Changes, Fields
  <2>7. \A i : (Dials(s, i) => Dials(c, i) /\ c.out[i] = s.out[i]) /\ (Dials(r, i) => Dials(c, i) /\ c.out[i] = r.out[i])
    BY <2>6 DEF Dials
  <2> QED BY <2>4, <2>5, <2>6, <2>7, GoodHas, AsideStill
<1> HIDE DEF s, r
<1>3. Still(c, DoPing(s, c.sendPinger)) /\ Still(c, DoPing(r, c.receivePinger))
  <2>1. Still(s, DoPing(s, c.sendPinger)) /\ Still(r, DoPing(r, c.receivePinger))
    BY <1>2, PingStill, Zenon DEF Still
  <2> QED BY <2>1, <1>2, StillTwice
<1>4. ~app.ended
  BY <1>1, GoodHas DEF Gone
<1> QED BY <1>1, <1>3, <1>4, LeftGood

\* Nothing is on its way any more.
LEMMA OnTheWayNone ==
  ASSUME Good, toClient' = <<>>, c'.socket # "open" \/ c'.buffer = <<>>,
         app'.inQos = app.inQos, app'.arrived = app.arrived,
         NEW f, b'.flow = f, app.inQos = 2 => \A T : Ledger(c.received, T, app.arrived, b.flow) =>
           \A U : DOMAIN U = {} => Ledger(c'.received, U, app.arrived, f)
  PROVE  OnTheWay'
<1> DEFINE U == [i \in {} |-> i]
<1>1. DOMAIN U = {}
  OBVIOUS
<1> HIDE DEF U
<1>2. PICK T : app.inQos = 2 => Ledger(c.received, T, app.arrived, b.flow)
  BY DEF Good, OnTheWay
<1>3. app.inQos = 2 => Ledger(c'.received, U, app.arrived, f)
  BY <1>1, <1>2
<1>4. Carried(c', <<>>, U)
  BY <1>1, CarriedNone
<1>5. Listed(<<>>) /\ Len(<<>>) = 0 /\ DOMAIN <<>> = {} /\ Link(c'.buffer, U, 0) \in BOOLEAN
  BY ListedEmpty DEF Link
<1>6. Tagged(U, 0)' /\ AckFirst(c', U)
  BY <1>1 DEF Tagged, Chain, AckFirst
<1>7. c'.socket = "open" => Link(c'.buffer, U, 0)
  BY <1>4, <1>5, Zenon DEF Carried
<1>8. Carried(c, toClient, U)'
  <2>1. toClient' = <<>>
    OBVIOUS
  <2>2. \A i \in DOMAIN <<>> : <<>>[i] = Chunk(U[i])
    BY <1>5
  <2> QED BY <2>1, <2>2, <1>5, <1>6, <1>7, Zenon DEF Carried, AckFirst
<1> QED BY <1>3, <1>8 DEF OnTheWay

\* A page that is told nothing.
LEMMA SamePage ==
  ASSUME Good, NEW a, Asked(a), "ended" \in DOMAIN a
  PROVE  PageOk(a)
BY DEF Good, PageOk, AppOk, Asked

LEMMA SocketOpensGood ==
  ASSUME Good, SocketOpens, misframed' = FALSE
  PROVE  Good'
<1> DEFINE m == Connect(c.version, app.clean, <<112>>, NoOption,
                        [has |-> TRUE, text |-> <<117>>], [has |-> TRUE, text |-> <<119>>])
           x == [c EXCEPT !.socket = "open"]
           d == SocketSend(x, m)
<1>1. /\ c.socket = "connecting" /\ Becomes(d, toClient, app) /\ b' = b
      /\ misframed' = (misframed \/ c.buffer # <<>>)
  BY Zenon DEF SocketOpens
<1>2. c.buffer = <<>>
  BY <1>1
<1>3. m.type = 1 /\ m.id = 0 /\ {"type", "id"} \subseteq DOMAIN m
  BY Codes DEF Connect, NoId
<1> HIDE DEF m
<1>4. Writes(m)
  BY <1>3 DEF Writes
<1>5. Changes(c, x, {"socket"}) /\ x.socket = "open" /\ DOMAIN x = Fields
  BY GoodHas DEF Changes, Fields
<1> HIDE DEF x
<1>6. /\ Changes(x, d, {"out", "sendPinger"}) /\ d.out = Append(x.out, m)
      /\ d.sendPinger = [armed |-> TRUE, isReset |-> TRUE]
  BY <1>5, SocketSendChanges, Zenon
<1> HIDE DEF d
<1>7. /\ Changes(c, d, {"socket", "out", "sendPinger"}) /\ d.socket = "open" /\ d.out = Append(c.out, m)
  BY <1>5, <1>6 DEF Changes, Fields
<1>8. ~c.connected /\ toClient = <<>> /\ b.link = FALSE /\ \A p : ~Dials(c, p)
  BY <1>1 DEF Good, Attached, Dialled, Up
<1>9. /\ Append(c.out, m)[Len(c.out) + 1] = m /\ (\A i \in 1 .. Len(c.out) : Append(c.out, m)[i] = c.out[i])
      /\ DOMAIN Append(c.out, m) = 1 .. Len(c.out) + 1 /\ DOMAIN c.out = 1 .. Len(c.out) /\ Len(c.out) \in Nat
      /\ Writing(Append(c.out, m))
  <2>1. Writing(c.out) /\ Listed(c.out)
    BY GoodHas DEF Typed, Writing
  <2>2. Writing(Append(c.out, m))
    BY <2>1, <1>4, WritingAppend, Zenon
  <2> QED BY <2>1, <2>2, ListedAppend
<1>10. Typed(d)
  <2>1. Pinger(d.sendPinger)
    <3>1. Pinger([armed |-> TRUE, isReset |-> TRUE])
      BY DEF Pinger
    <3> QED BY <1>6, <3>1, Zenon
  <2>2. Writing(d.out)
    BY <1>7, <1>9
  <2>3. d.cut = FALSE
    BY <1>7, GoodHas DEF Changes, Fields
  <2> QED BY <2>1, <2>2, <2>3, <1>7, GoodHas DEF Typed, Changes, Fields
<1>11. /\ Rests(c') /\ Changes(d, c', {"calls", "cut", "thrown"})
       /\ toClient' = IF d.cut THEN <<>> ELSE toClient
       /\ app' = Heard(app, d.calls)
  BY <1>1, <1>10, BecomesIs
<1>12. app' = app
  <2>1. d.calls = <<>>
    BY <1>7 DEF Changes, Fields, Good, Rests
  <2> QED BY <2>1, <1>11, HeardNothing
<1>13. toClient' = <<>>
  BY <1>8, <1>11
<1>14. /\ c'.socket = "open" /\ c'.connected = FALSE /\ c'.buffer = <<>> /\ c'.received = c.received
       /\ c'.out = Append(c.out, m)
  BY <1>2, <1>7, <1>8, <1>11, GoodHas DEF Changes, Fields, Typed
<1>15. \A p : Dials(c', p) => p = Len(c.out) + 1
  BY <1>8, <1>9, <1>14 DEF Dials
<1>16. Dialled'
  BY <1>1, <1>8, <1>13, <1>14, <1>15 DEF Dialled
<1>17. Attached'
  BY <1>13, <1>14 DEF Attached
<1>18. Ended'
  BY <1>1, <1>12, GoodHas DEF Ended, Gone
<1>19. OnTheWay'
  <2>1. \A T : Ledger(c.received, T, app.arrived, b.flow) =>
          \A U : DOMAIN U = {} => Ledger(c'.received, U, app.arrived, b.flow)
    BY <1>14, LedgerNone
  <2>2. app'.inQos = app.inQos /\ app'.arrived = app.arrived /\ b'.flow = b.flow
    BY <1>1, <1>12
  <2> QED BY <2>1, <2>2, <1>13, <1>14, OnTheWayNone
<1>20. PageOk(app') /\ BrokerOk(b') /\ Booked'
  BY <1>1, <1>12 DEF Good, Booked
<1> QED BY <1>11, <1>16, <1>17, <1>18, <1>19, <1>20 DEF Good

\* A message marked as a duplicate.
LEMMA Duplicated ==
  ASSUME NEW e, Entry(e)
  PROVE  LET d == [e EXCEPT !.m.duplicate = TRUE] IN Entry(d) /\ d.m.id = e.m.id /\ d.m.type = e.m.type
<1> DEFINE m == e.m
           n == [m EXCEPT !.duplicate = TRUE]
           d == [e EXCEPT !.m.duplicate = TRUE]
<1>1. d = [e EXCEPT !.m = n]
  BY Zenon
<1>2. DOMAIN n = DOMAIN m /\ \A f \in DOMAIN m \ {"duplicate"} : n[f] = m[f]
  OBVIOUS
<1> HIDE DEF m, n
<1>3. DOMAIN e = {"m", "pubRec", "sequence"} /\ Asks(m) /\ m.type \in {3, 8, 10} /\ m.id # NoId
  BY DEF Entry, m
<1>4. DOMAIN d = {"m", "pubRec", "sequence"} /\ d.m = n
  BY <1>1, <1>3
<1> HIDE DEF d
<1>5. /\ n.type = m.type /\ n.id = m.id /\ (m.type = 3 => n.qos = m.qos) /\ (m.type = 8 => n.requestedQos = m.requestedQos)
      /\ DOMAIN n = DOMAIN m
  BY <1>2, <1>3 DEF Asks, Writes
<1>6. Asks(n)
  BY <1>3, <1>5 DEF Asks, Writes
<1>7. Entry(d) /\ d.m.id = m.id /\ d.m.type = m.type
  BY <1>3, <1>4, <1>5, <1>6 DEF Entry
<1> QED BY <1>7 DEF d, m

LEMMA ReloadGood ==
  ASSUME Good, Reload
  PROVE  Good'
<1> DEFINE s == [i \in DOMAIN c.store.sent |-> [c.store.sent[i] EXCEPT !.m.duplicate = TRUE]]
           r == c.store.received
           x == NewClient(s, r, c.store)
           d == [x EXCEPT !.out = c.out]
           a == [Fault(app) EXCEPT !.ended = FALSE, !.last = "none"]
<1>1. c' = d /\ toClient' = <<>> /\ app' = a /\ b' = b
  BY Zenon DEF Reload
<1>2. StoredOk(s)
  <2>1. StoredOk(c.store.sent)
    BY GoodHas DEF Typed
  <2> DEFINE t == c.store.sent
  <2> HIDE DEF t
  <2>2. ASSUME NEW i \in DOMAIN t
        PROVE  LET e == [t[i] EXCEPT !.m.duplicate = TRUE] IN Entry(e) /\ e.m.id = i /\ e.m.type = 3
    <3>1. Entry(t[i]) /\ t[i].m.id = i /\ t[i].m.type = 3
      BY <2>1 DEF StoredOk, SentOk, t
    <3> DEFINE u == t[i]
    <3> HIDE DEF u
    <3>2. LET e == [u EXCEPT !.m.duplicate = TRUE] IN Entry(e) /\ e.m.id = u.m.id /\ e.m.type = u.m.type
      BY <3>1, Duplicated, Zenon DEF u
    <3> QED BY <3>1, <3>2, Zenon DEF u
  <2>3. s = [i \in DOMAIN t |-> [t[i] EXCEPT !.m.duplicate = TRUE]]
    BY DEF t
  <2> HIDE DEF s
  <2>4. DOMAIN s = DOMAIN t /\ \A i \in DOMAIN t : Entry(s[i]) /\ s[i].m.id = i /\ s[i].m.type = 3
    BY <2>2, <2>3, Zenon
  <2> QED BY <2>1, <2>4 DEF StoredOk, SentOk, t
<1> HIDE DEF s
<1>3. /\ DOMAIN x = Fields /\ x.socket = "none" /\ x.connected = FALSE /\ x.hostIndex = 0 /\ x.queue = <<>>
      /\ x.notify = FALSE /\ x.sent = s /\ x.received = r /\ x.identifier = 1 /\ x.buffer = <<>>
      /\ x.connectTimer = FALSE /\ x.sendPinger = NewPinger /\ x.receivePinger = NewPinger
      /\ x.store = c.store /\ x.thrown = FALSE /\ x.cut = FALSE /\ x.calls = <<>>
  BY DEF NewClient, Fields
<1> HIDE DEF x
<1>4. Changes(x, d, {"out"}) /\ d.out = c.out
  BY <1>3 DEF Changes, Fields
<1> HIDE DEF d, r
<1>5. /\ DOMAIN d = Fields /\ d.socket = "none" /\ d.connected = FALSE /\ d.hostIndex = 0 /\ d.queue = <<>>
      /\ d.notify = FALSE /\ d.sent = s /\ d.received = r /\ d.identifier = 1 /\ d.buffer = <<>>
      /\ d.connectTimer = FALSE /\ d.sendPinger = NewPinger /\ d.receivePinger = NewPinger
      /\ d.store = c.store /\ d.thrown = FALSE /\ d.cut = FALSE /\ d.calls = <<>>
  BY <1>3, <1>4 DEF Changes, Fields
<1>6. Typed(d)
  <2>1. Pinger(d.sendPinger) /\ Pinger(d.receivePinger)
    <3>1. Pinger(NewPinger)
      BY DEF Pinger, NewPinger
    <3> QED BY <1>5, <3>1, Zenon
  <2>2. Asking(d.queue) /\ Listed(d.calls) /\ Writing(d.out)
    BY <1>4, <1>5, EmptyLists, ListedEmpty, GoodHas DEF Typed
  <2>3. ReceivedOk(d.received) /\ Backs(d.store.received, d.received)
    BY <1>5, GoodHas DEF Typed, Backs, ReceivedOk, r
  <2>4. SentOk(d.sent) /\ DOMAIN d.store = {"sent", "received"} /\ StoredOk(d.store.sent)
    BY <1>2, <1>5, GoodHas DEF Typed, StoredOk
  <2>5. d.socket \in {"none", "connecting", "open"} /\ d.connected \in BOOLEAN /\ d.notify \in BOOLEAN
        /\ d.connectTimer \in BOOLEAN /\ d.thrown \in BOOLEAN /\ d.cut \in BOOLEAN /\ (d.cut => d.socket # "open")
    BY <1>5, Zenon
  <2>6. d.hostIndex \in Nat /\ d.identifier \in Nat \ {0}
    <3>1. 0 \in Nat /\ 1 \in Nat \ {0}
      OBVIOUS
    <3> QED BY <1>5, <3>1, Zenon
  <2> QED BY <2>1, <2>2, <2>3, <2>4, <2>5, <2>6, <1>5 DEF Typed
<1>7. Rests(c')
  BY <1>1, <1>5, <1>6 DEF Rests
<1>8. Asked(a) /\ a.ended = FALSE /\ "ended" \in DOMAIN a
  BY DEF Asked, Fault, Good, PageOk, AppOk
<1> HIDE DEF a
<1>9. PageOk(app')
  BY <1>1, <1>8, SamePage
<1>10. app'.inQos = app.inQos /\ app'.arrived = app.arrived /\ app'.ended = FALSE
  BY <1>1, <1>8 DEF Asked
<1>11. Attached' /\ Ended'
  BY <1>1, <1>5, <1>10 DEF Attached, Ended
<1>12. Dialled'
  BY <1>1, <1>4, <1>5 DEF Good, Dialled, Dials
<1>13. BrokerOk(b') /\ Booked'
  BY <1>1, <1>10 DEF Good, Booked
<1>14. OnTheWay'
  <2>1. \A n \in InMsgs : Kept(r, n) => Kept(c.received, n)
    BY GoodHas DEF Typed, Backs, Kept, r
  <2>2. ASSUME NEW T, Ledger(c.received, T, app.arrived, b.flow), NEW U, DOMAIN U = {}
        PROVE  Ledger(r, U, app.arrived, b.flow)
    <3>1. Later(T, U, 0) /\ 0 \in Nat
      BY <2>2 DEF Later
    <3> QED BY <2>1, <2>2, <3>1, LedgerLess
  <2>3. c'.received = r /\ b'.flow = b.flow /\ c'.socket # "open" /\ toClient' = <<>>
    BY <1>1, <1>5
  <2> QED BY <2>2, <2>3, <1>10, OnTheWayNone
<1> QED BY <1>7, <1>9, <1>11, <1>12, <1>13, <1>14 DEF Good

(***************************************************************************)
(* The broker's steps.                                                     *)
(***************************************************************************)
WholeTag(P, m) == [bytes |-> P, msg |-> m, part |-> "whole", at |-> 0]

LEMMA WholeTagIs ==
  ASSUME NEW P, NEW m, Carries(P, m), Arriving(m)
  PROVE  /\ Tag(WholeTag(P, m)) /\ Chunk(WholeTag(P, m)) = P /\ WholeTag(P, m).part = "whole"
         /\ WholeTag(P, m).msg = m /\ P \in Bytewise
<1> DEFINE t == WholeTag(P, m)
<1>1. t.bytes = P /\ t.msg = m /\ t.part = "whole" /\ t.at = 0
  BY DEF WholeTag
<1> HIDE DEF t
<1>2. P \in Bytewise /\ 0 \in 0 .. Len(P) - 1
  BY DEF Carries, Packet, Bytewise
<1>3. Tag(t)
  BY <1>1, <1>2 DEF Tag
<1>4. Chunk(t) = P
  BY <1>1 DEF Chunk
<1> QED BY <1>1, <1>2, <1>3, <1>4 DEF t

LEMMA CarriedNext ==
  ASSUME app'.inQos = app.inQos, NEW T, NEW cl, c' = cl, NEW chunks, toClient' = chunks, Carried(cl, chunks, T)
  PROVE  Carried(c, toClient, T)'
<1> DEFINE n == Len(chunks)
<1>1. Tagged(T, n)
  BY DEF Carried
<1> HIDE DEF n
<1>2. Tagged(T, n)'
  BY <1>1, TaggedNext
<1> QED BY <1>2 DEF Carried, AckFirst, n

\* The client's first message leaves.
LEMMA HeadLeaves ==
  ASSUME Good, c.out # <<>>, c' = [c EXCEPT !.out = Tail(@)]
  PROVE  /\ Rests(c') /\ Changes(c, c', {"out"}) /\ Head(c.out) = c.out[1] /\ Writes(Head(c.out))
         /\ Dials(c, 1) <=> Head(c.out).type = 1
         /\ \A p : Dials(c', p) => Dials(c, p + 1) /\ p \in Nat \ {0}
<1> DEFINE rest == Tail(c.out)
<1>0. Writing(c.out) /\ Listed(c.out) /\ DOMAIN c = Fields
  BY GoodHas DEF Typed, Writing
<1>1. /\ Listed(rest) /\ Len(rest) = Len(c.out) - 1 /\ Head(c.out) = c.out[1]
      /\ \A i \in 1 .. Len(c.out) - 1 : rest[i] = c.out[i + 1]
      /\ DOMAIN rest = 1 .. Len(c.out) - 1 /\ DOMAIN c.out = 1 .. Len(c.out) /\ Len(c.out) \in Nat \ {0}
  BY <1>0, ListedTail
<1> HIDE DEF rest
<1>2. c' = [c EXCEPT !.out = rest]
  BY Zenon DEF rest
<1>3. Changes(c, c', {"out"}) /\ c'.out = rest
  BY <1>0, <1>2 DEF Changes, Fields
<1>4. Writing(rest)
  BY <1>0, <1>1 DEF Writing
<1>5. Typed(c')
  BY <1>3, <1>4, GoodHas DEF Typed, Changes, Fields
<1>6. Rests(c')
  BY <1>3, <1>5 DEF Good, Rests, Changes, Fields
<1>7. 1 \in DOMAIN c.out
  BY <1>1
<1>8. \A p : Dials(c', p) => Dials(c, p + 1) /\ p \in Nat \ {0}
  BY <1>1, <1>3 DEF Dials
<1> QED BY <1>0, <1>1, <1>3, <1>6, <1>7, <1>8 DEF Dials, Writing

\* A packet of an open flow, repeated.
Again(f, n) ==
  IF f[n] = "published" THEN Publish(InId[n], app.inQos, TRUE, FALSE, Topic, <<n>>) ELSE WithId("PUBREL", InId[n])

LEMMA InIdIs ==
  ASSUME NEW n \in InMsgs
  PROVE  InId[n] \in Identifiers /\ InId[n] \in Nat /\ InId[n] # NoId /\ Short(InId[n]) = InId[n] /\ n \in Nat
<1>1. InId[n] \in Identifiers /\ n \in 0 .. 255
  BY PahoAssumption
<1>2. InId[n] \in Nat /\ InId[n] # NoId
  BY <1>1, IdentifiersAre
<1>3. Short(InId[n]) = InId[n]
  BY <1>1, ShortIs
<1> QED BY <1>1, <1>2, <1>3

IsPublish(m, i, q, n) == m.type = 3 /\ m.id = i /\ m.qos = q /\ Inbound(m, n) /\ m.payload = <<n>>

LEMMA PublishHas ==
  ASSUME NEW i, NEW q, NEW u, NEW n
  PROVE  IsPublish(Publish(i, q, u, FALSE, Topic, <<n>>), i, q, n)
<1> DEFINE w == <<n>>
           m == Publish(i, q, u, FALSE, Topic, w)
<1> HIDE DEF w
<1>1. m.type = 3 /\ m.id = i /\ m.qos = q /\ m.payload = w /\ m.destinationName = Topic
      /\ DOMAIN m = {"type", "id", "qos", "duplicate", "retained", "destinationName", "payload"}
  BY Codes DEF Publish
<1>2. m # NoMessage
  <2>1. DOMAIN <<>> = {}
    OBVIOUS
  <2> HIDE DEF m
  <2> QED BY <1>1, <2>1, Zenon DEF NoMessage
<1> QED BY <1>1, <1>2, Codes DEF Inbound, IsPublish, w

LEMMA AckHas == \A t, i : Ack(t, i).type = t /\ Ack(t, i).id = i
BY DEF Ack

LEMMA AgainIs ==
  ASSUME Good, NEW f, NEW n \in InMsgs, Open(f, n), app.inQos # 0
  PROVE  /\ Carries(Bytes(Again(f, n)), Again(f, n)) /\ Arriving(Again(f, n))
         /\ f[n] = "published" => Again(f, n).type = 3 /\ Again(f, n).payload = <<n>>
         /\ f[n] = "released" => Again(f, n).type = 6 /\ Again(f, n).id = InId[n]
<1> DEFINE i == InId[n]
           P == Publish(i, app.inQos, TRUE, FALSE, Topic, <<n>>)
<1>1. i \in Identifiers /\ i \in Nat /\ i # NoId /\ Short(i) = i /\ n \in Nat
  BY InIdIs
<1>2. app.inQos \in 0 .. 2 /\ (i = NoId <=> app.inQos = 0)
  BY <1>1 DEF Good, PageOk, AppOk
<1>3. CASE f[n] = "published"
  <2>1. Again(f, n) = P
    BY <1>3, Zenon DEF Again
  <2>2. Carries(Bytes(P), P)
    <3>1. TRUE \in BOOLEAN
      OBVIOUS
    <3> HIDE DEF i
    <3> QED BY <3>1, <1>1, <1>2, PublishCarried, Zenon
  <2>0. IsPublish(P, i, app.inQos, n)
    BY PublishHas, Zenon
  <2> HIDE DEF P
  <2>3. P.type = 3 /\ P.id = i /\ P.qos = app.inQos /\ Inbound(P, n) /\ P.payload = <<n>>
    BY <2>0 DEF IsPublish
  <2>4. Arriving(P)
    BY <1>1, <2>3 DEF Arriving
  <2> QED BY <1>3, <2>1, <2>2, <2>3, <2>4
<1>4. CASE f[n] = "released"
  <2>1. Again(f, n) = Ack(6, i)
    <3>1. f[n] # "published"
      BY <1>4
    <3> QED BY <3>1, Codes, Zenon DEF Again, WithId, Ack
  <2>2. Carries(Bytes(Ack(6, i)), Ack(6, i))
    <3>1. 6 \in {4, 5, 6, 7, 11}
      OBVIOUS
    <3> HIDE DEF i
    <3>2. Carries(Bytes(Ack(6, i)), Ack(6, Short(i)))
      BY <3>1, <1>1, AckCarried
    <3> QED BY <3>2, <1>1
  <2>3. Ack(6, i).type = 6 /\ Ack(6, i).id = i
    BY AckHas
  <2>4. Arriving(Ack(6, i))
    BY <1>1, <2>3 DEF Arriving
  <2> QED BY <1>4, <2>1, <2>2, <2>3, <2>4
<1> QED BY <1>3, <1>4 DEF Open

Chained(s, t, u) ==
  /\ Listed(u) /\ Len(u) = Len(s) + Len(t) /\ DOMAIN u = 1 .. Len(s) + Len(t)
  /\ \A i \in 1 .. Len(s) : u[i] = s[i]
  /\ \A i \in 1 .. Len(t) : u[Len(s) + i] = t[i]

LEMMA ListedJoin ==
  ASSUME NEW s, Listed(s), NEW t, Listed(t)
  PROVE  Chained(s, t, s \o t)
<1> DEFINE u == s \o t
<1>1. PICK S : s \in Seq(S)
  BY DEF Listed
<1>2. PICK T : t \in Seq(T)
  BY DEF Listed
<1> DEFINE V == S \cup T
<1>3. S \subseteq V /\ T \subseteq V
  OBVIOUS
<1> HIDE DEF V
<1>4. s \in Seq(V)
  BY <1>1, <1>3, Widens, Zenon
<1>5. t \in Seq(V)
  BY <1>2, <1>3, Widens, Zenon
<1>6. /\ u \in Seq(V) /\ Len(u) = Len(s) + Len(t)
      /\ \A i \in 1 .. Len(s) + Len(t) : u[i] = IF i <= Len(s) THEN s[i] ELSE t[i - Len(s)]
  BY <1>4, <1>5, ConcatProperties, Zenon
<1>7. Len(s) \in Nat /\ Len(t) \in Nat
  BY <1>4, <1>5
<1> HIDE DEF u
<1>8. Listed(u) /\ DOMAIN u = 1 .. Len(u)
  BY <1>6, ListedIs DEF Listed
<1>9. \A i \in 1 .. Len(s) : u[i] = s[i]
  BY <1>6, <1>7
<1>10. ASSUME NEW i \in 1 .. Len(t) PROVE u[Len(s) + i] = t[i]
  <2>1. Len(s) + i \in 1 .. Len(s) + Len(t) /\ ~(Len(s) + i <= Len(s)) /\ (Len(s) + i) - Len(s) = i
    BY <1>7
  <2> QED BY <1>6, <2>1
<1>11. Chained(s, t, u)
  BY <1>6, <1>8, <1>9, <1>10 DEF Chained
<1> QED BY <1>11 DEF u

IsSingle(s, x) == Listed(s) /\ Len(s) = 1 /\ s[1] = x
LEMMA SingleIs == \A x : IsSingle(<<x>>, x)
<1> TAKE x
<1>1. <<x>> \in Seq({x}) /\ Len(<<x>>) = 1 /\ <<x>>[1] = x
  OBVIOUS
<1>2. Listed(<<x>>)
  BY <1>1, Zenon DEF Listed
<1> QED BY <1>1, <1>2 DEF IsSingle

IsPair(s, x, y) == Listed(s) /\ Len(s) = 2 /\ s[1] = x /\ s[2] = y
LEMMA PairIs == \A x, y : IsPair(<<x, y>>, x, y)
<1> TAKE x, y
<1>1. <<x, y>> \in Seq({x, y}) /\ Len(<<x, y>>) = 2 /\ <<x, y>>[1] = x /\ <<x, y>>[2] = y
  OBVIOUS
<1>2. Listed(<<x, y>>)
  BY <1>1, Zenon DEF Listed
<1> QED BY <1>1, <1>2 DEF IsPair

\* The broker's first words on a connection: its acknowledgement, then the open
\* flows once more.
Line(chunks, A, f, K, who) ==
  /\ Listed(chunks) /\ K \in Nat /\ Len(chunks) = K + 1 /\ chunks[1] = A
  /\ \A k \in 1 .. K : who[k] \in InMsgs /\ Open(f, who[k]) /\ chunks[k + 1] = Bytes(Again(f, who[k]))
  /\ \A j, k \in 1 .. K : who[j] = who[k] => j = k

LEMMA OpenFinite ==
  ASSUME NEW S, S \subseteq InMsgs
  PROVE  IsFiniteSet(S) /\ \A n \in S : n \in Nat
<1>1. InMsgs \subseteq 0 .. 255
  BY PahoAssumption
<1>2. IsFiniteSet(0 .. 255)
  <2> DEFINE top == 255
  <2>1. 0 \in Int /\ top \in Int
    OBVIOUS
  <2> HIDE DEF top
  <2>2. IsFiniteSet(0 .. top)
    BY <2>1, FS_Interval
  <2> QED BY <2>2 DEF top
<1>3. IsFiniteSet(S)
  BY <1>1, <1>2, FS_Subset
<1> QED BY <1>1, <1>3

LEMMA RepeatsIs ==
  ASSUME Good, NEW f, app.inQos = 0 => \A n \in InMsgs : f[n] \in {"idle", "done"}, NEW A
  PROVE  \E K, who : Line(<<A>> \o Repeats(f), A, f, K, who)
<1> DEFINE S   == {n \in InMsgs : f[n] \in {"published", "released"}}
           who == Ascending(S)
           R   == Repeats(f)
           K   == Cardinality(S)
           h   == <<A>>
           u   == h \o R
<1>1. R = [k \in DOMAIN who |-> Bytes(Again(f, who[k]))]
  BY Zenon DEF Repeats, Again
<1>2. IsFiniteSet(S) /\ \A n \in S : n \in Nat
  <2>1. S \subseteq InMsgs
    OBVIOUS
  <2> QED BY <2>1, OpenFinite
<1>3. \A n \in S : n \in InMsgs /\ Open(f, n)
  BY DEF Open
<1> HIDE DEF S, R
<1>4. /\ K \in Nat /\ DOMAIN who = 1 .. K
      /\ \A k \in 1 .. K : who[k] \in S
      /\ \A j, k \in 1 .. K : who[j] = who[k] => j = k
  BY <1>2, AscendingIs, Zenon
<1> HIDE DEF who, K
<1>5. \A n \in S : Bytes(Again(f, n)) \in Bytewise
  <2> SUFFICES ASSUME NEW n \in S PROVE Bytes(Again(f, n)) \in Bytewise
    OBVIOUS
  <2>1. n \in InMsgs /\ Open(f, n) /\ app.inQos # 0
    BY <1>3 DEF Open
  <2>2. Carries(Bytes(Again(f, n)), Again(f, n))
    BY <2>1, AgainIs, Zenon
  <2> QED BY <2>2 DEF Carries, Packet
<1>6. Listed(R) /\ Len(R) = K /\ \A k \in 1 .. K : R[k] = Bytes(Again(f, who[k]))
  <2> DEFINE B == Bytewise
             v == [k \in 1 .. K |-> Bytes(Again(f, who[k]))]
  <2>1. R = v
    BY <1>1, <1>4
  <2>2. \A k \in 1 .. K : Bytes(Again(f, who[k])) \in B
    BY <1>4, <1>5
  <2> HIDE DEF B
  <2>3. v \in [1 .. K -> B]
    BY <2>2
  <2>4. \A k \in 1 .. K : v[k] = Bytes(Again(f, who[k]))
    OBVIOUS
  <2> HIDE DEF v
  <2>5. v \in Seq(B) /\ Len(v) = K
    BY <1>4, <2>3
  <2> QED BY <2>1, <2>4, <2>5, Zenon DEF Listed
<1>7. IsSingle(h, A)
  BY SingleIs, Zenon
<1> HIDE DEF h
<1>8. Chained(h, R, u)
  BY <1>6, <1>7, ListedJoin DEF IsSingle
<1> HIDE DEF u
<1>9. ASSUME NEW k \in 1 .. K PROVE u[k + 1] = Bytes(Again(f, who[k]))
  <2>1. u[1 + k] = R[k] /\ 1 + k = k + 1
    BY <1>4, <1>6, <1>7, <1>8 DEF Chained, IsSingle
  <2> QED BY <1>6, <2>1
<1>10. Listed(u) /\ Len(u) = K + 1 /\ u[1] = A
  BY <1>4, <1>6, <1>7, <1>8 DEF Chained, IsSingle
<1>11. Line(u, A, f, K, who)
  BY <1>3, <1>4, <1>9, <1>10 DEF Line
<1> QED BY <1>11, Zenon DEF u, h, R

LEMMA SameSingle == \A x, y : <<x>> = <<y>> => x = y
OBVIOUS

LEMMA LineGood ==
  ASSUME Good, NEW f \in [InMsgs -> Stages], app.inQos = 0 => \A n \in InMsgs : f[n] \in {"idle", "done"},
         \A k \in InMsgs : f[k] = b.flow[k] \/ (b.flow[k] # "idle" /\ f[k] = "done"),
         NEW x \in {0, 1}, NEW chunks, NEW K, NEW who,
         Line(chunks, Bytes([type |-> Code("CONNACK"), returnCode |-> x]), f, K, who),
         NEW cl, ~cl.connected, cl.buffer = <<>>
  PROVE  \E U : /\ Carried(cl, chunks, U) /\ (app.inQos = 2 => Ledger(c.received, U, app.arrived, f))
                /\ \A i \in DOMAIN U : U[i].msg.type \in {2, 3, 6}
<1> DEFINE A == Bytes([type |-> Code("CONNACK"), returnCode |-> x])
           H == WholeTag(A, Connack(x))
           M(k) == Again(f, who[k])
           W(k) == WholeTag(Bytes(M(k)), M(k))
           U == [i \in 1 .. K + 1 |-> IF i = 1 THEN H ELSE W(i - 1)]
           w == [i \in 2 .. K + 1 |-> who[i - 1]]
<1>1. Carries(A, Connack(x)) /\ Connack(x).type = 2 /\ Connack(x).id = 0
  <2>1. Carries(A, Connack(x))
    BY ConnackCarried, Zenon
  <2>2. Connack(x).type = 2 /\ Connack(x).id = 0
    BY DEF Connack, NoId
  <2> QED BY <2>1, <2>2
<1>2. /\ Listed(chunks) /\ K \in Nat /\ Len(chunks) = K + 1 /\ chunks[1] = A
      /\ \A k \in 1 .. K : who[k] \in InMsgs /\ Open(f, who[k]) /\ chunks[k + 1] = Bytes(M(k))
      /\ \A j, k \in 1 .. K : who[j] = who[k] => j = k
  BY DEF Line
<1> HIDE DEF A
<1>3. Tag(H) /\ Chunk(H) = A /\ H.part = "whole" /\ H.msg = Connack(x)
  <2> DEFINE m == Connack(x)
  <2>1. Carries(A, m) /\ m.type = 2 /\ m.id = 0
    BY <1>1
  <2> HIDE DEF m
  <2>2. Arriving(m)
    BY <2>1 DEF Arriving
  <2>3. /\ Tag(WholeTag(A, m)) /\ Chunk(WholeTag(A, m)) = A /\ WholeTag(A, m).part = "whole"
        /\ WholeTag(A, m).msg = m
    BY <2>1, <2>2, WholeTagIs
  <2> QED BY <2>3 DEF m
<1>4. ASSUME NEW k \in 1 .. K
      PROVE  /\ Tag(W(k)) /\ Chunk(W(k)) = chunks[k + 1] /\ W(k).part = "whole" /\ W(k).msg = M(k)
             /\ f[who[k]] = "published" => M(k).type = 3 /\ M(k).payload = <<who[k]>>
             /\ f[who[k]] = "released" => M(k).type = 6 /\ M(k).id = InId[who[k]]
  <2>1. who[k] \in InMsgs /\ Open(f, who[k]) /\ app.inQos # 0 /\ chunks[k + 1] = Bytes(M(k))
    BY <1>2 DEF Open
  <2>2. /\ Carries(Bytes(M(k)), M(k)) /\ Arriving(M(k))
        /\ f[who[k]] = "published" => M(k).type = 3 /\ M(k).payload = <<who[k]>>
        /\ f[who[k]] = "released" => M(k).type = 6 /\ M(k).id = InId[who[k]]
    BY <2>1, AgainIs, Zenon
  <2> DEFINE m == M(k)
             P == Bytes(m)
  <2>3. Carries(P, m) /\ Arriving(m)
    BY <2>2
  <2> HIDE DEF m, P
  <2>4. Tag(WholeTag(P, m)) /\ Chunk(WholeTag(P, m)) = P /\ WholeTag(P, m).part = "whole" /\ WholeTag(P, m).msg = m
    BY <2>3, WholeTagIs
  <2> QED BY <2>1, <2>2, <2>4 DEF m, P
<1>5. /\ DOMAIN U = 1 .. K + 1 /\ U[1] = H /\ \A i \in 1 .. K + 1 : i # 1 => U[i] = W(i - 1) /\ i - 1 \in 1 .. K
  <2> HIDE DEF H, W
  <2> QED BY <1>2
<1> HIDE DEF U, H, W, M
<1>6. ASSUME NEW i \in 1 .. K + 1, i # 1
      PROVE  /\ U[i] = W(i - 1) /\ Tag(U[i]) /\ Chunk(U[i]) = chunks[i] /\ U[i].part = "whole" /\ U[i].msg = M(i - 1)
             /\ w[i] = who[i - 1] /\ w[i] \in InMsgs /\ Open(f, w[i])
             /\ f[w[i]] = "published" => U[i].msg.type = 3 /\ U[i].msg.payload = <<w[i]>>
             /\ f[w[i]] = "released" => U[i].msg.type = 6 /\ U[i].msg.id = InId[w[i]]
  <2>1. i - 1 \in 1 .. K /\ U[i] = W(i - 1) /\ (i - 1) + 1 = i /\ i \in 2 .. K + 1
    BY <1>2, <1>5, <1>6
  <2>2. w[i] = who[i - 1]
    BY <2>1
  <2> DEFINE k == i - 1
  <2>3. k \in 1 .. K /\ U[i] = W(k) /\ k + 1 = i /\ w[i] = who[k]
    BY <2>1, <2>2
  <2> HIDE DEF k, w
  <2>4. /\ U[i] = W(k) /\ Tag(U[i]) /\ Chunk(U[i]) = chunks[i] /\ U[i].part = "whole" /\ U[i].msg = M(k)
        /\ w[i] = who[k] /\ w[i] \in InMsgs /\ Open(f, w[i])
        /\ f[w[i]] = "published" => U[i].msg.type = 3 /\ U[i].msg.payload = <<w[i]>>
        /\ f[w[i]] = "released" => U[i].msg.type = 6 /\ U[i].msg.id = InId[w[i]]
    BY <2>3, <1>2, <1>4, Zenon
  <2> QED BY <2>4 DEF k
<1>7. ASSUME NEW i \in 1 .. K + 1, NEW j \in 1 .. K + 1, i # 1, j # 1, w[i] = w[j]
      PROVE  i = j
  <2>1. i - 1 \in 1 .. K /\ j - 1 \in 1 .. K /\ w[i] = who[i - 1] /\ w[j] = who[j - 1]
    BY <1>5, <1>6, <1>7
  <2>2. i - 1 = j - 1
    <3> HIDE DEF w
    <3> QED BY <2>1, <1>2, <1>7, Zenon
  <2> QED BY <2>2
<1> HIDE DEF w
<1>8. \A i \in 1 .. K + 1 : Tag(U[i]) /\ Chunk(U[i]) = chunks[i] /\ U[i].part = "whole"
  BY <1>2, <1>3, <1>5, <1>6
<1>9. DOMAIN chunks = 1 .. K + 1 /\ K + 1 \in Nat /\ DOMAIN U \subseteq Nat \ {0}
  BY <1>2, <1>5, ListedIs
<1>10. Tagged(U, Len(chunks))
  BY <1>2, <1>5, <1>8, <1>9 DEF Tagged, Chain
<1>11. ASSUME NEW i \in 1 .. K + 1, i # 1
       PROVE  U[i].msg.type # 2 /\ f[w[i]] \in {"published", "released"}
  BY <1>6, <1>11 DEF Open
<1>12. AckFirst(cl, U)
  BY <1>5, <1>11 DEF AckFirst
<1>13. Link(cl.buffer, U, Len(chunks))
  <2>1. 1 \in 1 .. K + 1
    BY <1>2
  <2>2. U[1].part # "second"
    BY <1>8, <2>1
  <2> QED BY <2>2 DEF Link
<1>14. Carried(cl, chunks, U)
  BY <1>2, <1>8, <1>9, <1>10, <1>12, <1>13 DEF Carried
<1>15. ASSUME app.inQos = 2 PROVE Ledger(c.received, U, app.arrived, f)
  <2>1. PICK T : Ledger(c.received, T, app.arrived, b.flow)
    BY <1>15 DEF Good, OnTheWay
  <2>2. \A i \in DOMAIN U \ {1} : w[i] \in InMsgs
    BY <1>5, <1>6
  <2>3. U[1].msg.type = 2
    BY <1>1, <1>3, <1>5
  <2>4. ASSUME NEW i, NEW k, Pub(U, i, k) PROVE i # 1 /\ k = w[i] /\ f[w[i]] = "published"
    <3>1. i \in 1 .. K + 1 /\ i # 1 /\ U[i].msg.type = 3 /\ U[i].msg.payload = <<k>>
      BY <2>3, <2>4, <1>5 DEF Pub, Pending
    <3>2. f[w[i]] = "published" /\ U[i].msg.payload = <<w[i]>>
      BY <3>1, <1>6, <1>11
    <3> QED BY <3>1, <3>2, SameSingle
  <2>5. ASSUME NEW i, NEW k, Rel(U, i, k) PROVE i # 1 /\ k = InId[w[i]] /\ f[w[i]] = "released"
    <3>1. i \in 1 .. K + 1 /\ i # 1 /\ U[i].msg.type = 6 /\ U[i].msg.id = k
      BY <2>3, <2>5, <1>5 DEF Rel, Pending
    <3> QED BY <3>1, <1>6, <1>11
  <2>6. \A i, j \in DOMAIN U \ {1} : w[i] = w[j] => i = j
    BY <1>5, <1>7
  <2> QED BY <2>1, <2>2, <2>4, <2>5, <2>6, <1>9, LedgerResume
<1>16. \A i \in DOMAIN U : U[i].msg.type \in {2, 3, 6}
  <2>1. U[1].msg.type = 2
    BY <1>1, <1>3, <1>5
  <2>2. ASSUME NEW i \in 1 .. K + 1, i # 1 PROVE U[i].msg.type \in {3, 6}
    BY <2>2, <1>6, <1>11
  <2> QED BY <2>1, <2>2, <1>5
<1> QED BY <1>14, <1>15, <1>16

\* The broker takes the CONNECT.
LEMMA FreshGood ==
  ASSUME Good, c.out # <<>>, Head(c.out).type = 1, c' = [c EXCEPT !.out = Tail(@)],
         Asked(app'), app'.ended = app.ended,
         BrokerOk(b'), app.inQos = 0 => \A n \in InMsgs : b'.flow[n] \in {"idle", "done"},
         \A k \in InMsgs : b'.flow[k] = b.flow[k] \/ (b.flow[k] # "idle" /\ b'.flow[k] = "done"),
         NEW x \in {0, 1}, NEW chunks, NEW K, NEW who,
         Line(chunks, Bytes([type |-> Code("CONNACK"), returnCode |-> x]), b'.flow, K, who),
         toClient' = IF c.socket = "open" THEN chunks ELSE <<>>
  PROVE  Good'
<1>1. /\ Rests(c') /\ Changes(c, c', {"out"}) /\ Dials(c, 1)
      /\ \A p : Dials(c', p) => Dials(c, p + 1) /\ p \in Nat \ {0}
  BY HeadLeaves
<1>2. /\ c'.socket = c.socket /\ c'.connected = c.connected /\ c'.hostIndex = c.hostIndex /\ c'.buffer = c.buffer
      /\ c'.received = c.received /\ c'.connectTimer = c.connectTimer
      /\ c'.sendPinger = c.sendPinger /\ c'.receivePinger = c.receivePinger
  BY <1>1 DEF Changes, Fields
<1>3. \A p : ~Dials(c', p)
  <2> SUFFICES ASSUME NEW p, Dials(c', p) PROVE FALSE
    OBVIOUS
  <2>1. p + 1 = 1 /\ p \in Nat \ {0}
    BY <1>1 DEF Good, Dialled
  <2> QED BY <2>1
<1>4. c.socket # "connecting" /\ (c.socket = "open" => ~c.connected /\ c.buffer = <<>>)
  BY <1>1 DEF Good, Dialled
<1>5. /\ app'.uris = app.uris /\ app'.inQos = app.inQos /\ app'.arrived = app.arrived /\ DOMAIN app' = DOMAIN app
      /\ "ended" \in DOMAIN app'
  BY DEF Asked, Good, PageOk
<1>6. PageOk(app')
  BY <1>5, SamePage
<1>7. Booked'
  BY <1>5 DEF Booked
<1>8. Attached'
  <2>1. c'.connected => Up(c)'
    BY <1>2, <1>5, GoodHas DEF Up
  <2> QED BY <2>1, <1>2, <1>4 DEF Attached
<1>9. Dialled'
  BY <1>3 DEF Dialled
<1>10. Ended'
  BY <1>2, GoodHas DEF Ended, Gone
<1> DEFINE f == b'.flow
<1>11. f \in [InMsgs -> Stages]
  BY DEF BrokerOk
<1>12. OnTheWay'
  <2>1. CASE c.socket = "open"
    <3>1. PICK U : Carried(c', chunks, U) /\ (app.inQos = 2 => Ledger(c.received, U, app.arrived, f))
      <4> DEFINE d == c'
      <4>1. ~d.connected /\ d.buffer = <<>>
        BY <1>2, <1>4, <2>1
      <4> HIDE DEF d, f
      <4>2. app.inQos = 0 => \A n \in InMsgs : f[n] \in {"idle", "done"}
        BY DEF f
      <4>3. \A k \in InMsgs : f[k] = b.flow[k] \/ (b.flow[k] # "idle" /\ f[k] = "done")
        BY DEF f
      <4>4. Line(chunks, Bytes([type |-> Code("CONNACK"), returnCode |-> x]), f, K, who)
        BY DEF f
      <4>5. \E U : Carried(d, chunks, U) /\ (app.inQos = 2 => Ledger(c.received, U, app.arrived, f))
        BY <4>1, <4>2, <4>3, <4>4, <1>11, LineGood
      <4> QED BY <4>5 DEF d
    <3>2. toClient' = chunks
      BY <2>1
    <3>3. Carried(c, toClient, U)'
      <4> DEFINE d == c'
      <4>1. Carried(d, chunks, U)
        BY <3>1
      <4>2. c' = d
        OBVIOUS
      <4> HIDE DEF d
      <4> QED BY <4>1, <4>2, <3>2, <1>5, CarriedNext
    <3> QED BY <3>1, <3>3, <1>2, <1>5 DEF OnTheWay
  <2>2. CASE c.socket # "open"
    <3>1. ASSUME app.inQos = 2, NEW T, Ledger(c.received, T, app.arrived, b.flow), NEW U, DOMAIN U = {}
          PROVE  Ledger(c'.received, U, app.arrived, f)
      <4>1. \A i, k : ~Pub(U, i, k) /\ ~Rel(U, i, k)
        BY <3>1 DEF Pub, Rel, Pending
      <4>2. DOMAIN U \subseteq Nat \ {0} /\ (\A i \in DOMAIN U \ {1} : U[i] \in InMsgs)
            /\ \A i, j \in DOMAIN U \ {1} : U[i] = U[j] => i = j
        BY <3>1
      <4> HIDE DEF f
      <4>3. \A k \in InMsgs : f[k] = b.flow[k] \/ (b.flow[k] # "idle" /\ f[k] = "done")
        BY DEF f
      <4>4. Ledger(c.received, U, app.arrived, f)
        BY <3>1, <4>1, <4>2, <4>3, <1>11, LedgerResume
      <4> QED BY <4>4, <1>2
    <3>2. toClient' = <<>> /\ c'.socket # "open"
      BY <2>2, <1>2
    <3> QED BY <3>1, <3>2, <1>5, OnTheWayNone
  <2> QED BY <2>1, <2>2
<1> QED BY <1>1, <1>6, <1>7, <1>8, <1>9, <1>10, <1>12 DEF Good

LEMMA BrokerAcceptsGood ==
  ASSUME Good, BrokerAccepts
  PROVE  Good'
<1> DEFINE fl == [n \in InMsgs |-> IF b.flow[n] = "idle" THEN "idle" ELSE "done"]
           kept == IF app.clean
                   THEN [b EXCEPT !.subscribed = FALSE, !.holding = NoEntries, !.flow = fl]
                   ELSE b
           A(x) == Bytes([type |-> Code("CONNACK"), returnCode |-> x])
           s == <<A(0)>> \o Repeats(kept.flow)
           t == <<A(1)>>
<1>1. /\ c.out # <<>> /\ Head(c.out).type = Code("CONNECT")
      /\ c' = [c EXCEPT !.out = Tail(@)]
      /\ \/ /\ b' = [kept EXCEPT !.link = TRUE]
            /\ toClient' = IF c.socket = "open" THEN s ELSE <<>>
            /\ app' = app
         \/ /\ app' = Fault(app)
            /\ b' = [b EXCEPT !.link = FALSE]
            /\ toClient' = IF c.socket = "open" THEN t ELSE <<>>
  BY Zenon DEF BrokerAccepts
<1>2. Head(c.out).type = 1
  BY <1>1, Codes
<1>3. BrokerOk(b) /\ DOMAIN b = BrokerFields /\ b.flow \in [InMsgs -> Stages]
      /\ (app.inQos = 0 => \A n \in InMsgs : b.flow[n] \in {"idle", "done"})
  BY DEF Good, BrokerOk, Booked
<1>4. /\ fl \in [InMsgs -> Stages]
      /\ \A k \in InMsgs : fl[k] \in {"idle", "done"} /\ (fl[k] = b.flow[k] \/ (b.flow[k] # "idle" /\ fl[k] = "done"))
  BY DEF Stages
<1> HIDE DEF fl
<1>5. /\ DOMAIN kept = BrokerFields /\ kept.link \in BOOLEAN
      /\ kept.flow = fl \/ kept.flow = b.flow
  BY <1>3 DEF BrokerFields, BrokerOk
<1> HIDE DEF kept
<1> DEFINE f == kept.flow
<1>6. /\ f \in [InMsgs -> Stages] /\ (app.inQos = 0 => \A n \in InMsgs : f[n] \in {"idle", "done"})
      /\ \A k \in InMsgs : f[k] = b.flow[k] \/ (b.flow[k] # "idle" /\ f[k] = "done")
  BY <1>3, <1>4, <1>5
<1> HIDE DEF f
<1>7. CASE b' = [kept EXCEPT !.link = TRUE] /\ toClient' = (IF c.socket = "open" THEN s ELSE <<>>) /\ app' = app
  <2>1. DOMAIN b' = BrokerFields /\ b'.link = TRUE /\ b'.flow = f
    BY <1>5, <1>7 DEF BrokerFields, f
  <2>2. BrokerOk(b')
    BY <2>1, <1>6 DEF BrokerOk
  <2>3. \E K, who : Line(s, A(0), f, K, who)
    <3>1. \A x : \E K, who : Line(<<x>> \o Repeats(f), x, f, K, who)
      BY <1>6, RepeatsIs
    <3> QED BY <3>1, Zenon DEF f
  <2>4. Asked(app') /\ app'.ended = app.ended
    BY <1>7 DEF Asked
  <2> HIDE DEF s
  <2>5. PICK K, who : Line(s, Bytes([type |-> Code("CONNACK"), returnCode |-> 0]), b'.flow, K, who)
    BY <2>1, <2>3, Zenon
  <2>6. 0 \in {0, 1} /\ toClient' = IF c.socket = "open" THEN s ELSE <<>>
    BY <1>7
  <2>7. /\ app.inQos = 0 => \A n \in InMsgs : b'.flow[n] \in {"idle", "done"}
        /\ \A k \in InMsgs : b'.flow[k] = b.flow[k] \/ (b.flow[k] # "idle" /\ b'.flow[k] = "done")
    BY <1>6, <2>1
  <2> QED BY <1>1, <1>2, <2>2, <2>4, <2>5, <2>6, <2>7, FreshGood, Zenon
<1>8. CASE b' = [b EXCEPT !.link = FALSE] /\ toClient' = (IF c.socket = "open" THEN t ELSE <<>>) /\ app' = Fault(app)
  <2>1. DOMAIN b' = BrokerFields /\ b'.link = FALSE /\ b'.flow = b.flow
    BY <1>3, <1>8 DEF BrokerFields
  <2>2. BrokerOk(b')
    BY <2>1, <1>3 DEF BrokerOk
  <2>3. Line(t, A(1), b.flow, 0, <<>>)
    <3> DEFINE x == A(1)
               g == b.flow
    <3> HIDE DEF x, g
    <3>1. IsSingle(<<x>>, x)
      BY SingleIs
    <3> DEFINE y == <<x>>
    <3>2. IsSingle(y, x)
      BY <3>1
    <3> HIDE DEF y
    <3>3. \A who : Line(y, x, g, 0, who)
      BY <3>2 DEF Line, IsSingle
    <3> QED BY <3>3, Zenon DEF x, y, g
  <2>4. Asked(app') /\ app'.ended = app.ended
    BY <1>8 DEF Asked, Fault, Good, PageOk, AppOk
  <2> HIDE DEF t
  <2>5. PICK K, who : Line(t, Bytes([type |-> Code("CONNACK"), returnCode |-> 1]), b'.flow, K, who)
    BY <2>1, <2>3, Zenon
  <2>6. 1 \in {0, 1} /\ toClient' = IF c.socket = "open" THEN t ELSE <<>>
    BY <1>8
  <2>7. /\ app.inQos = 0 => \A n \in InMsgs : b'.flow[n] \in {"idle", "done"}
        /\ \A k \in InMsgs : b'.flow[k] = b.flow[k] \/ (b.flow[k] # "idle" /\ b'.flow[k] = "done")
    BY <1>3, <2>1
  <2> QED BY <1>1, <1>2, <2>2, <2>4, <2>5, <2>6, <2>7, FreshGood, Zenon
<1> QED BY <1>1, <1>7, <1>8

\* A packet of m in one chunk or two.
Splits(more, P) ==
  \/ IsSingle(more, P)
  \/ \E k \in 0 .. Len(P) - 1 : IsPair(more, First(P, k), Second(P, k))

\* More is on its way: of m, and behind the rest if in one chunk.
Lengthens(T, U, m) == \A i \in DOMAIN U : (i \in DOMAIN T /\ U[i] = T[i]) \/ U[i].msg = m
Follows(T, U, m) ==
  \E n \in Nat : /\ DOMAIN T = 1 .. n /\ DOMAIN U = 1 .. n + 1 /\ \A i \in 1 .. n : U[i] = T[i]
                 /\ U[n + 1].part = "whole" /\ U[n + 1].msg = m

LEMMA MoreCarried ==
  ASSUME NEW cl, NEW chunks, NEW T, Carried(cl, chunks, T),
         NEW P, NEW m, Carries(P, m), Arriving(m), m.type # 2, NEW more, Splits(more, P),
         NEW d, d.connected = cl.connected, d.buffer = cl.buffer, d.socket = cl.socket
  PROVE  \E U, p : /\ Carried(d, chunks \o more, U) /\ Adds(T, U, p) /\ p \in DOMAIN U
                   /\ U[p].msg = m /\ U[p].part # "first" /\ Lengthens(T, U, m)
                   /\ IsSingle(more, P) => Follows(T, U, m)
<1> DEFINE n == Len(chunks)
           V == chunks \o more
<1>1. /\ Listed(chunks) /\ Tagged(T, n) /\ (\A i \in DOMAIN chunks : chunks[i] = Chunk(T[i]))
      /\ AckFirst(cl, T) /\ (cl.socket = "open" => Link(cl.buffer, T, n))
  BY DEF Carried
<1>2. n \in Nat /\ DOMAIN T = 1 .. n /\ DOMAIN chunks = 1 .. n /\ (\A i \in 1 .. n : Tag(T[i])) /\ Chain(T)
  BY <1>1, ListedIs DEF Tagged
<1> HIDE DEF n
<1>3. Listed(more)
  BY DEF Splits, IsSingle, IsPair
<1>4. Chained(chunks, more, V)
  BY <1>1, <1>3, ListedJoin
<1> HIDE DEF V
<1>5. P \in Bytewise /\ Len(P) \in Nat /\ Len(P) >= 2
  BY DEF Carries, Packet, Bytewise
<1>6. CASE IsSingle(more, P)
  <2> DEFINE t == WholeTag(P, m)
             U == [i \in 1 .. n + 1 |-> IF i = n + 1 THEN t ELSE T[i]]
  <2>1. Tag(t) /\ Chunk(t) = P /\ t.part = "whole" /\ t.msg = m
    BY WholeTagIs
  <2> HIDE DEF t
  <2>2. /\ DOMAIN U = 1 .. n + 1 /\ U[n + 1] = t /\ n + 1 \in 1 .. n + 1
        /\ \A i \in 1 .. n : U[i] = T[i] /\ i \in 1 .. n + 1 /\ i # n + 1
        /\ \A i \in 1 .. n + 1 : i = n + 1 \/ i \in 1 .. n
    BY <1>2
  <2> HIDE DEF U
  <2>3. /\ Listed(V) /\ Len(V) = n + 1 /\ DOMAIN V = 1 .. n + 1
        /\ V[n + 1] = P /\ \A i \in 1 .. n : V[i] = chunks[i]
    <3>1. Len(more) = 1 /\ more[1] = P /\ 1 \in 1 .. Len(more)
      BY <1>6 DEF IsSingle
    <3> QED BY <3>1, <1>4 DEF Chained, n
  <2>4. \A i \in 1 .. n + 1 : Tag(U[i]) /\ V[i] = Chunk(U[i])
    BY <2>1, <2>2, <2>3, <1>1, <1>2
  <2>5. Chain(U)
    <3>1. ASSUME NEW i \in 1 .. n + 1, U[i].part = "first"
          PROVE  /\ i + 1 \in DOMAIN U /\ U[i + 1].part = "second"
                 /\ U[i + 1].bytes = U[i].bytes /\ U[i + 1].msg = U[i].msg /\ U[i + 1].at = U[i].at
      <4>1. i \in 1 .. n /\ U[i] = T[i]
        BY <2>1, <2>2, <3>1
      <4>2. i + 1 \in 1 .. n
        BY <4>1, <3>1, <1>2 DEF Chain
      <4>3. U[i + 1] = T[i + 1] /\ i + 1 \in DOMAIN U
        BY <4>2, <2>2
      <4>4. /\ T[i + 1].part = "second" /\ T[i + 1].bytes = T[i].bytes
            /\ T[i + 1].msg = T[i].msg /\ T[i + 1].at = T[i].at
        <5>1. i \in DOMAIN T /\ T[i].part = "first" /\ Chain(T)
          BY <4>1, <3>1, <1>2
        <5> QED BY <5>1, Zenon DEF Chain
      <4> QED BY <4>1, <4>3, <4>4, Zenon
    <3>2. ASSUME NEW i \in 1 .. n + 1, U[i].part = "second", i # 1
          PROVE  U[i - 1].part = "first"
      <4>1. i \in 1 .. n /\ U[i] = T[i]
        BY <2>1, <2>2, <3>2
      <4>2. i - 1 \in 1 .. n
        BY <4>1, <3>2, <1>2
      <4>3. U[i - 1] = T[i - 1]
        BY <4>2, <2>2
      <4> QED BY <4>1, <4>3, <3>2, <1>2 DEF Chain
    <3> QED BY <3>1, <3>2, <2>2 DEF Chain
  <2>6. Tagged(U, Len(V))
    <3>1. n + 1 \in Nat
      BY <1>2
    <3> QED BY <3>1, <2>2, <2>3, <2>4, <2>5 DEF Tagged
  <2>7. AckFirst(d, U)
    BY <2>1, <2>2, <1>1, <1>2 DEF AckFirst
  <2>8. d.socket = "open" => Link(d.buffer, U, Len(V))
    <3>1. CASE n > 0
      <4>1. 1 \in 1 .. n /\ U[1] = T[1] /\ n + 1 > 0
        BY <3>1, <1>2, <2>2
      <4> QED BY <4>1, <3>1, <2>3, <1>1 DEF Link
    <3>2. CASE n = 0
      <4>1. U[1].part = "whole" /\ n + 1 = 1 /\ ~(n > 0)
        BY <3>2, <2>1, <2>2
      <4> QED BY <4>1, <2>3, <1>1 DEF Link
    <3> QED BY <3>1, <3>2, <1>2
  <2>9. Carried(d, V, U)
    BY <2>3, <2>4, <2>6, <2>7, <2>8 DEF Carried
  <2>10. Adds(T, U, n + 1)
    <3>1. DOMAIN U \subseteq Nat \ {0} /\ n + 1 \in Nat /\ \A i \in DOMAIN T : i < n + 1
      BY <1>2, <2>2
    <3>2. \A i \in DOMAIN U : i # n + 1 => i \in DOMAIN T /\ U[i] = T[i]
      BY <1>2, <2>2
    <3> QED BY <3>1, <3>2 DEF Adds
  <2>11. n + 1 \in DOMAIN U /\ U[n + 1].msg = m /\ U[n + 1].part # "first"
    BY <2>1, <2>2
  <2>12. Lengthens(T, U, m) /\ Follows(T, U, m)
    <3>1. n \in Nat /\ DOMAIN T = 1 .. n /\ DOMAIN U = 1 .. n + 1 /\ U[n + 1].part = "whole"
      BY <1>2, <2>1, <2>2
    <3>2. Follows(T, U, m)
      BY <3>1, <2>2, <2>11 DEF Follows
    <3>3. Lengthens(T, U, m)
      BY <3>1, <2>2, <2>11 DEF Lengthens
    <3> QED BY <3>2, <3>3
  <2> QED BY <2>9, <2>10, <2>11, <2>12 DEF V
<1>7. ASSUME NEW k \in 0 .. Len(P) - 1, IsPair(more, First(P, k), Second(P, k))
      PROVE  \E U, p : /\ Carried(d, chunks \o more, U) /\ Adds(T, U, p) /\ p \in DOMAIN U
                       /\ U[p].msg = m /\ U[p].part # "first" /\ Lengthens(T, U, m)
                       /\ IsSingle(more, P) => Follows(T, U, m)
  <2> DEFINE t == [bytes |-> P, msg |-> m, part |-> "first", at |-> k]
             s == [bytes |-> P, msg |-> m, part |-> "second", at |-> k]
             U == [i \in 1 .. n + 2 |-> IF i = n + 1 THEN t ELSE IF i = n + 2 THEN s ELSE T[i]]
  <2>1. /\ t.bytes = P /\ t.msg = m /\ t.part = "first" /\ t.at = k
        /\ s.bytes = P /\ s.msg = m /\ s.part = "second" /\ s.at = k
    OBVIOUS
  <2> HIDE DEF t, s
  <2>2. Tag(t) /\ Chunk(t) = First(P, k) /\ Tag(s) /\ Chunk(s) = Second(P, k)
    BY <2>1 DEF Tag, Chunk
  <2>3. /\ DOMAIN U = 1 .. n + 2 /\ U[n + 1] = t /\ U[n + 2] = s
        /\ n + 1 \in 1 .. n + 2 /\ n + 2 \in 1 .. n + 2 /\ n + 1 # n + 2 /\ (n + 1) + 1 = n + 2 /\ (n + 2) - 1 = n + 1
        /\ \A i \in 1 .. n : U[i] = T[i] /\ i \in 1 .. n + 2 /\ i # n + 1 /\ i # n + 2
        /\ \A i \in 1 .. n + 2 : i = n + 1 \/ i = n + 2 \/ i \in 1 .. n
    BY <1>2
  <2> HIDE DEF U
  <2>4. /\ Listed(V) /\ Len(V) = n + 2 /\ DOMAIN V = 1 .. n + 2
        /\ V[n + 1] = First(P, k) /\ V[n + 2] = Second(P, k) /\ \A i \in 1 .. n : V[i] = chunks[i]
    <3>1. Len(more) = 2 /\ more[1] = First(P, k) /\ more[2] = Second(P, k) /\ 1 \in 1 .. Len(more) /\ 2 \in 1 .. Len(more)
      BY <1>7 DEF IsPair
    <3> QED BY <3>1, <1>4 DEF Chained, n
  <2>5. \A i \in 1 .. n + 2 : Tag(U[i]) /\ V[i] = Chunk(U[i])
    BY <2>2, <2>3, <2>4, <1>1, <1>2
  <2>6. Chain(U)
    <3>1. ASSUME NEW i \in 1 .. n + 2, U[i].part = "first"
          PROVE  /\ i + 1 \in DOMAIN U /\ U[i + 1].part = "second"
                 /\ U[i + 1].bytes = U[i].bytes /\ U[i + 1].msg = U[i].msg /\ U[i + 1].at = U[i].at
      <4>1. CASE i \in 1 .. n
        <5>1. U[i] = T[i] /\ i + 1 \in 1 .. n
          BY <4>1, <3>1, <2>3, <1>2 DEF Chain
        <5>2. U[i + 1] = T[i + 1] /\ i + 1 \in DOMAIN U
          BY <5>1, <2>3
        <5> QED BY <4>1, <5>1, <5>2, <3>1, <1>2 DEF Chain
      <4>2. CASE i = n + 1
        BY <4>2, <2>1, <2>3
      <4>3. i # n + 2
        BY <3>1, <2>1, <2>3
      <4> QED BY <4>1, <4>2, <4>3, <2>3
    <3>2. ASSUME NEW i \in 1 .. n + 2, U[i].part = "second", i # 1
          PROVE  U[i - 1].part = "first"
      <4>1. CASE i \in 1 .. n
        <5>1. U[i] = T[i] /\ i - 1 \in 1 .. n
          BY <4>1, <3>2, <2>3, <1>2
        <5>2. U[i - 1] = T[i - 1]
          BY <5>1, <2>3
        <5> QED BY <4>1, <5>1, <5>2, <3>2, <1>2 DEF Chain
      <4>2. CASE i = n + 2
        BY <4>2, <2>1, <2>3
      <4>3. i # n + 1
        BY <3>2, <2>1, <2>3
      <4> QED BY <4>1, <4>2, <4>3, <2>3
    <3> QED BY <3>1, <3>2, <2>3 DEF Chain
  <2>7. Tagged(U, Len(V))
    <3>1. n + 2 \in Nat
      BY <1>2
    <3> QED BY <3>1, <2>3, <2>4, <2>5, <2>6 DEF Tagged
  <2>8. AckFirst(d, U)
    BY <2>1, <2>3, <1>1, <1>2 DEF AckFirst
  <2>9. d.socket = "open" => Link(d.buffer, U, Len(V))
    <3>1. CASE n > 0
      <4>1. 1 \in 1 .. n /\ U[1] = T[1] /\ n + 2 > 0
        BY <3>1, <1>2, <2>3
      <4> QED BY <4>1, <3>1, <2>4, <1>1 DEF Link
    <3>2. CASE n = 0
      <4>1. U[1].part = "first" /\ n + 1 = 1 /\ ~(n > 0)
        BY <3>2, <2>1, <2>3
      <4> QED BY <4>1, <2>4, <1>1 DEF Link
    <3> QED BY <3>1, <3>2, <1>2
  <2>10. Carried(d, V, U)
    BY <2>4, <2>5, <2>7, <2>8, <2>9 DEF Carried
  <2>11. Adds(T, U, n + 2)
    <3>1. DOMAIN U \subseteq Nat \ {0} /\ n + 2 \in Nat /\ \A i \in DOMAIN T : i < n + 2
      BY <1>2, <2>3
    <3>2. \A i \in DOMAIN U : i # n + 2 /\ Pending(U, i) => i \in DOMAIN T /\ U[i] = T[i]
      BY <1>2, <2>1, <2>3 DEF Pending
    <3> QED BY <3>1, <3>2 DEF Adds
  <2>12. n + 2 \in DOMAIN U /\ U[n + 2].msg = m /\ U[n + 2].part # "first"
    BY <2>1, <2>3
  <2>13. Lengthens(T, U, m)
    BY <1>2, <2>1, <2>3 DEF Lengthens
  <2>14. ~IsSingle(more, P)
    <3>1. Len(more) = 2
      BY <1>7 DEF IsPair
    <3> QED BY <3>1 DEF IsSingle
  <2> QED BY <2>10, <2>11, <2>12, <2>13, <2>14 DEF V
<1> QED BY <1>6, <1>7 DEF Splits

LEMMA ChunksSplit ==
  ASSUME NEW m, NEW P, Bytes(m) = P, P \in Bytewise, NEW more \in Chunks(m)
  PROVE  Splits(more, P) /\ (m.type # 3 => IsSingle(more, P))
<1>1. \/ more = <<P>>
      \/ \E k \in Cuts : m.type = 3 /\ k < Len(P) /\ more = <<First(P, k), Second(P, k)>>
  BY Codes, Zenon DEF Chunks, First, Second
<1>2. IsSingle(<<P>>, P) /\ \A k : IsPair(<<First(P, k), Second(P, k)>>, First(P, k), Second(P, k))
  BY SingleIs, PairIs, Zenon
<1>3. Cuts \subseteq Nat /\ Len(P) \in Nat
  BY PahoAssumption DEF Bytewise
<1>4. ASSUME NEW k \in Cuts, k < Len(P) PROVE k \in 0 .. Len(P) - 1
  BY <1>3, <1>4
<1>5. \/ IsSingle(more, P)
      \/ m.type = 3 /\ \E k \in 0 .. Len(P) - 1 : IsPair(more, First(P, k), Second(P, k))
  BY <1>1, <1>2, <1>4, Zenon
<1> QED BY <1>5 DEF Splits

\* What a message does to the broker's flows.
Stepped(f, g, id, stage, next) ==
  \A k \in InMsgs : g[k] = IF InId[k] = id /\ f[k] = stage THEN next ELSE f[k]
FlowAfter(g, m) ==
  /\ g \in [InMsgs -> Stages]
  /\ m.type = 4 => Stepped(b.flow, g, m.id, "published", "done")
  /\ m.type = 5 => Stepped(b.flow, g, m.id, "published", "released")
  /\ m.type = 7 => Stepped(b.flow, g, m.id, "released", "done")
  /\ m.type \notin {4, 5, 7} => g = b.flow

LEMMA AdvanceIs ==
  ASSUME BrokerOk(b), NEW id, NEW stage, NEW next \in Stages
  PROVE  LET e == Advance(id, stage, next)
         IN /\ DOMAIN e = BrokerFields /\ e.link = b.link /\ e.flow \in [InMsgs -> Stages]
            /\ Stepped(b.flow, e.flow, id, stage, next)
<1> DEFINE g == [n \in InMsgs |-> IF n \in InMsgOf(id, stage) THEN next ELSE b.flow[n]]
           e == Advance(id, stage, next)
<1>1. e = [b EXCEPT !.flow = g]
  BY Zenon DEF Advance
<1>2. \A n \in InMsgs : n \in InMsgOf(id, stage) <=> InId[n] = id /\ b.flow[n] = stage
  BY Zenon DEF InMsgOf
<1>3. g \in [InMsgs -> Stages] /\ \A n \in InMsgs : g[n] = IF n \in InMsgOf(id, stage) THEN next ELSE b.flow[n]
  BY DEF BrokerOk
<1> HIDE DEF g, e
<1>4. Stepped(b.flow, g, id, stage, next)
  BY <1>2, <1>3 DEF Stepped
<1>5. DOMAIN e = BrokerFields /\ e.link = b.link /\ e.flow = g
  BY <1>1 DEF BrokerOk, BrokerFields
<1> QED BY <1>3, <1>4, <1>5 DEF e

LEMMA StateIs ==
  ASSUME BrokerOk(b), NEW m, m.type \in Nat, m.type # 1
  PROVE  LET e == BrokerState(m)
         IN DOMAIN e = BrokerFields /\ e.link \in BOOLEAN /\ (b.link = FALSE => e.link = FALSE) /\ FlowAfter(e.flow, m)
<1> DEFINE e    == BrokerState(m)
           got  == [b.got EXCEPT ![m.payload[1]] = @ + 1]
           held == IF m.qos = 2 THEN Put(b.holding, m.id, m.payload[1]) ELSE b.holding
           p1   == [b EXCEPT !.got = got, !.holding = held]
           less == Drop(b.holding, m.id)
           p2   == [b EXCEPT !.holding = less]
           p3   == [b EXCEPT !.subscribed = TRUE]
           p4   == [b EXCEPT !.subscribed = FALSE]
           p5   == [b EXCEPT !.link = FALSE]
           a1   == Advance(m.id, "published", "done")
           a2   == Advance(m.id, "published", "released")
           a3   == Advance(m.id, "released", "done")
           t    == m.type
<1>1. e = CASE t = Code("PUBLISH") -> IF m.qos = 2 /\ m.id \in DOMAIN b.holding THEN b ELSE p1
            [] t = Code("PUBREL") -> p2
            [] t = Code("PUBACK") -> a1
            [] t = Code("PUBREC") -> a2
            [] t = Code("PUBCOMP") -> a3
            [] t = Code("SUBSCRIBE") -> p3
            [] t = Code("UNSUBSCRIBE") -> p4
            [] t = Code("DISCONNECT") -> p5
            [] OTHER -> b
  BY Zenon DEF BrokerState
<1>2. DOMAIN b = BrokerFields /\ b.link \in BOOLEAN /\ b.flow \in [InMsgs -> Stages]
  BY DEF BrokerOk
<1> HIDE DEF got, held, less
<1>3. /\ DOMAIN p1 = BrokerFields /\ p1.link = b.link /\ p1.flow = b.flow
      /\ DOMAIN p2 = BrokerFields /\ p2.link = b.link /\ p2.flow = b.flow
      /\ DOMAIN p3 = BrokerFields /\ p3.link = b.link /\ p3.flow = b.flow
      /\ DOMAIN p4 = BrokerFields /\ p4.link = b.link /\ p4.flow = b.flow
      /\ DOMAIN p5 = BrokerFields /\ p5.link = FALSE /\ p5.flow = b.flow
  BY <1>2 DEF BrokerFields
<1>4. /\ DOMAIN a1 = BrokerFields /\ a1.link = b.link /\ a1.flow \in [InMsgs -> Stages]
      /\ Stepped(b.flow, a1.flow, m.id, "published", "done")
  <2>1. "done" \in Stages
    BY DEF Stages
  <2> QED BY <2>1, AdvanceIs, Zenon
<1>5. /\ DOMAIN a2 = BrokerFields /\ a2.link = b.link /\ a2.flow \in [InMsgs -> Stages]
      /\ Stepped(b.flow, a2.flow, m.id, "published", "released")
  <2>1. "released" \in Stages
    BY DEF Stages
  <2> QED BY <2>1, AdvanceIs, Zenon
<1>6. /\ DOMAIN a3 = BrokerFields /\ a3.link = b.link /\ a3.flow \in [InMsgs -> Stages]
      /\ Stepped(b.flow, a3.flow, m.id, "released", "done")
  <2>1. "done" \in Stages
    BY DEF Stages
  <2> QED BY <2>1, AdvanceIs, Zenon
<1> HIDE DEF p1, p2, p3, p4, p5, a1, a2, a3, e
<1>7. /\ t = 4 => e = a1
      /\ t = 5 => e = a2
      /\ t = 7 => e = a3
      /\ t \notin {4, 5, 7} => e \in {b, p1, p2, p3, p4, p5}
  <2> HIDE DEF t
  <2>1. /\ t = 4 => e = a1
        /\ t = 5 => e = a2
        /\ t = 7 => e = a3
    BY <1>1, Codes
  <2>2. t \notin {4, 5, 7} => e \in {b, p1, p2, p3, p4, p5}
    BY <1>1, Codes
  <2> QED BY <2>1, <2>2
<1>8. CASE t = 4
  BY <1>2, <1>4, <1>7, <1>8 DEF FlowAfter, e
<1>9. CASE t = 5
  BY <1>2, <1>5, <1>7, <1>9 DEF FlowAfter, e
<1>10. CASE t = 7
  BY <1>2, <1>6, <1>7, <1>10 DEF FlowAfter, e
<1>11. CASE t \notin {4, 5, 7}
  <2>1. DOMAIN e = BrokerFields /\ e.flow = b.flow /\ (e.link = b.link \/ e.link = FALSE)
    BY <1>2, <1>3, <1>7, <1>11
  <2> QED BY <2>1, <1>2, <1>11 DEF FlowAfter, e
<1> QED BY <1>8, <1>9, <1>10, <1>11

\* What the broker answers, and what the client will read.
AnswerType(m, t) ==
  \/ m.type = 3 /\ <<m.qos, t>> \in {<<1, 4>>, <<2, 5>>}
  \/ <<m.type, t>> \in {<<6, 7>>, <<5, 6>>, <<8, 9>>, <<10, 11>>, <<12, 13>>}
Replied(m, r) == AnswerType(m, r.type) /\ (m.id \in Identifiers /\ r.type # 13 => r.id = m.id)
AnswerTo(m, a) ==
  \E r : /\ Carries(Bytes(a), r) /\ Arriving(r) /\ r.type \notin {2, 3} /\ a.type # 3
         /\ r.type = 6 => m.type = 5 /\ r.id = m.id
         /\ Replied(m, r)

LEMMA AckAnswers ==
  ASSUME NEW m, NEW t \in {4, 5, 6, 7, 11}, NEW id \in Nat, id # NoId, id = m.id, AnswerType(m, t),
         t = 6 => m.type = 5 /\ id \in Identifiers
  PROVE  AnswerTo(m, Ack(t, id))
<1> DEFINE a == Ack(t, id)
           i == Short(id)
           r == Ack(t, i)
<1>1. Carries(Bytes(a), r)
  BY AckCarried, Zenon
<1>2. i \in Nat
  BY ShortNat
<1>3. t = 6 => i = m.id
  <2>1. t = 6 => i = id
    BY ShortIs
  <2> QED BY <2>1
<1> HIDE DEF i
<1>4. r.type = t /\ r.id = i /\ a.type = t
  BY DEF Ack
<1> HIDE DEF a, r
<1>5. Arriving(r) /\ r.type \notin {2, 3} /\ a.type # 3 /\ (r.type = 6 => m.type = 5 /\ r.id = m.id)
  BY <1>2, <1>3, <1>4 DEF Arriving
<1>6. Replied(m, r)
  <2>1. id \in Identifiers => i = id
    BY ShortIs DEF i
  <2> QED BY <2>1, <1>4 DEF Replied
<1>7. AnswerTo(m, a)
  BY <1>1, <1>5, <1>6, Zenon DEF AnswerTo
<1> QED BY <1>7 DEF a

LEMMA AnswerIs ==
  ASSUME NEW m, Asks(m), NEW s, s = BrokerAnswer(m)
  PROVE  s = <<>> \/ \E a : s = <<a>> /\ AnswerTo(m, a)
<1> DEFINE t  == m.type
           i  == m.id
           x  == m.requestedQos[1]
           sa == [type |-> Code("SUBACK"), id |-> i, returnCode |-> x]
<1>1. s = CASE t = Code("PUBLISH") /\ m.qos = 1 -> <<Ack(4, i)>>
            [] t = Code("PUBLISH") /\ m.qos = 2 -> <<Ack(5, i)>>
            [] t = Code("PUBREL") -> <<Ack(7, i)>>
            [] t = Code("PUBREC") -> <<Ack(6, i)>>
            [] t = Code("SUBSCRIBE") -> <<sa>>
            [] t = Code("UNSUBSCRIBE") -> <<Ack(11, i)>>
            [] t = Code("PINGREQ") -> <<Bare("PINGRESP")>>
            [] OTHER -> <<>>
  <2>1. /\ Answer("PUBACK", i) = Ack(4, i) /\ Answer("PUBREC", i) = Ack(5, i) /\ Answer("PUBCOMP", i) = Ack(7, i)
        /\ Answer("PUBREL", i) = Ack(6, i) /\ Answer("UNSUBACK", i) = Ack(11, i)
    BY Codes, Zenon DEF Answer, WithId, Ack
  <2> QED BY <2>1, Zenon DEF BrokerAnswer
<1>2. /\ t \in Nat /\ i \in Nat /\ (t = 3 /\ m.qos \in {1, 2} => i # NoId) /\ (t \in {6, 10} => i # NoId)
      /\ (t = 5 => i \in Identifiers) /\ (t = 8 => m.requestedQos[1] \in Nat)
  BY DEF Asks, Writes
<1>3. t = 5 => i # NoId
  BY <1>2, IdentifiersAre
<1>4. t = 3 /\ m.qos = 1 => AnswerTo(m, Ack(4, i))
  <2> SUFFICES ASSUME t = 3, m.qos = 1 PROVE AnswerTo(m, Ack(4, i))
    OBVIOUS
  <2>1. AnswerType(m, 4)
    BY DEF AnswerType
  <2>2. i \in Nat /\ i # NoId /\ i = m.id
    BY <1>2
  <2> QED BY <2>1, <2>2, AckAnswers
<1>5. t = 3 /\ m.qos = 2 => AnswerTo(m, Ack(5, i))
  <2>1. t = 3 /\ m.qos = 2 => AnswerType(m, 5)
    BY DEF AnswerType
  <2> QED BY <2>1, <1>2, AckAnswers
<1>6. t = 6 => AnswerTo(m, Ack(7, i))
  <2>1. t = 6 => AnswerType(m, 7)
    BY DEF AnswerType
  <2> QED BY <2>1, <1>2, AckAnswers
<1>7. t = 5 => AnswerTo(m, Ack(6, i))
  <2>1. t = 5 => AnswerType(m, 6)
    BY DEF AnswerType
  <2> QED BY <2>1, <1>2, <1>3, AckAnswers
<1>8. t = 10 => AnswerTo(m, Ack(11, i))
  <2>1. t = 10 => AnswerType(m, 11)
    BY DEF AnswerType
  <2> QED BY <2>1, <1>2, AckAnswers
<1>9. t = 8 => AnswerTo(m, sa)
  <2> DEFINE r == Suback(i, x)
  <2> SUFFICES ASSUME t = 8 PROVE AnswerTo(m, sa)
    OBVIOUS
  <2>1. x \in Nat
    BY <1>2
  <2>2. Carries(Bytes(sa), r)
    <3> HIDE DEF x
    <3> QED BY <2>1, <1>2, SubackCarried, Zenon
  <2>3. r.type = 9 /\ r.id = i /\ sa.type = 9
    BY Codes DEF Suback
  <2> HIDE DEF r, sa
  <2>4. Arriving(r) /\ r.type \notin {2, 3} /\ sa.type # 3 /\ r.type # 6
    BY <2>3, <1>2 DEF Arriving
  <2>5. Replied(m, r)
    BY <2>3 DEF Replied, AnswerType
  <2> QED BY <2>2, <2>4, <2>5, Zenon DEF AnswerTo
<1>10. t = 12 => AnswerTo(m, Bare("PINGRESP"))
  <2> DEFINE a == Bare("PINGRESP")
             r == Ack(13, NoId)
  <2>1. Carries(Bytes(a), r)
    BY PingrespCarried
  <2>2. r.type = 13 /\ r.id = 0 /\ a.type = 13
    BY Codes DEF Ack, NoId, Bare
  <2> HIDE DEF a, r
  <2>3. Arriving(r) /\ r.type \notin {2, 3} /\ a.type # 3 /\ r.type # 6
    BY <2>2 DEF Arriving
  <2>4. t = 12 => Replied(m, r)
    BY <2>2 DEF Replied, AnswerType
  <2>5. t = 12 => AnswerTo(m, a)
    BY <2>1, <2>3, <2>4, Zenon DEF AnswerTo
  <2> QED BY <2>5 DEF a
<1> DEFINE P == s = <<>> \/ \E a : s = <<a>> /\ AnswerTo(m, a)
<1>11. /\ t = 3 /\ m.qos = 1 => P
       /\ t = 3 /\ m.qos = 2 => P
       /\ t = 6 => P
       /\ t = 5 => P
       /\ t = 8 => P
       /\ t = 10 => P
       /\ t = 12 => P
       /\ ~(t = 3 /\ m.qos = 1) /\ ~(t = 3 /\ m.qos = 2) /\ t \notin {6, 5, 8, 10, 12} => s = <<>>
  <2>1. /\ t = 3 /\ m.qos = 1 => s = <<Ack(4, i)>>
        /\ t = 3 /\ m.qos = 2 => s = <<Ack(5, i)>>
        /\ t = 6 => s = <<Ack(7, i)>>
        /\ t = 5 => s = <<Ack(6, i)>>
        /\ t = 8 => s = <<sa>>
        /\ t = 10 => s = <<Ack(11, i)>>
        /\ t = 12 => s = <<Bare("PINGRESP")>>
        /\ ~(t = 3 /\ m.qos = 1) /\ ~(t = 3 /\ m.qos = 2) /\ t \notin {6, 5, 8, 10, 12} => s = <<>>
    <3> DEFINE x4 == <<Ack(4, i)>>
               x5 == <<Ack(5, i)>>
               x7 == <<Ack(7, i)>>
               x6 == <<Ack(6, i)>>
               xa == <<sa>>
               x11 == <<Ack(11, i)>>
               xp == <<Bare("PINGRESP")>>
               q == m.qos
    <3> HIDE DEF x4, x5, x7, x6, xa, x11, xp, t, q
    <3>1. s = CASE t = Code("PUBLISH") /\ q = 1 -> x4
                [] t = Code("PUBLISH") /\ q = 2 -> x5
                [] t = Code("PUBREL") -> x7
                [] t = Code("PUBREC") -> x6
                [] t = Code("SUBSCRIBE") -> xa
                [] t = Code("UNSUBSCRIBE") -> x11
                [] t = Code("PINGREQ") -> xp
                [] OTHER -> <<>>
      BY <1>1 DEF x4, x5, x7, x6, xa, x11, xp, t, q
    <3>2. /\ t = 3 /\ q = 1 => s = x4
          /\ t = 3 /\ q = 2 => s = x5
          /\ t = 6 => s = x7
          /\ t = 5 => s = x6
          /\ t = 8 => s = xa
          /\ t = 10 => s = x11
          /\ t = 12 => s = xp
          /\ ~(t = 3 /\ q = 1) /\ ~(t = 3 /\ q = 2) /\ t \notin {6, 5, 8, 10, 12} => s = <<>>
      BY <3>1, Codes
    <3> QED BY <3>2 DEF x4, x5, x7, x6, xa, x11, xp, t, q
  <2> HIDE DEF sa
  <2> QED BY <2>1, <1>4, <1>5, <1>6, <1>7, <1>8, <1>9, <1>10, Zenon
<1>12. s = <<>> => P
  OBVIOUS
<1> DEFINE q == m.qos
           none == s = <<>>
<1> HIDE DEF P, t, none, q
<1>13. P
  <2>1. /\ t = 3 /\ q = 1 => P
        /\ t = 3 /\ q = 2 => P
        /\ t = 6 => P
        /\ t = 5 => P
        /\ t = 8 => P
        /\ t = 10 => P
        /\ t = 12 => P
        /\ ~(t = 3 /\ q = 1) /\ ~(t = 3 /\ q = 2) /\ t \notin {6, 5, 8, 10, 12} => none
    BY <1>11 DEF q, none
  <2>2. none => P
    BY <1>12 DEF none
  <2> QED BY <2>1, <2>2
<1> QED BY <1>13 DEF P

\* A step of the broker on a link that is up.
LEMMA LinkedGood ==
  ASSUME Good, b.link = TRUE, app' = app, Rests(c'),
         c'.socket = c.socket, c'.connected = c.connected, c'.hostIndex = c.hostIndex, c'.buffer = c.buffer,
         c'.received = c.received, c'.connectTimer = c.connectTimer,
         c'.sendPinger = c.sendPinger, c'.receivePinger = c.receivePinger,
         NEW l, \A p : Dials(c', p) => Dials(c, p + l) /\ p \in Nat, l \in {0, 1},
         BrokerOk(b'), app.inQos = 0 => \A n \in InMsgs : b'.flow[n] \in {"idle", "done"},
         c.socket # "open" => toClient' = toClient,
         \E T : /\ Carried(c', toClient', T)
                /\ app.inQos = 2 => Ledger(c.received, T, app.arrived, b'.flow)
  PROVE  Good'
<1>1. c.socket # "connecting"
  BY DEF Good, Attached
<1>2. Attached'
  <2>1. c'.connected => Up(c)'
    BY GoodHas DEF Up
  <2> QED BY <2>1, <1>1 DEF Good, Attached
<1>3. \A p : Dials(c', p) => c.socket # "open"
  BY DEF Good, Dialled
<1>4. \A p, q : Dials(c', p) /\ Dials(c', q) => p = q
  <2> SUFFICES ASSUME NEW p, NEW q, Dials(c', p), Dials(c', q) PROVE p = q
    OBVIOUS
  <2>1. p + l = q + l /\ p \in Nat /\ q \in Nat
    BY DEF Good, Dialled
  <2> QED BY <2>1
<1>5. Dialled'
  BY <1>1, <1>3, <1>4 DEF Dialled
<1>6. Ended' /\ Booked' /\ PageOk(app')
  BY DEF Good, Ended, Gone, Booked
<1>7. OnTheWay'
  <2>1. PICK T : /\ Carried(c', toClient', T)
                 /\ app.inQos = 2 => Ledger(c.received, T, app.arrived, b'.flow)
    OBVIOUS
  <2>2. Carried(c, toClient, T)'
    <3> DEFINE d == c'
               s == toClient'
    <3>1. c' = d /\ toClient' = s /\ Carried(d, s, T) /\ app'.inQos = app.inQos
      BY <2>1
    <3> HIDE DEF d, s
    <3> QED BY <3>1, CarriedNext
  <2> QED BY <2>1, <2>2 DEF OnTheWay
<1> QED BY <1>2, <1>5, <1>6, <1>7 DEF Good

LEMMA StepsOn ==
  ASSUME NEW f \in [InMsgs -> Stages], NEW g, NEW m, FlowAfter(g, m), b.flow = f
  PROVE  \A k \in InMsgs : /\ f[k] = "idle" <=> g[k] = "idle"
                           /\ Past(f, k) => Past(g, k)
                           /\ Open(g, k) => Open(f, k)
                           /\ m.type = 5 /\ InId[k] = m.id => f[k] = "idle" \/ Past(g, k)
                           /\ f[k] \in {"idle", "done"} => g[k] \in {"idle", "done"}
<1>1. CASE m.type = 4
  BY <1>1 DEF FlowAfter, Stepped, Past, Open, Stages
<1>2. CASE m.type = 5
  BY <1>2 DEF FlowAfter, Stepped, Past, Open, Stages
<1>3. CASE m.type = 7
  BY <1>3 DEF FlowAfter, Stepped, Past, Open, Stages
<1>4. CASE m.type \notin {4, 5, 7}
  BY <1>4 DEF FlowAfter
<1> QED BY <1>1, <1>2, <1>3, <1>4

LEMMA SameLedger ==
  ASSUME NEW r, NEW T, NEW h, NEW f, Ledger(r, T, h, f), NEW g, NEW m, FlowAfter(g, m), b.flow = f
  PROVE  Ledger(r, T, h, g)
<1>1. f \in [InMsgs -> Stages] /\ g \in [InMsgs -> Stages]
  BY DEF Ledger, FlowAfter
<1>2. \A k \in InMsgs : /\ f[k] = "idle" <=> g[k] = "idle"
                        /\ Past(f, k) => Past(g, k)
                        /\ Open(g, k) => Open(f, k)
  BY <1>1, StepsOn
<1>3. HandedOnce(r, T, h, g) /\ Published(r, T, g)
  BY <1>2 DEF Ledger, HandedOnce, Published
<1>4. ReleasedLast(r, T, g)
  BY <1>2 DEF Ledger, ReleasedLast
<1>5. ReleasedPast(T, g)
  BY <1>2 DEF Ledger, ReleasedPast
<1>6. OneOpen(g)
  BY <1>2 DEF Ledger, OneOpen
<1> QED BY <1>1, <1>3, <1>4, <1>5, <1>6 DEF Ledger

LEMMA BrokerTakesGood ==
  ASSUME Good, BrokerTakes
  PROVE  Good'
<1> DEFINE m == Head(c.out)
           s == BrokerAnswer(m)
           f == b.flow
           g == b'.flow
<1>1. /\ b.link /\ c.out # <<>> /\ m.type # Code("CONNECT")
      /\ c' = [c EXCEPT !.out = Tail(@)] /\ b' = BrokerState(m) /\ app' = app
      /\ (s # <<>> /\ c.socket = "open") => BrokerSends(s[1])
      /\ ~(s # <<>> /\ c.socket = "open") => toClient' = toClient
  BY Zenon DEF BrokerTakes
<1>2. /\ Rests(c') /\ Changes(c, c', {"out"}) /\ Writes(m)
      /\ \A p : Dials(c', p) => Dials(c, p + 1) /\ p \in Nat \ {0}
  BY <1>1, HeadLeaves, Zenon
<1>3. Asks(m) /\ m.type \in Nat /\ m.type # 1
  BY <1>1, <1>2, Codes DEF Asks, Writes
<1> HIDE DEF m
<1>4. BrokerOk(b) /\ b.link = TRUE /\ f \in [InMsgs -> Stages]
  BY <1>1 DEF Good, BrokerOk
<1>5. DOMAIN b' = BrokerFields /\ b'.link \in BOOLEAN /\ FlowAfter(g, m)
  BY <1>1, <1>3, <1>4, StateIs, Zenon
<1>6. BrokerOk(b')
  BY <1>5 DEF BrokerOk, FlowAfter
<1>7. \A k \in InMsgs : /\ f[k] = "idle" <=> g[k] = "idle"
                        /\ Past(f, k) => Past(g, k)
                        /\ Open(g, k) => Open(f, k)
                        /\ m.type = 5 /\ InId[k] = m.id => f[k] = "idle" \/ Past(g, k)
                        /\ f[k] \in {"idle", "done"} => g[k] \in {"idle", "done"}
  <2> HIDE DEF f, g
  <2>1. b.flow = f
    BY DEF f
  <2> QED BY <2>1, <1>4, <1>5, StepsOn
<1>8. app.inQos = 0 => \A n \in InMsgs : g[n] \in {"idle", "done"}
  BY <1>7 DEF Good, Booked
<1>9. /\ c'.socket = c.socket /\ c'.connected = c.connected /\ c'.hostIndex = c.hostIndex /\ c'.buffer = c.buffer
      /\ c'.received = c.received /\ c'.connectTimer = c.connectTimer
      /\ c'.sendPinger = c.sendPinger /\ c'.receivePinger = c.receivePinger
  BY <1>2 DEF Changes, Fields
<1>10. PICK T : Carried(c, toClient, T) /\ (app.inQos = 2 => Ledger(c.received, T, app.arrived, f))
  BY DEF Good, OnTheWay
<1>11. g \in [InMsgs -> Stages]
  BY <1>5 DEF FlowAfter
<1>12. \E U : /\ Carried(c', toClient', U)
              /\ app.inQos = 2 => Ledger(c.received, U, app.arrived, g)
  <2>1. CASE s # <<>> /\ c.socket = "open"
    <3>1. PICK a : s = <<a>> /\ AnswerTo(m, a)
      BY <1>3, <2>1, AnswerIs
    <3>2. s[1] = a
      BY <3>1
    <3>3. PICK r : /\ Carries(Bytes(a), r) /\ Arriving(r) /\ r.type \notin {2, 3} /\ a.type # 3
                   /\ r.type = 6 => m.type = 5 /\ r.id = m.id
      BY <3>1 DEF AnswerTo
    <3>4. PICK more \in Chunks(a) : toClient' = toClient \o more
      BY <1>1, <2>1, <3>2, Zenon DEF BrokerSends
    <3> DEFINE P == Bytes(a)
    <3>5. Bytes(a) = P /\ P \in Bytewise /\ Carries(P, r)
      BY <3>3 DEF Carries, Packet
    <3> HIDE DEF P
    <3>6. Splits(more, P)
      BY <3>5, ChunksSplit
    <3>7. PICK U, p : /\ Carried(c', toClient \o more, U) /\ Adds(T, U, p) /\ p \in DOMAIN U
                      /\ U[p].msg = r /\ U[p].part # "first"
      <4> DEFINE d == c'
      <4>1. d.connected = c.connected /\ d.buffer = c.buffer /\ d.socket = c.socket
        BY <1>9
      <4> HIDE DEF d
      <4>2. r.type # 2
        BY <3>3
      <4>3. \E U, p : /\ Carried(d, toClient \o more, U) /\ Adds(T, U, p) /\ p \in DOMAIN U
                      /\ U[p].msg = r /\ U[p].part # "first"
        BY <4>1, <4>2, <3>3, <3>5, <3>6, <1>10, MoreCarried
      <4> QED BY <4>3 DEF d
    <3>8. ASSUME app.inQos = 2 PROVE Ledger(c.received, U, app.arrived, g)
      <4>1. \A k : ~Pub(U, p, k)
        BY <3>3, <3>7 DEF Pub
      <4>2. \A k : Rel(U, p, k) => m.type = 5 /\ k = m.id
        BY <3>3, <3>7 DEF Rel
      <4>3. Ledger(c.received, T, app.arrived, f)
        BY <1>10, <3>8
      <4> HIDE DEF f, g
      <4>4. \A k \in InMsgs : /\ f[k] = "idle" <=> g[k] = "idle"
                              /\ Past(f, k) => Past(g, k)
                              /\ Open(g, k) => Open(f, k)
                              /\ Rel(U, p, InId[k]) => f[k] = "idle" \/ Past(g, k)
        BY <4>2, <1>7
      <4> QED BY <4>1, <4>3, <4>4, <3>7, <1>11, LedgerAdvance
    <3> QED BY <3>4, <3>7, <3>8
  <2>2. CASE ~(s # <<>> /\ c.socket = "open")
    <3>1. toClient' = toClient
      BY <1>1, <2>2
    <3>2. Carried(c', toClient', T)
      BY <3>1, <1>9, <1>10 DEF Carried, AckFirst
    <3>3. app.inQos = 2 => Ledger(c.received, T, app.arrived, g)
      <4> HIDE DEF f, g
      <4>1. b.flow = f
        BY DEF f
      <4> QED BY <4>1, <1>5, <1>10, SameLedger
    <3> QED BY <3>2, <3>3
  <2> QED BY <2>1, <2>2
<1>13. 1 \in {0, 1} /\ \A p : Dials(c', p) => Dials(c, p + 1) /\ p \in Nat
  BY <1>2
<1>14. c.socket # "open" => toClient' = toClient
  BY <1>1
<1> QED BY <1>1, <1>2, <1>4, <1>6, <1>8, <1>9, <1>12, <1>13, <1>14, LinkedGood

LEMMA BrokerPublishesGood ==
  ASSUME Good, NEW n \in InMsgs, BrokerPublishes(n)
  PROVE  Good'
<1> DEFINE i == IF app.inQos = 0 THEN NoId ELSE InId[n]
           q == app.inQos
           m == Publish(i, q, FALSE, FALSE, Topic, <<n>>)
           f == b.flow
           x == IF app.inQos = 0 THEN "done" ELSE "published"
           g == [f EXCEPT ![n] = x]
<1>1. /\ b.link /\ c.socket = "open" /\ f[n] = "idle"
      /\ InMsgOf(InId[n], "published") \cup InMsgOf(InId[n], "released") = {}
      /\ b' = [b EXCEPT !.flow[n] = x] /\ BrokerSends(m) /\ c' = c /\ app' = app
  BY Zenon DEF BrokerPublishes
<1>2. \A k \in InMsgs : InId[k] = InId[n] => ~Open(f, k)
  <2>1. InMsgOf(InId[n], "published") = {} /\ InMsgOf(InId[n], "released") = {}
    BY <1>1
  <2>2. \A k \in InMsgs : InId[k] = InId[n] => f[k] # "published" /\ f[k] # "released"
    BY <2>1, Zenon DEF InMsgOf
  <2> QED BY <2>2 DEF Open
<1>3. b.link = TRUE /\ f \in [InMsgs -> Stages] /\ DOMAIN b = BrokerFields /\ q \in 0 .. 2
  BY <1>1 DEF Good, BrokerOk, PageOk, AppOk
<1>4. b' = [b EXCEPT !.flow = g]
  BY <1>1, Zenon
<1>5. /\ g \in [InMsgs -> Stages] /\ g[n] = x /\ \A k \in InMsgs : k # n => g[k] = f[k]
  BY <1>3 DEF Stages
<1> HIDE DEF g
<1>6. DOMAIN b' = BrokerFields /\ b'.link = b.link /\ b'.flow = g
  BY <1>3, <1>4 DEF BrokerFields
<1>7. BrokerOk(b')
  BY <1>3, <1>5, <1>6 DEF BrokerOk
<1>8. app.inQos = 0 => \A k \in InMsgs : b'.flow[k] \in {"idle", "done"}
  BY <1>5, <1>6 DEF Good, Booked
<1>9. /\ InId[n] \in Identifiers /\ InId[n] \in Nat /\ InId[n] # NoId /\ Short(InId[n]) = InId[n] /\ n \in Nat
  BY InIdIs
<1>10. i \in Nat /\ Short(i) = i /\ (i = NoId <=> q = 0) /\ (q = 2 => i = InId[n])
  <2>1. Short(0) = 0
    BY DEF Short
  <2> QED BY <2>1, <1>9 DEF NoId
<1>11. Carries(Bytes(m), m)
  <2>1. FALSE \in BOOLEAN
    OBVIOUS
  <2> HIDE DEF i, q
  <2> QED BY <2>1, <1>3, <1>9, <1>10, PublishCarried, Zenon
<1>12. IsPublish(m, i, q, n)
  <2> HIDE DEF i, q
  <2> QED BY PublishHas, Zenon
<1> HIDE DEF m, i
<1>13. Arriving(m) /\ m.type = 3 /\ m.payload = <<n>>
  BY <1>9, <1>10, <1>12 DEF Arriving, IsPublish
<1>14. PICK T : Carried(c, toClient, T) /\ (app.inQos = 2 => Ledger(c.received, T, app.arrived, f))
  BY DEF Good, OnTheWay
<1>15. PICK more \in Chunks(m) : toClient' = toClient \o more
  BY <1>1, Zenon DEF BrokerSends
<1> DEFINE P == Bytes(m)
<1>16. Bytes(m) = P /\ P \in Bytewise /\ Carries(P, m)
  BY <1>11 DEF Carries, Packet
<1> HIDE DEF P
<1>17. Splits(more, P)
  BY <1>16, ChunksSplit
<1>18. PICK U, p : /\ Carried(c, toClient \o more, U) /\ Adds(T, U, p) /\ p \in DOMAIN U
                   /\ U[p].msg = m /\ U[p].part # "first"
  <2>1. m.type # 2
    BY <1>13
  <2> QED BY <2>1, <1>13, <1>14, <1>16, <1>17, MoreCarried
<1>19. ASSUME app.inQos = 2 PROVE Ledger(c.received, U, app.arrived, g)
  <2>1. \A k : ~Rel(U, p, k)
    BY <1>13, <1>18 DEF Rel
  <2>2. \A k : Pub(U, p, k) => k = n
    BY <1>13, <1>18, SameSingle DEF Pub
  <2>3. Ledger(c.received, T, app.arrived, f)
    BY <1>14, <1>19
  <2>4. g[n] = "published"
    BY <1>5, <1>19
  <2> HIDE DEF f, x
  <2>5. f[n] = "idle"
    BY <1>1
  <2> QED BY <2>1, <2>2, <2>3, <2>4, <2>5, <1>2, <1>5, <1>18, LedgerPublish
<1>20. \E V : /\ Carried(c', toClient', V)
              /\ app.inQos = 2 => Ledger(c.received, V, app.arrived, b'.flow)
  BY <1>1, <1>6, <1>15, <1>18, <1>19
<1>21. Rests(c')
  BY <1>1 DEF Good
<1>22. 0 \in {0, 1} /\ \A j : Dials(c', j) => Dials(c, j + 0) /\ j \in Nat
  <2>1. DOMAIN c.out = 1 .. Len(c.out) /\ Len(c.out) \in Nat
    BY GoodHas, ListedIs DEF Typed, Writing
  <2> QED BY <2>1, <1>1 DEF Dials
<1>23. c.socket # "open" => toClient' = toClient
  BY <1>1
<1> QED BY <1>1, <1>3, <1>7, <1>8, <1>20, <1>21, <1>22, <1>23, LinkedGood

(***************************************************************************)
(* The invariant holds at first and in every step.                         *)
(***************************************************************************)
LEMMA PageAtFirst ==
  ASSUME NEW o \in Options, NEW a,
         a = [clean |-> Settled(o).clean, explicit |-> Settled(o).explicit,
              version |-> Settled(o).version, uris |-> Settled(o).uris,
              accepted |-> Settled(o).accepted, outQos |-> o.outQos,
              inQos |-> o.inQos, sent |-> {}, arrived |-> [n \in InMsgs |-> 0], corrupt |-> FALSE,
              delivered |-> {}, last |-> "none", ended |-> FALSE,
              connects |-> 0, faults |-> 0]
  PROVE  PageOk(a) /\ a.ended = FALSE /\ a.arrived = [n \in InMsgs |-> 0]
<1>1. o.hosts \in Nat /\ o.inQos \in 0 .. 2 /\ o.outQos \in 0 .. 2
  BY PahoAssumption
<1>2. Settled(o).uris = o.hosts
  BY DEF Settled
<1> DEFINE v == Settled(o).version
           u == Settled(o).uris
           x == Settled(o).clean
           y == Settled(o).explicit
           z == Settled(o).accepted
           g == [n \in InMsgs |-> 0]
<1>3. g \in [InMsgs -> Nat]
  OBVIOUS
<1>4. u \in Nat
  BY <1>1, <1>2
<1> HIDE DEF v, u, x, y, z, g
<1>5. a = [clean |-> x, explicit |-> y, version |-> v, uris |-> u, accepted |-> z, outQos |-> o.outQos,
           inQos |-> o.inQos, sent |-> {}, arrived |-> g, corrupt |-> FALSE,
           delivered |-> {}, last |-> "none", ended |-> FALSE, connects |-> 0, faults |-> 0]
  BY Zenon DEF v, u, x, y, z, g
<1>6. /\ {"arrived", "corrupt", "inQos", "outQos", "uris", "ended"} \subseteq DOMAIN a
      /\ a.uris = u /\ a.outQos = o.outQos /\ a.inQos = o.inQos /\ a.arrived = g /\ a.corrupt = FALSE
      /\ a.ended = FALSE
  BY <1>5
<1> QED BY <1>1, <1>3, <1>4, <1>6 DEF PageOk, AppOk, g

LEMMA ClientAtFirst ==
  ASSUME c = NewClient(NoEntries, NoEntries, [sent |-> NoEntries, received |-> NoEntries])
  PROVE  /\ Rests(c) /\ c.socket = "none" /\ c.connected = FALSE /\ c.out = <<>> /\ c.received = NoEntries
         /\ c.connectTimer = FALSE /\ c.sendPinger = NewPinger /\ c.receivePinger = NewPinger
<1> DEFINE e == NoEntries
           st == [sent |-> e, received |-> e]
<1>1. DOMAIN e = {}
  BY DEF NoEntries
<1>2. DOMAIN st = {"sent", "received"} /\ st.sent = e /\ st.received = e
  OBVIOUS
<1>3. c = NewClient(e, e, st)
  BY Zenon
<1> HIDE DEF e, st
<1>4. /\ DOMAIN c = Fields /\ c.socket = "none" /\ c.connected = FALSE /\ c.hostIndex = 0 /\ c.queue = <<>>
      /\ c.notify = FALSE /\ c.sent = e /\ c.received = e /\ c.identifier = 1 /\ c.buffer = <<>>
      /\ c.connectTimer = FALSE /\ c.sendPinger = NewPinger /\ c.receivePinger = NewPinger
      /\ c.store = st /\ c.out = <<>> /\ c.thrown = FALSE /\ c.cut = FALSE /\ c.calls = <<>>
  BY <1>3 DEF NewClient, Fields
<1>5. Pinger(NewPinger)
  BY DEF Pinger, NewPinger
<1>6. SentOk(e) /\ StoredOk(e) /\ ReceivedOk(e) /\ Backs(e, e)
  <2>1. IsFiniteSet({})
    BY FS_EmptySet
  <2> QED BY <1>1, <2>1 DEF SentOk, StoredOk, ReceivedOk, Backs
<1>7. Typed(c)
  <2>1. Pinger(c.sendPinger) /\ Pinger(c.receivePinger)
    BY <1>4, <1>5, Zenon
  <2>2. Asking(c.queue) /\ Listed(c.calls) /\ Writing(c.out)
    BY <1>4, EmptyLists, ListedEmpty
  <2>3. ReceivedOk(c.received) /\ Backs(c.store.received, c.received)
    BY <1>2, <1>4, <1>6, Zenon
  <2>4. SentOk(c.sent) /\ DOMAIN c.store = {"sent", "received"} /\ StoredOk(c.store.sent)
    BY <1>2, <1>4, <1>6, Zenon
  <2>5. c.socket \in {"none", "connecting", "open"} /\ c.connected \in BOOLEAN /\ c.notify \in BOOLEAN
        /\ c.connectTimer \in BOOLEAN /\ c.thrown \in BOOLEAN /\ c.cut \in BOOLEAN /\ (c.cut => c.socket # "open")
    BY <1>4, Zenon
  <2>6. c.hostIndex \in Nat /\ c.identifier \in Nat \ {0}
    <3>1. 0 \in Nat /\ 1 \in Nat \ {0}
      OBVIOUS
    <3> QED BY <1>4, <3>1, Zenon
  <2> QED BY <2>1, <2>2, <2>3, <2>4, <2>5, <2>6, <1>4 DEF Typed
<1> QED BY <1>4, <1>7 DEF Rests, e

LEMMA LedgerAtFirst ==
  ASSUME NEW T, DOMAIN T = {}
  PROVE  Ledger(NoEntries, T, [n \in InMsgs |-> 0], [n \in InMsgs |-> "idle"])
<1> DEFINE g == [n \in InMsgs |-> 0]
           f == [n \in InMsgs |-> "idle"]
           r == NoEntries
<1>1. g \in [InMsgs -> Nat] /\ f \in [InMsgs -> Stages] /\ \A n \in InMsgs : g[n] = 0 /\ f[n] = "idle"
  BY DEF Stages
<1>2. DOMAIN r = {}
  BY DEF NoEntries
<1> HIDE DEF g, f, r
<1>3. \A i, n : ~Pub(T, i, n) /\ ~Rel(T, i, n)
  BY DEF Pub, Rel, Pending
<1>4. \A n : ~Kept(r, n)
  BY <1>2 DEF Kept
<1>5. HandedOnce(r, T, g, f)
  BY <1>1 DEF HandedOnce
<1>6. Published(r, T, f)
  BY <1>3, <1>4 DEF Published
<1>7. OneCopy(T) /\ ReleasedLast(r, T, f) /\ ReleasedPast(T, f)
  BY <1>3 DEF OneCopy, ReleasedLast, ReleasedPast
<1>8. OneOpen(f)
  BY <1>1 DEF OneOpen, Open
<1>9. Ledger(r, T, g, f)
  BY <1>1, <1>5, <1>6, <1>7, <1>8 DEF Ledger
<1> QED BY <1>9 DEF g, f, r

LEMMA InitGood ==
  ASSUME Init
  PROVE  Good /\ misframed = FALSE
<1> DEFINE fl == [n \in InMsgs |-> "idle"]
           U == [i \in {} |-> i]
<1>1. /\ c = NewClient(NoEntries, NoEntries, [sent |-> NoEntries, received |-> NoEntries])
      /\ toClient = <<>> /\ misframed = FALSE
      /\ b = [link |-> FALSE, subscribed |-> FALSE, holding |-> NoEntries,
              got |-> [m \in OutMsgs |-> 0], flow |-> fl]
  BY Zenon DEF Init
<1>2. PageOk(app) /\ app.ended = FALSE /\ app.arrived = [n \in InMsgs |-> 0]
  BY PageAtFirst DEF Init
<1>3. /\ Rests(c) /\ c.socket = "none" /\ c.connected = FALSE /\ c.out = <<>> /\ c.received = NoEntries
      /\ c.connectTimer = FALSE /\ c.sendPinger = NewPinger /\ c.receivePinger = NewPinger
  BY <1>1, ClientAtFirst, Zenon
<1>4. fl \in [InMsgs -> Stages] /\ \A n \in InMsgs : fl[n] = "idle"
  BY DEF Stages
<1>5. DOMAIN U = {}
  OBVIOUS
<1>6. Ledger(c.received, U, app.arrived, fl)
  BY <1>2, <1>3, <1>5, LedgerAtFirst, Zenon
<1> HIDE DEF fl, U
<1>7. DOMAIN b = BrokerFields /\ b.link = FALSE /\ b.flow = fl
  BY <1>1 DEF BrokerFields
<1>8. BrokerOk(b) /\ Booked
  BY <1>4, <1>7 DEF BrokerOk, Booked
<1>9. \A p : ~Dials(c, p)
  <2>1. DOMAIN <<>> = {}
    OBVIOUS
  <2> QED BY <2>1, <1>3 DEF Dials
<1>10. Attached /\ Dialled /\ Ended
  BY <1>1, <1>2, <1>3, <1>9 DEF Attached, Dialled, Ended
<1>11. OnTheWay
  <2>1. Carried(c, toClient, U)
    <3>1. Carried(c, <<>>, U)
      BY <1>3, <1>5, CarriedNone
    <3> QED BY <1>1, <3>1, Zenon
  <2> QED BY <2>1, <1>6, <1>7 DEF OnTheWay
<1> QED BY <1>1, <1>2, <1>3, <1>8, <1>10, <1>11 DEF Good

LEMMA SameGood ==
  ASSUME Good, UNCHANGED vars
  PROVE  Good'
<1>1. c' = c /\ toClient' = toClient /\ b' = b /\ app' = app
  BY DEF vars
<1>2. PageOk(app') /\ BrokerOk(b') /\ Booked' /\ Rests(c')
  BY <1>1 DEF Good, Booked
<1>3. Attached' /\ Dialled' /\ Ended'
  BY <1>1 DEF Good, Attached, Up, Dialled, Ended
<1>4. PICK T : /\ Carried(c, toClient, T)
               /\ app.inQos = 2 => Ledger(c.received, T, app.arrived, b.flow)
  BY DEF Good, OnTheWay
<1>5. Carried(c, toClient, T)'
  <2> DEFINE d == c'
             s == toClient'
  <2>1. c' = d /\ toClient' = s /\ Carried(d, s, T) /\ app'.inQos = app.inQos
    BY <1>1, <1>4
  <2> HIDE DEF d, s
  <2> QED BY <2>1, CarriedNext
<1>6. OnTheWay'
  BY <1>1, <1>4, <1>5 DEF OnTheWay
<1> QED BY <1>2, <1>3, <1>6 DEF Good

\* Only a socket that opens can spoil the framing, and nothing mends it.
LEMMA Misframed ==
  ASSUME [Next]_vars
  PROVE  \/ SocketOpens /\ misframed' = (misframed \/ c.buffer # <<>>)
         \/ misframed' = misframed
<1>1. CASE UNCHANGED vars
  BY <1>1 DEF vars
<1>2. CASE Page
  BY <1>2 DEF Page, ConnectAndSubscribe, StopLiveUpdates, Disconnect, Reload, Send
<1>3. CASE Browser
  BY <1>3 DEF Browser, SocketOpens, SocketMessage, SocketCloses, ConnectTimeout, PingFires
<1>4. CASE Broker
  BY <1>4 DEF Broker, BrokerAccepts, BrokerTakes, BrokerPublishes
<1> QED BY <1>1, <1>2, <1>3, <1>4 DEF Next

LEMMA NextGood ==
  ASSUME Good, Next, misframed' = FALSE
  PROVE  Good'
<1>1. ASSUME Page PROVE Good'
  <2>1. ASSUME NEW m \in OutMsgs, Send(m) PROVE Good'
    BY <2>1, SendGood
  <2> QED BY <1>1, <2>1, ConnectGood, StopGood, DisconnectGood, ReloadGood DEF Page
<1>2. ASSUME Browser PROVE Good'
  BY <1>2, SocketOpensGood, MessageGood, ClosesGood, TimeoutGood, PingGood DEF Browser
<1>3. ASSUME Broker PROVE Good'
  <2>1. ASSUME NEW n \in InMsgs, BrokerPublishes(n) PROVE Good'
    BY <2>1, BrokerPublishesGood
  <2> QED BY <1>3, <2>1, BrokerAcceptsGood, BrokerTakesGood DEF Broker
<1> QED BY <1>1, <1>2, <1>3 DEF Next

\* The inductive invariant: the client, the page, the broker and what is on
\* its way between them agree, as long as no connection has begun with part
\* of a packet in the receive buffer.
THEOREM PahoInvariant == Spec => []IInv
<1>1. Init => IInv
  BY InitGood DEF IInv
<1>2. IInv /\ [Next]_vars => IInv'
  <2> SUFFICES ASSUME IInv, [Next]_vars PROVE IInv'
    OBVIOUS
  <2>1. CASE misframed = TRUE
    <3>1. misframed' = TRUE
      BY <2>1, Misframed
    <3> QED BY <3>1 DEF IInv
  <2>2. CASE misframed = FALSE /\ Good
    <3>1. misframed' = TRUE \/ misframed' = FALSE
      BY <2>2, Misframed
    <3>2. ASSUME misframed' = FALSE PROVE Good'
      BY <2>2, <3>2, NextGood, SameGood
    <3> QED BY <3>1, <3>2 DEF IInv
  <2> QED BY <2>1, <2>2 DEF IInv
<1> QED BY <1>1, <1>2, PTL DEF Spec

\* A message of quality 2 on which the page's handler does not throw reaches
\* the page once at most, over cut sockets, repeated packets, reloads and the
\* disconnections other messages' handlers cause (_receivePublish, PUBREL,
\* the catch of _handleMessage), for every set of messages, identifiers and
\* ways to split a packet.
THEOREM PahoExactlyOnceIn == Spec => []ExactlyOnceIn
<1>1. IInv => ExactlyOnceIn
  <2> SUFFICES ASSUME Good, NEW n \in InMsgs \ Unreadable, app.inQos = 2 PROVE app.arrived[n] <= 1
    BY DEF IInv, ExactlyOnceIn
  <2>1. PICK T : Ledger(c.received, T, app.arrived, b.flow)
    BY DEF Good, OnTheWay
  <2>2. app.arrived[n] \in Nat /\ (app.arrived[n] >= 1 => app.arrived[n] = 1)
    BY <2>1 DEF Ledger, HandedOnce
  <2> QED BY <2>2
<1> QED BY <1>1, PahoInvariant, PTL

\* The page is handed only what was published, whatever the chunks it came
\* in (_deframeMessages, decodeMessage).
THEOREM PahoNothingGarbled == Spec => []NothingGarbled
<1>1. IInv => NothingGarbled
  BY DEF IInv, Good, PageOk, NothingGarbled
<1> QED BY <1>1, PahoInvariant, PTL

\* After disconnect() on a connection no socket is opened until the page
\* connects again (_process_queue, _disconnected).
Quits == misframed \/ EndedStaysEnded
THEOREM PahoEndedStaysEnded == Spec => [](misframed \/ EndedStaysEnded)
<1>1. IInv => Quits
  BY DEF IInv, Good, Ended, Gone, Quits, EndedStaysEnded
<1>2. Spec => []Quits
  BY <1>1, PahoInvariant, PTL
<1> QED BY <1>2 DEF Quits

=============================================================================
