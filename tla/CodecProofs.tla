----------------------------- MODULE CodecProofs -----------------------------
(***************************************************************************)
(* Proofs about Wire and Codec: for every number a message may carry, any  *)
(* options in any order, and a datagram cut at any byte.                   *)
(***************************************************************************)
EXTENDS Codec, SequenceTheorems, WellFoundedInduction, TLAPS

-----------------------------------------------------------------------------
(* Why: the message holds the options of its builder, sorted or not, and what was  *)
(* measured or written is the message as it is now.                                 *)

Used == Options \cup PeerOptions \cup {BlockOption(bm) : bm \in Blocks}

Composed == [type : 0 .. 3, code : Byte, mid : 0 .. Word - 1,
             token : Seq(Byte), payload : Seq(Byte), opts : Seq(Used), packetSize : Nat]

Ordered(opts) == \A i, j \in DOMAIN opts : i <= j => opts[i].id <= opts[j].id

\* Two sequences that sorting does not tell apart.
SameOptions(opts, others) ==
  /\ Len(opts) = Len(others)
  /\ \A id \in Number : Only(opts, WithId(id)) = Only(others, WithId(id))

BuiltInv ==
  /\ msg \in Composed /\ built \in Seq(Used) /\ block \in Blocks \cup {None}
  /\ SameOptions(msg.opts, built) /\ Len(built) <= MaxOptions
  /\ Only(built, WithId(OptBlock1)) = IF block = None THEN <<>> ELSE <<BlockOption(block)>>

WrittenInv ==
  /\ wire = <<>> /\ estimate # -1 /\ msg.packetSize = 0 =>
       Ordered(msg.opts) /\ estimate = HeaderSize(msg) + Len(msg.payload)
  /\ wire # <<>> => Ordered(msg.opts) /\ wire = Marshal(msg)
  /\ cut \in 0 .. Len(wire)
  /\ got # None => wire # <<>> /\ got = Unmarshal(SubSeq(wire, 1, cut))

Inductive == BuiltInv /\ WrittenInv

-----------------------------------------------------------------------------
(* Induction over numbers and over sequences *)

LEMMA LeastNumber ==
  ASSUME NEW T \in SUBSET Nat, T # {}
  PROVE  \E n \in T : \A m \in T : n <= m
<1> DEFINE Less == {x \in Nat \X Nat : x[1] < x[2]}
<1>1. IsWellFoundedOn(Less, Nat)
  <2>1. IsWellFoundedOn(OpToRel(<, Nat), Nat)
    BY NatLessThanWellFounded
  <2> QED  BY <2>1 DEF OpToRel
<1> HIDE DEF Less
<1>2. PICK n \in T : \A m \in T : ~ (<<m, n>> \in Less)
  BY <1>1, WFMin
<1>3. ASSUME NEW m \in T PROVE n <= m
  <2>1. ~ (<<m, n>> \in Less)
    BY <1>2
  <2>2. <<m, n>> \in Nat \X Nat
    OBVIOUS
  <2>3. <<m, n>>[1] = m /\ <<m, n>>[2] = n
    OBVIOUS
  <2>4. ~ (m < n)
    BY <2>1, <2>2, <2>3, Zenon DEF Less
  <2> QED  BY <2>4
<1> QED  BY <1>3

\* What holds for 0 and goes over from each number to the next holds up to n.
LEMMA BoundedInduction ==
  ASSUME NEW n \in Nat, NEW Holds \in SUBSET (0 .. n),
         0 \in Holds, \A k \in 1 .. n : k - 1 \in Holds => k \in Holds
  PROVE  Holds = 0 .. n
<1> SUFFICES ASSUME (0 .. n) \ Holds # {} PROVE FALSE
  OBVIOUS
<1> DEFINE T == (0 .. n) \ Holds
<1>1. T \in SUBSET Nat /\ T # {}
  OBVIOUS
<1> HIDE DEF T
<1>2. PICK k \in T : \A m \in T : k <= m
  BY <1>1, LeastNumber
<1>3. k \in 1 .. n /\ k \notin Holds
  BY DEF T
<1>4. k - 1 \in 0 .. n /\ k - 1 \notin T
  BY <1>2, <1>3
<1> QED  BY <1>3, <1>4 DEF T

\* What holds for the empty sequence and goes over to one element more holds for all.
LEMMA AppendInduction ==
  ASSUME NEW T, NEW Good \in SUBSET Seq(T), <<>> \in Good,
         \A s \in Good, e \in T : Append(s, e) \in Good
  PROVE  Good = Seq(T)
<1> SUFFICES ASSUME NEW bad \in Seq(T), bad \notin Good PROVE FALSE
  OBVIOUS
<1> DEFINE Bad == {n \in Nat : \E s \in Seq(T) : s \notin Good /\ Len(s) = n}
<1>1. Bad \in SUBSET Nat /\ Bad # {}
  <2>1. Len(bad) \in Bad
    OBVIOUS
  <2> QED  BY <2>1
<1>2. PICK n \in Bad : \A m \in Bad : n <= m
  <2> HIDE DEF Bad
  <2> QED  BY <1>1, LeastNumber
<1>3. PICK s \in Seq(T) : s \notin Good /\ Len(s) = n
  OBVIOUS
<1>4. s # <<>>
  BY <1>3
<1>5. PICK front \in Seq(T), e \in T : s = Append(front, e)
  BY <1>4, SequenceEmptyOrAppend
<1>6. Len(front) \in Nat /\ Len(s) = Len(front) + 1
  BY <1>5
<1>7. Len(front) \notin Bad
  <2>1. n \in Nat /\ n = Len(front) + 1
    BY <1>3, <1>6
  <2> SUFFICES ASSUME Len(front) \in Bad PROVE FALSE
    OBVIOUS
  <2>2. n <= Len(front)
    <3> HIDE DEF Bad
    <3> QED  BY <1>2
  <2> QED  BY <1>6, <2>1, <2>2
<1>8. front \in Good
  BY <1>6, <1>7
<1> QED  BY <1>3, <1>5, <1>8

-----------------------------------------------------------------------------
(* Wire *)

LEMMA BlockNumbers ==
  ASSUME NEW n \in BlockNumber
  PROVE  n \in Nat /\ n < 1024 * 1024
<1> DEFINE w == (16 * Word) - 1
           all == 1024 * 1024
<1>1. w \in Int /\ all \in Int /\ w < all
  BY DEF Word
<1> HIDE DEF w, all
<1>2. n \in 0 .. w
  BY Zenon DEF BlockNumber, w
<1>3. n \in Nat /\ n < all
  BY <1>1, <1>2
<1> QED  BY <1>3 DEF all

\* What blockDecode reads from the bytes of Encode is the block that was
\* written: every number that fits its 20 bits, every size the protocol has.
THEOREM BlockRoundTrip ==
  ASSUME NEW num \in BlockNumber, NEW more \in BOOLEAN, NEW i \in 1 .. 8
  PROVE  /\ Decodable(EncodeBlock(num, more, BlockSizes[i]))
         /\ DecodeBlock(EncodeBlock(num, more, BlockSizes[i]))
              = [num |-> num, more |-> more, size |-> BlockSizes[i]]
<1> DEFINE size == BlockSizes[i]
           low == ((16 * num) % 256) + (IF more THEN 8 ELSE 0) + (i - 1)
           b   == EncodeBlock(num, more, size)
<1>0. num \in Nat /\ num < 1024 * 1024
  BY BlockNumbers
<1> USE <1>0
<1> HIDE DEF size, low
<1>1. Szx(size) = i - 1
  BY SMT DEF Szx, IsBlockSize, BlockSizes, size
<1>2. /\ low \in Int /\ low \div 16 = num % 16 /\ low % 8 = i - 1
      /\ (low % 16 >= 8) <=> more
  BY SMT DEF low
<1>3. BlockSizes[1 + (low % 8)] = size
  BY <1>2, SMT DEF size
<1>4. CASE num <= 7
  <2>1. b = <<low>>
    BY <1>1, <1>4, SMT DEF EncodeBlock, low
  <2>2. /\ Len(<<low>>) = 1 /\ <<low>>[1] = low
        /\ low \div 16 = num
    BY <1>2, <1>4, SMT
  <2> QED
    BY <1>2, <1>3, <2>1, <2>2, SMT DEF DecodeBlock, Decodable, size
<1>5. CASE num > 7 /\ num < 4096
  <2> DEFINE high == (num \div 16) % 256
  <2> HIDE DEF high
  <2>1. b = <<high, low>>
    BY <1>1, <1>5, SMT DEF EncodeBlock, low, high
  <2>2. (16 * high) + (low \div 16) = num
    BY <1>2, <1>5, SMT DEF high
  <2> QED
    BY <1>2, <1>3, <2>1, <2>2, SMT DEF DecodeBlock, Decodable, size
<1>6. CASE num >= 4096
  <2> DEFINE top == (num \div 4096) % 256
             mid == (num \div 16) % 256
  <2> HIDE DEF top, mid
  <2>1. b = <<top, mid, low>>
    BY <1>1, <1>6, SMT DEF EncodeBlock, low, top, mid
  <2>2. (4096 * top) + (16 * mid) + (low \div 16) = num
    BY <1>2, <1>6, SMT DEF top, mid
  <2> QED
    BY <1>2, <1>3, <2>1, <2>2, SMT DEF DecodeBlock, Decodable, size
<1> QED
  BY <1>4, <1>5, <1>6, SMT

\* decodeInt inverts encodeInt on all 32 bits.
THEOREM IntRoundTrip ==
  ASSUME NEW v \in Nat, v < (256 * 256) * (256 * 256)
  PROVE  Len(EncodeInt(v)) \in 1 .. 4 /\ DecodeInt(EncodeInt(v)) = v
<1>1. CASE v < 256
  <2>1. EncodeInt(v) = <<v>>
    BY <1>1, SMT DEF EncodeInt
  <2> QED
    BY <2>1, SMT DEF DecodeInt
<1>2. CASE v >= 256 /\ v < 256 * 256
  <2>1. EncodeInt(v) = <<v \div 256, v % 256>>
    BY <1>2, SMT DEF EncodeInt
  <2> QED
    BY <2>1, <1>2, SMT DEF DecodeInt
<1>3. CASE v >= 256 * 256 /\ v < 256 * 256 * 256
  <2>1. EncodeInt(v) = <<v \div (256 * 256), (v \div 256) % 256, v % 256>>
    BY <1>3, SMT DEF EncodeInt
  <2> QED
    BY <2>1, <1>3, SMT DEF DecodeInt
<1>4. CASE v >= 256 * 256 * 256
  <2>1. EncodeInt(v) = <<v \div (256 * 256 * 256), (v \div (256 * 256)) % 256,
                         (v \div 256) % 256, v % 256>>
    BY <1>4, SMT DEF EncodeInt
  <2> QED
    BY <2>1, <1>4, SMT DEF DecodeInt
<1> QED
  BY <1>1, <1>2, <1>3, <1>4, SMT

\* What is left of a sequence behind the bytes put in front of it.
LEMMA RestOfConcat ==
  ASSUME NEW a \in Seq(Nat), NEW b \in Seq(Nat)
  PROVE  /\ Len(a \o b) \in Nat /\ Len(a \o b) >= Len(a)
         /\ \A i \in 1 .. Len(a) : (a \o b)[i] = a[i]
         /\ Rest(a \o b, Len(a)) = b
BY SMT DEF Rest

\* parseExtOpt reads back what extendOpt and writeExt wrote, whatever follows,
\* for every delta and every length that the two forms can carry.
THEOREM ExtRoundTrip ==
  ASSUME NEW n \in Nat, n < (256 * 256) + 269, NEW tail \in Seq(Nat)
  PROVE  ParseExt(ExtendOpt(n).nibble, ExtendOpt(n).ext \o tail)
           = [ok |-> TRUE, n |-> n, rest |-> tail]
<1>1. CASE n < 13
  <2>1. ExtendOpt(n) = [nibble |-> n, ext |-> <<>>]
    BY <1>1, SMT DEF ExtendOpt
  <2> QED
    BY <2>1, <1>1, SMT DEF ParseExt
<1>2. CASE n >= 13 /\ n < 269
  <2>1. ExtendOpt(n) = [nibble |-> 13, ext |-> <<n - 13>>]
    BY <1>2, SMT DEF ExtendOpt
  <2> DEFINE e == <<n - 13>>
  <2>2. e \in Seq(Nat) /\ Len(e) = 1 /\ e[1] = n - 13
    BY <1>2, SMT
  <2> HIDE DEF e
  <2>3. /\ Len(e \o tail) \in Nat /\ Len(e \o tail) >= Len(e)
        /\ \A i \in 1 .. Len(e) : (e \o tail)[i] = e[i]
        /\ Rest(e \o tail, Len(e)) = tail
    BY <2>2, RestOfConcat, Zenon
  <2> DEFINE b == e \o tail
  <2> HIDE DEF b
  <2>4. ~(Len(b) < 1) /\ b[1] + 13 = n /\ Rest(b, 1) = tail
    BY <2>2, <2>3, SMT DEF b
  <2>5. ParseExt(13, b) = [ok |-> TRUE, n |-> n, rest |-> tail]
    <3>1. ParseExt(13, b) = IF Len(b) < 1 THEN Truncated
                            ELSE [ok |-> TRUE, n |-> b[1] + 13, rest |-> Rest(b, 1)]
      BY SMT DEF ParseExt
    <3> QED
      BY <2>4, <3>1, Zenon
  <2> QED
    BY <2>1, <2>5 DEF e, b
<1>3. CASE n >= 269
  <2> DEFINE hi == ((n - 269) \div 256) % 256
             lo == (n - 269) % 256
  <2> HIDE DEF hi, lo
  <2>1. ExtendOpt(n) = [nibble |-> 14, ext |-> <<hi, lo>>]
    BY <1>3, SMT DEF ExtendOpt, hi, lo
  <2>2. hi \in Nat /\ lo \in Nat /\ (256 * hi) + lo + 269 = n
    BY <1>3, SMT DEF hi, lo
  <2> DEFINE e == <<hi, lo>>
  <2>3. e \in Seq(Nat) /\ Len(e) = 2 /\ e[1] = hi /\ e[2] = lo
    BY <2>2, SMT
  <2> HIDE DEF e
  <2>4. /\ Len(e \o tail) \in Nat /\ Len(e \o tail) >= Len(e)
        /\ \A i \in 1 .. Len(e) : (e \o tail)[i] = e[i]
        /\ Rest(e \o tail, Len(e)) = tail
    BY <2>3, RestOfConcat, Zenon
  <2> DEFINE b == e \o tail
  <2> HIDE DEF b
  <2>5. ~(Len(b) < 2) /\ b[1] = hi /\ b[2] = lo /\ Rest(b, 2) = tail
    BY <2>3, <2>4, SMT DEF b
  <2>6. ParseExt(14, b) = [ok |-> TRUE, n |-> n, rest |-> tail]
    <3>1. ParseExt(14, b) = IF Len(b) < 2 THEN Truncated
                            ELSE [ok |-> TRUE, n |-> (256 * b[1] + b[2]) + 269, rest |-> Rest(b, 2)]
      BY SMT DEF ParseExt
    <3> QED
      BY <2>2, <2>5, <3>1, Zenon
  <2> QED
    BY <2>1, <2>6 DEF e, b
<1> QED
  BY <1>1, <1>2, <1>3, SMT

\* A change to smaller blocks leaves no gap and no overlap: the next number, in the
\* size the response asks for, is where the block it answers has ended.
THEOREM ResizeKeepsOffset ==
  ASSUME NEW num \in Nat, NEW k \in Nat \ {0}, NEW small \in Nat \ {0}, NEW more
  PROVE  NextBlock(k * small, [num |-> num, more |-> more, size |-> small]) * small
           = (num + 1) * (k * small)
<1> DEFINE rsp == [num |-> num, more |-> more, size |-> small]
<1>1. CASE k = 1
  BY <1>1, SMT DEF NextBlock
<1>2. CASE k > 1
  <2>1. k * small > small
    BY <1>2, SMT
  <2>2. (k * small) \div small = k
    BY SMT
  <2>3. k * (num + 1) \in Int
    BY SMT
  <2>4. NextBlock(k * small, rsp) = k * (num + 1)
    BY <2>1, <2>2, <2>3, SMT DEF NextBlock
  <2> QED
    BY <2>4, SMT
<1> QED
  BY <1>1, <1>2, SMT

-----------------------------------------------------------------------------
(* Only *)

\* Only, unfolded: what is kept of each prefix.
LEMMA KeptForm ==
  ASSUME NEW T, NEW s \in Seq(T), NEW S
  PROVE  \E f : /\ f[0] = <<>>
                /\ \A k \in 1 .. Len(s) : f[k] = IF s[k] \in S THEN Append(f[k - 1], s[k]) ELSE f[k - 1]
                /\ Only(s, S) = f[Len(s)]
<1> DEFINE n == Len(s)
           Is(f, m) == f = [k \in 0 .. m |->
                              IF k = 0 THEN <<>> ELSE IF s[k] \in S THEN Append(f[k - 1], s[k]) ELSE f[k - 1]]
           Exists(m) == \E f : Is(f, m)
           g == CHOOSE f : Is(f, n)
           Holds == {m \in 0 .. n : Exists(m)}
<1>1. n \in Nat
  OBVIOUS
<1>2. Only(s, S) = g[n]
  BY DEF Only
<1> HIDE DEF n
<1>3. Exists(0)
  <2> DEFINE f == [k \in 0 .. 0 |-> <<>>]
  <2>1. ASSUME NEW k \in 0 .. 0
        PROVE  f[k] = IF k = 0 THEN <<>> ELSE IF s[k] \in S THEN Append(f[k - 1], s[k]) ELSE f[k - 1]
    OBVIOUS
  <2>2. f = [k \in 0 .. 0 |-> f[k]]
    OBVIOUS
  <2> HIDE DEF f
  <2>3. Is(f, 0)
    BY <2>1, <2>2, Zenon
  <2> QED  BY <2>3, Zenon
<1>4. ASSUME NEW m \in 1 .. n, Exists(m - 1) PROVE Exists(m)
  <2>1. PICK f : Is(f, m - 1)
    BY <1>4, Zenon
  <2> DEFINE h == [k \in 0 .. m |-> IF k = m THEN IF s[m] \in S THEN Append(f[m - 1], s[m]) ELSE f[m - 1] ELSE f[k]]
  <2>2. ASSUME NEW k \in 0 .. m
        PROVE  h[k] = IF k = 0 THEN <<>> ELSE IF s[k] \in S THEN Append(h[k - 1], s[k]) ELSE h[k - 1]
    <3>0. m \in Nat /\ m >= 1
      BY <1>1
    <3>1. CASE k = 0
      <4>1. k # m /\ k \in 0 .. m - 1
        BY <3>0, <3>1
      <4>2. h[k] = f[k]
        BY <4>1
      <4>3. f[k] = <<>>
        BY <2>1, <3>1, <4>1, Zenon
      <4> QED  BY <3>1, <4>2, <4>3, Zenon
    <3>2. CASE k = m
      <4>1. k # 0 /\ k - 1 \in 0 .. m /\ k - 1 # m
        BY <3>0, <3>2
      <4>2. h[k - 1] = f[m - 1]
        BY <4>1, <3>2, Zenon
      <4>3. h[k] = IF s[m] \in S THEN Append(f[m - 1], s[m]) ELSE f[m - 1]
        BY <3>2, Zenon
      <4> HIDE DEF h
      <4> QED  BY <4>1, <4>2, <4>3, <3>2, Zenon
    <3>3. CASE k # 0 /\ k # m
      <4>1. k \in 0 .. m - 1 /\ k - 1 \in 0 .. m /\ k - 1 # m
        BY <3>0, <3>3
      <4>2. h[k] = f[k] /\ h[k - 1] = f[k - 1]
        BY <4>1, <3>3, Zenon
      <4>3. f[k] = IF s[k] \in S THEN Append(f[k - 1], s[k]) ELSE f[k - 1]
        BY <2>1, <4>1, <3>3, Zenon
      <4> HIDE DEF h
      <4> QED  BY <3>3, <4>2, <4>3, Zenon
    <3> QED  BY <3>1, <3>2, <3>3
  <2>3. h = [k \in 0 .. m |-> h[k]]
    BY Zenon
  <2> HIDE DEF h
  <2>4. Is(h, m)
    BY <2>2, <2>3, Zenon
  <2> QED  BY <2>4, Zenon
<1>5. Exists(n)
  <2> HIDE DEF Exists
  <2>1. Holds \in SUBSET (0 .. n) /\ 0 \in Holds
    BY <1>1, <1>3
  <2>2. \A m \in 1 .. n : m - 1 \in Holds => m \in Holds
    BY <1>1, <1>4
  <2>3. Holds = 0 .. n
    <3> HIDE DEF Holds
    <3> QED  BY <1>1, <2>1, <2>2, BoundedInduction
  <2> QED  BY <1>1, <2>3
<1>6. Is(g, n)
  BY <1>5, Zenon
<1> HIDE DEF g
<1>7. g[0] = <<>>
  <2>1. 0 \in 0 .. n
    BY <1>1
  <2> QED  BY <1>6, <2>1, Zenon
<1>8. ASSUME NEW k \in 1 .. n PROVE g[k] = IF s[k] \in S THEN Append(g[k - 1], s[k]) ELSE g[k - 1]
  <2>1. k \in 0 .. n /\ k # 0
    BY <1>1
  <2> QED  BY <1>6, <2>1, Zenon
<1> QED  BY <1>2, <1>7, <1>8, Zenon DEF n

LEMMA OnlyEmpty ==
  ASSUME NEW S
  PROVE  Only(<<>>, S) = <<>>
<1>1. <<>> \in Seq({}) /\ Len(<<>>) = 0
  OBVIOUS
<1> DEFINE s == <<>>
<1>2. s \in Seq({}) /\ Len(s) = 0
  BY <1>1
<1> HIDE DEF s
<1>3. PICK f : /\ f[0] = <<>>
               /\ \A k \in 1 .. Len(s) : f[k] = IF s[k] \in S THEN Append(f[k - 1], s[k]) ELSE f[k - 1]
               /\ Only(s, S) = f[Len(s)]
  BY <1>2, KeptForm
<1>4. Only(s, S) = <<>>
  BY <1>2, <1>3, Zenon
<1> QED  BY <1>4 DEF s

LEMMA AppendFacts ==
  ASSUME NEW T, NEW s \in Seq(T), NEW e \in T
  PROVE  /\ Append(s, e) \in Seq(T) /\ Len(s) \in Nat /\ Len(Append(s, e)) = Len(s) + 1
         /\ \A k \in 1 .. Len(s) : Append(s, e)[k] = s[k]
         /\ Append(s, e)[Len(s) + 1] = e
OBVIOUS

LEMMA OnlyAppend ==
  ASSUME NEW T, NEW s \in Seq(T), NEW e \in T, NEW S
  PROVE  Only(Append(s, e), S) = IF e \in S THEN Append(Only(s, S), e) ELSE Only(s, S)
<1> DEFINE n == Len(s)
           a == Append(s, e)
<1>1. a \in Seq(T) /\ n \in Nat /\ Len(a) = n + 1 /\ (\A k \in 1 .. n : a[k] = s[k]) /\ a[n + 1] = e
  BY AppendFacts
<1>2. PICK f : /\ f[0] = <<>>
               /\ \A k \in 1 .. n : f[k] = IF s[k] \in S THEN Append(f[k - 1], s[k]) ELSE f[k - 1]
               /\ Only(s, S) = f[n]
  BY KeptForm
<1> HIDE DEF a
<1>3. PICK g : /\ g[0] = <<>>
               /\ \A k \in 1 .. Len(a) : g[k] = IF a[k] \in S THEN Append(g[k - 1], a[k]) ELSE g[k - 1]
               /\ Only(a, S) = g[Len(a)]
  BY <1>1, KeptForm
<1> HIDE DEF n
<1>4. f[n] = g[n]
  <2> DEFINE Holds == {k \in 0 .. n : f[k] = g[k]}
  <2>1. Holds \in SUBSET (0 .. n) /\ 0 \in Holds
    BY <1>1, <1>2, <1>3
  <2>2. ASSUME NEW k \in 1 .. n, k - 1 \in Holds PROVE k \in Holds
    <3>1. k \in 1 .. Len(a) /\ a[k] = s[k] /\ f[k - 1] = g[k - 1] /\ k \in 0 .. n
      BY <1>1, <2>2
    <3>2. f[k] = g[k]
      BY <1>2, <1>3, <3>1, Zenon
    <3> QED  BY <3>1, <3>2
  <2>3. Holds = 0 .. n
    <3> HIDE DEF Holds
    <3> QED  BY <1>1, <2>1, <2>2, BoundedInduction
  <2>4. n \in Holds
    BY <1>1, <2>3
  <2> QED  BY <2>4
<1>5. n + 1 \in 1 .. Len(a) /\ (n + 1) - 1 = n
  BY <1>1
<1>6. g[n + 1] = IF a[n + 1] \in S THEN Append(g[(n + 1) - 1], a[n + 1]) ELSE g[(n + 1) - 1]
  BY <1>3, <1>5, Zenon
<1>7. Only(a, S) = IF e \in S THEN Append(f[n], e) ELSE f[n]
  BY <1>1, <1>3, <1>4, <1>5, <1>6, Zenon
<1> QED  BY <1>2, <1>7, Zenon DEF a, n

\* What is kept is of S and was there.
LEMMA OnlyType ==
  ASSUME NEW T, NEW s \in Seq(T), NEW S
  PROVE  Only(s, S) \in Seq(T \cap S) /\ Only(s, S) \in Seq(T)
<1> DEFINE Good == {r \in Seq(T) : Only(r, S) \in Seq(T \cap S)}
<1>1. <<>> \in Good
  <2>1. <<>> \in Seq(T) /\ <<>> \in Seq(T \cap S)
    OBVIOUS
  <2> QED  BY <2>1, OnlyEmpty
<1>2. ASSUME NEW r \in Good, NEW e \in T PROVE Append(r, e) \in Good
  <2>1. r \in Seq(T) /\ Only(r, S) \in Seq(T \cap S) /\ Append(r, e) \in Seq(T)
    OBVIOUS
  <2>2. Only(Append(r, e), S) = IF e \in S THEN Append(Only(r, S), e) ELSE Only(r, S)
    BY <2>1, OnlyAppend
  <2>3. CASE e \in S
    <3>1. e \in T \cap S
      BY <2>3
    <3>2. Append(Only(r, S), e) \in Seq(T \cap S)
      BY <2>1, <3>1, AppendFacts
    <3> QED  BY <2>1, <2>2, <2>3, <3>2
  <2>4. CASE e \notin S
    BY <2>1, <2>2, <2>4
  <2> QED  BY <2>3, <2>4
<1>3. Good = Seq(T)
  <2>1. Good \in SUBSET Seq(T)
    OBVIOUS
  <2> HIDE DEF Good
  <2> QED  BY <1>1, <1>2, <2>1, AppendInduction
<1>4. Only(s, S) \in Seq(T \cap S)
  BY <1>3
<1>5. \A r \in Seq(T \cap S) : r \in Seq(T)
  OBVIOUS
<1> QED  BY <1>4, <1>5

\* Filters compose.
LEMMA OnlyOnly ==
  ASSUME NEW T, NEW s \in Seq(T), NEW A, NEW B
  PROVE  Only(Only(s, A), B) = Only(s, A \cap B)
<1> DEFINE Good == {r \in Seq(T) : Only(Only(r, A), B) = Only(r, A \cap B)}
<1>1. <<>> \in Good
  <2>1. <<>> \in Seq(T)
    OBVIOUS
  <2>2. Only(<<>>, A) = <<>> /\ Only(<<>>, B) = <<>> /\ Only(<<>>, A \cap B) = <<>>
    BY OnlyEmpty
  <2> QED  BY <2>1, <2>2
<1>2. ASSUME NEW r \in Good, NEW e \in T PROVE Append(r, e) \in Good
  <2>1. r \in Seq(T) /\ Only(Only(r, A), B) = Only(r, A \cap B) /\ Append(r, e) \in Seq(T)
    BY AppendFacts
  <2>2. Only(Append(r, e), A) = IF e \in A THEN Append(Only(r, A), e) ELSE Only(r, A)
    BY <2>1, OnlyAppend
  <2>3. Only(Append(r, e), A \cap B)
          = IF e \in A \cap B THEN Append(Only(r, A \cap B), e) ELSE Only(r, A \cap B)
    BY <2>1, OnlyAppend
  <2>4. Only(r, A) \in Seq(T)
    BY <2>1, OnlyType
  <2>5. Only(Append(Only(r, A), e), B)
          = IF e \in B THEN Append(Only(Only(r, A), B), e) ELSE Only(Only(r, A), B)
    <3> DEFINE q == Only(r, A)
    <3>1. q \in Seq(T)
      BY <2>4
    <3> HIDE DEF q
    <3>2. Only(Append(q, e), B) = IF e \in B THEN Append(Only(q, B), e) ELSE Only(q, B)
      BY <3>1, OnlyAppend
    <3> QED  BY <3>2 DEF q
  <2>6. Only(Only(Append(r, e), A), B) = Only(Append(r, e), A \cap B)
    <3>1. CASE e \in A /\ e \in B
      <4>1. e \in A \cap B
        BY <3>1
      <4> QED  BY <2>1, <2>2, <2>3, <2>5, <3>1, <4>1, Zenon
    <3>2. CASE e \in A /\ e \notin B
      <4>1. e \notin A \cap B
        BY <3>2
      <4> QED  BY <2>1, <2>2, <2>3, <2>5, <3>2, <4>1, Zenon
    <3>3. CASE e \notin A
      <4>1. e \notin A \cap B
        BY <3>3
      <4> QED  BY <2>1, <2>2, <2>3, <3>3, <4>1, Zenon
    <3> QED  BY <3>1, <3>2, <3>3, Zenon
  <2> QED  BY <2>1, <2>6
<1>3. Good = Seq(T)
  <2>1. Good \in SUBSET Seq(T)
    OBVIOUS
  <2> HIDE DEF Good
  <2> QED  BY <1>1, <1>2, <2>1, AppendInduction
<1> QED  BY <1>3

\* A filter looks at its own elements only.
LEMMA OnlySame ==
  ASSUME NEW T, NEW s \in Seq(T), NEW A, NEW B, T \cap A = T \cap B
  PROVE  Only(s, A) = Only(s, B)
<1> DEFINE Good == {r \in Seq(T) : Only(r, A) = Only(r, B)}
<1>1. <<>> \in Good
  <2>1. <<>> \in Seq(T)
    OBVIOUS
  <2>2. Only(<<>>, A) = <<>> /\ Only(<<>>, B) = <<>>
    BY OnlyEmpty
  <2> QED  BY <2>1, <2>2
<1>2. ASSUME NEW r \in Good, NEW e \in T PROVE Append(r, e) \in Good
  <2>1. r \in Seq(T) /\ Only(r, A) = Only(r, B) /\ Append(r, e) \in Seq(T)
    BY AppendFacts
  <2>2. Only(Append(r, e), A) = IF e \in A THEN Append(Only(r, A), e) ELSE Only(r, A)
    BY <2>1, OnlyAppend
  <2>3. Only(Append(r, e), B) = IF e \in B THEN Append(Only(r, B), e) ELSE Only(r, B)
    BY <2>1, OnlyAppend
  <2>4. e \in A <=> e \in B
    OBVIOUS
  <2>5. Only(Append(r, e), A) = Only(Append(r, e), B)
    BY <2>1, <2>2, <2>3, <2>4, Zenon
  <2> QED  BY <2>1, <2>5
<1>3. Good = Seq(T)
  <2>1. Good \in SUBSET Seq(T)
    OBVIOUS
  <2> HIDE DEF Good
  <2> QED  BY <1>1, <1>2, <2>1, AppendInduction
<1> QED  BY <1>3

\* A filter that everything passes changes nothing, one that nothing passes leaves nothing.
LEMMA OnlyAllOrNone ==
  ASSUME NEW T, NEW s \in Seq(T), NEW S
  PROVE  /\ T \subseteq S => Only(s, S) = s
         /\ T \cap S = {} => Only(s, S) = <<>>
<1> DEFINE Good == {r \in Seq(T) : /\ T \subseteq S => Only(r, S) = r
                                   /\ T \cap S = {} => Only(r, S) = <<>>}
<1>1. <<>> \in Good
  <2>1. <<>> \in Seq(T)
    OBVIOUS
  <2> QED  BY <2>1, OnlyEmpty
<1>2. ASSUME NEW r \in Good, NEW e \in T PROVE Append(r, e) \in Good
  <2>1. r \in Seq(T) /\ Append(r, e) \in Seq(T)
    BY AppendFacts
  <2>2. Only(Append(r, e), S) = IF e \in S THEN Append(Only(r, S), e) ELSE Only(r, S)
    BY <2>1, OnlyAppend
  <2>3. (T \subseteq S => Only(r, S) = r) /\ (T \cap S = {} => Only(r, S) = <<>>)
    BY Zenon
  <2>4. T \subseteq S => e \in S
    OBVIOUS
  <2>5. T \cap S = {} => e \notin S
    OBVIOUS
  <2>6. T \subseteq S => Only(Append(r, e), S) = Append(r, e)
    BY <2>2, <2>3, <2>4, Zenon
  <2>7. T \cap S = {} => Only(Append(r, e), S) = <<>>
    BY <2>2, <2>3, <2>5, Zenon
  <2> QED  BY <2>1, <2>6, <2>7, Zenon
<1>3. Good = Seq(T)
  <2>1. Good \in SUBSET Seq(T)
    OBVIOUS
  <2> HIDE DEF Good
  <2> QED  BY <1>1, <1>2, <2>1, AppendInduction
<1> QED  BY <1>3, Zenon

\* A filter and its complement share a sequence out.
LEMMA OnlyLen ==
  ASSUME NEW T, NEW s \in Seq(T), NEW S
  PROVE  /\ Len(s) \in Nat /\ Len(Only(s, S)) \in Nat /\ Len(Only(s, T \ S)) \in Nat
         /\ Len(Only(s, S)) + Len(Only(s, T \ S)) = Len(s)
<1> DEFINE Good == {r \in Seq(T) : Len(Only(r, S)) + Len(Only(r, T \ S)) = Len(r)}
<1>1. <<>> \in Good
  <2>1. <<>> \in Seq(T) /\ Len(<<>>) = 0
    OBVIOUS
  <2>2. Only(<<>>, S) = <<>> /\ Only(<<>>, T \ S) = <<>>
    BY OnlyEmpty
  <2>3. Len(Only(<<>>, S)) + Len(Only(<<>>, T \ S)) = Len(<<>>)
    <3>1. Len(Only(<<>>, S)) = 0 /\ Len(Only(<<>>, T \ S)) = 0
      BY <2>1, <2>2, Zenon
    <3> QED  BY <2>1, <3>1
  <2> QED  BY <2>1, <2>3, Zenon
<1>t. ASSUME NEW r \in Seq(T), NEW A PROVE Only(r, A) \in Seq(T) /\ Len(Only(r, A)) \in Nat
  <2>1. Only(r, A) \in Seq(T)
    BY OnlyType
  <2> QED  BY <2>1
<1>2. ASSUME NEW r \in Good, NEW e \in T PROVE Append(r, e) \in Good
  <2>1. /\ r \in Seq(T) /\ Len(Only(r, S)) + Len(Only(r, T \ S)) = Len(r)
        /\ Append(r, e) \in Seq(T) /\ Len(Append(r, e)) = Len(r) + 1
    BY AppendFacts
  <2>2. Only(Append(r, e), S) = IF e \in S THEN Append(Only(r, S), e) ELSE Only(r, S)
    BY <2>1, OnlyAppend
  <2>3. Only(Append(r, e), T \ S) = IF e \in T \ S THEN Append(Only(r, T \ S), e) ELSE Only(r, T \ S)
    BY <2>1, OnlyAppend
  <2>4. /\ Len(Append(Only(r, S), e)) = Len(Only(r, S)) + 1
        /\ Len(Append(Only(r, T \ S), e)) = Len(Only(r, T \ S)) + 1
        /\ Len(Only(r, S)) \in Nat /\ Len(Only(r, T \ S)) \in Nat
    BY <1>t, <2>1, AppendFacts
  <2>5. e \in T \ S <=> e \notin S
    OBVIOUS
  <2>6. Len(Only(Append(r, e), S)) + Len(Only(Append(r, e), T \ S)) = Len(Append(r, e))
    <3>1. CASE e \in S
      <4>1. Only(Append(r, e), S) = Append(Only(r, S), e) /\ Only(Append(r, e), T \ S) = Only(r, T \ S)
        BY <2>2, <2>3, <2>5, <3>1, Zenon
      <4>2. Len(Only(Append(r, e), S)) = Len(Only(r, S)) + 1
        BY <2>4, <4>1, Zenon
      <4>3. Len(Only(Append(r, e), T \ S)) = Len(Only(r, T \ S))
        BY <4>1, Zenon
      <4> QED  BY <2>1, <2>4, <4>2, <4>3
    <3>2. CASE e \notin S
      <4>1. Only(Append(r, e), S) = Only(r, S) /\ Only(Append(r, e), T \ S) = Append(Only(r, T \ S), e)
        BY <2>2, <2>3, <2>5, <3>2, Zenon
      <4>2. Len(Only(Append(r, e), S)) = Len(Only(r, S))
        BY <4>1, Zenon
      <4>3. Len(Only(Append(r, e), T \ S)) = Len(Only(r, T \ S)) + 1
        BY <2>4, <4>1, Zenon
      <4> QED  BY <2>1, <2>4, <4>2, <4>3
    <3> QED  BY <3>1, <3>2
  <2> QED  BY <2>1, <2>6
<1>3. Good = Seq(T)
  <2>1. Good \in SUBSET Seq(T)
    OBVIOUS
  <2> HIDE DEF Good
  <2> QED  BY <1>1, <1>2, <2>1, AppendInduction
<1>4. Len(Only(s, S)) + Len(Only(s, T \ S)) = Len(s)
  BY <1>3
<1>5. Len(Only(s, S)) \in Nat /\ Len(Only(s, T \ S)) \in Nat
  BY <1>t
<1> QED  BY <1>4, <1>5

LEMMA ConcatFacts ==
  ASSUME NEW T, NEW s \in Seq(T), NEW t \in Seq(T)
  PROVE  /\ s \o t \in Seq(T) /\ Len(s \o t) = Len(s) + Len(t) /\ Len(s) \in Nat /\ Len(t) \in Nat
         /\ s \o <<>> = s /\ <<>> \o s = s
         /\ \A e \in T : s \o Append(t, e) = Append(s \o t, e) /\ s \o <<e>> = Append(s, e)
<1>1. /\ s \o t \in Seq(T) /\ Len(s \o t) = Len(s) + Len(t) /\ Len(s) \in Nat /\ Len(t) \in Nat
      /\ s \o <<>> = s /\ <<>> \o s = s
  OBVIOUS
<1>2. ASSUME NEW e \in T PROVE s \o Append(t, e) = Append(s \o t, e) /\ s \o <<e>> = Append(s, e)
  OBVIOUS
<1> QED  BY <1>1, <1>2

LEMMA ConcatTwice ==
  ASSUME NEW T, NEW r \in Seq(T), NEW s \in Seq(T), NEW t \in Seq(T)
  PROVE  (r \o s) \o t = r \o (s \o t)
OBVIOUS

LEMMA BytesConcat ==
  ASSUME NEW r \in Seq(Byte), NEW s \in Seq(Byte)
  PROVE  r \o s \in Seq(Byte) /\ Len(r \o s) = Len(r) + Len(s) /\ Len(r) \in Nat /\ Len(s) \in Nat
BY ConcatFacts

LEMMA BytesTwice ==
  ASSUME NEW r \in Seq(Byte), NEW s \in Seq(Byte), NEW t \in Seq(Byte)
  PROVE  (r \o s) \o t = r \o (s \o t)
OBVIOUS

LEMMA OnlyConcat ==
  ASSUME NEW T, NEW s \in Seq(T), NEW t \in Seq(T), NEW S
  PROVE  Only(s \o t, S) = Only(s, S) \o Only(t, S)
<1> DEFINE Good == {r \in Seq(T) : Only(s \o r, S) = Only(s, S) \o Only(r, S)}
<1>t. ASSUME NEW r \in Seq(T) PROVE Only(r, S) \in Seq(T)
  BY OnlyType
<1>1. <<>> \in Good
  <2>1. <<>> \in Seq(T) /\ s \o <<>> = s
    OBVIOUS
  <2>2. Only(s, S) \o <<>> = Only(s, S)
    BY <1>t, ConcatFacts
  <2>3. Only(s \o <<>>, S) = Only(s, S) \o Only(<<>>, S)
    BY <2>1, <2>2, OnlyEmpty, Zenon
  <2> QED  BY <2>1, <2>3
<1>2. ASSUME NEW r \in Good, NEW e \in T PROVE Append(r, e) \in Good
  <2>1. /\ r \in Seq(T) /\ Only(s \o r, S) = Only(s, S) \o Only(r, S) /\ Append(r, e) \in Seq(T)
        /\ s \o r \in Seq(T) /\ s \o Append(r, e) = Append(s \o r, e)
    <3>1. r \in Seq(T) /\ Only(s \o r, S) = Only(s, S) \o Only(r, S)
      OBVIOUS
    <3> HIDE DEF Good
    <3>2. Append(r, e) \in Seq(T)
      BY <3>1, AppendFacts
    <3>3. s \o r \in Seq(T) /\ s \o Append(r, e) = Append(s \o r, e)
      BY <3>1, ConcatFacts
    <3> QED  BY <3>1, <3>2, <3>3
  <2>2. Only(Append(r, e), S) = IF e \in S THEN Append(Only(r, S), e) ELSE Only(r, S)
    BY <2>1, OnlyAppend
  <2>3. Only(Append(s \o r, e), S) = IF e \in S THEN Append(Only(s \o r, S), e) ELSE Only(s \o r, S)
    <3> DEFINE c == s \o r
    <3>1. c \in Seq(T)
      BY <2>1
    <3> HIDE DEF c
    <3>2. Only(Append(c, e), S) = IF e \in S THEN Append(Only(c, S), e) ELSE Only(c, S)
      BY <3>1, OnlyAppend
    <3> QED  BY <3>2 DEF c
  <2>4. Only(s, S) \o Append(Only(r, S), e) = Append(Only(s, S) \o Only(r, S), e)
    <3>1. Only(s, S) \in Seq(T) /\ Only(r, S) \in Seq(T)
      BY <1>t, <2>1
    <3> QED  BY <3>1, ConcatFacts
  <2>5. Only(s \o Append(r, e), S) = Only(s, S) \o Only(Append(r, e), S)
    BY <2>1, <2>2, <2>3, <2>4, Zenon
  <2> QED  BY <2>1, <2>5
<1>3. Good = Seq(T)
  <2>1. Good \in SUBSET Seq(T)
    OBVIOUS
  <2> HIDE DEF Good
  <2> QED  BY <1>1, <1>2, <2>1, AppendInduction
<1> QED  BY <1>3

LEMMA OnlyOne ==
  ASSUME NEW e, NEW S
  PROVE  Only(<<e>>, S) = IF e \in S THEN <<e>> ELSE <<>>
<1>1. <<>> \in Seq({e}) /\ e \in {e} /\ Append(<<>>, e) = <<e>>
  OBVIOUS
<1>2. Only(Append(<<>>, e), S) = IF e \in S THEN Append(Only(<<>>, S), e) ELSE Only(<<>>, S)
  BY <1>1, OnlyAppend
<1> QED  BY <1>1, <1>2, OnlyEmpty, Zenon

-----------------------------------------------------------------------------
(* Sorted *)

LEMMA NumbersAreInt == \A n \in Number : n \in Int /\ n \in Nat
<1>1. Word - 1 \in Int
  BY DEF Word
<1> QED  BY <1>1 DEF Number

LEMMA OptionFields ==
  ASSUME NEW o \in Option
  PROVE  o.id \in Number /\ o.id \in Int /\ o.val \in Value
<1>1. o.id \in Number /\ o.val \in Value
  BY SMT DEF Option
<1> QED  BY <1>1, NumbersAreInt, Zenon

LEMMA OrderedAppend ==
  ASSUME NEW r \in Seq(Option), NEW e \in Option
  PROVE  Ordered(Append(r, e)) <=> Ordered(r) /\ r \in Seq(UpTo(e.id))
<1> DEFINE a == Append(r, e)
           n == Len(r)
<1>1. /\ a \in Seq(Option) /\ n \in Nat /\ Len(a) = n + 1
      /\ (\A k \in 1 .. n : a[k] = r[k]) /\ a[n + 1] = e
  BY AppendFacts
<1>2. DOMAIN a = 1 .. n + 1 /\ DOMAIN r = 1 .. n
  BY <1>1
<1>3. \A k \in 1 .. n : r[k] \in Option /\ r[k].id \in Int
  <2>1. \A k \in 1 .. n : r[k] \in Option
    OBVIOUS
  <2> QED  BY <2>1, OptionFields
<1>4. e.id \in Int
  BY OptionFields
<1> HIDE DEF a, n
<1>5. ASSUME Ordered(a) PROVE Ordered(r) /\ r \in Seq(UpTo(e.id))
  <2>1. ASSUME NEW i \in 1 .. n, NEW j \in 1 .. n, i <= j PROVE r[i].id <= r[j].id
    <3>1. i \in 1 .. n + 1 /\ j \in 1 .. n + 1
      BY <1>1
    <3> QED  BY <1>1, <1>2, <1>5, <2>1, <3>1 DEF Ordered
  <2>2. ASSUME NEW i \in 1 .. n PROVE r[i] \in UpTo(e.id)
    <3>1. i \in 1 .. n + 1 /\ n + 1 \in 1 .. n + 1 /\ i <= n + 1
      BY <1>1
    <3>2. a[i].id <= a[n + 1].id
      BY <1>2, <1>5, <3>1 DEF Ordered
    <3> QED  BY <1>1, <1>3, <3>2 DEF UpTo
  <2>3. r \in Seq(UpTo(e.id))
    BY <2>2 DEF n
  <2> QED  BY <1>2, <2>1, <2>3 DEF Ordered
<1>6. ASSUME Ordered(r), r \in Seq(UpTo(e.id)) PROVE Ordered(a)
  <2>1. \A i \in 1 .. n : r[i].id <= e.id
    <3>1. \A i \in 1 .. n : r[i] \in UpTo(e.id)
      BY <1>6 DEF n
    <3> QED  BY <3>1 DEF UpTo
  <2>2. ASSUME NEW i \in 1 .. n + 1, NEW j \in 1 .. n + 1, i <= j PROVE a[i].id <= a[j].id
    <3>1. CASE j \in 1 .. n
      <4>1. i \in 1 .. n /\ a[i] = r[i] /\ a[j] = r[j]
        BY <1>1, <2>2, <3>1
      <4> QED  BY <1>2, <1>6, <2>2, <3>1, <4>1 DEF Ordered
    <3>2. CASE j = n + 1 /\ i \in 1 .. n
      BY <1>1, <2>1, <3>2
    <3>3. CASE j = n + 1 /\ i = n + 1
      BY <1>1, <1>4, <3>3
    <3> QED  BY <1>1, <2>2, <3>1, <3>2, <3>3
  <2> QED  BY <1>2, <2>2 DEF Ordered
<1> QED  BY <1>5, <1>6 DEF a

LEMMA OnlyOrdered ==
  ASSUME NEW s \in Seq(Option), NEW S, Ordered(s)
  PROVE  Ordered(Only(s, S))
<1> DEFINE Good == {r \in Seq(Option) : Ordered(r) => Ordered(Only(r, S))}
<1>t. ASSUME NEW r \in Seq(Option) PROVE Only(r, S) \in Seq(Option)
  BY OnlyType
<1>1. <<>> \in Good
  <2>1. <<>> \in Seq(Option) /\ Ordered(<<>>)
    BY DEF Ordered
  <2> QED  BY <2>1, OnlyEmpty
<1>2. ASSUME NEW r \in Good, NEW e \in Option PROVE Append(r, e) \in Good
  <2>1. r \in Seq(Option) /\ (Ordered(r) => Ordered(Only(r, S))) /\ Append(r, e) \in Seq(Option)
    BY AppendFacts
  <2>2. Only(Append(r, e), S) = IF e \in S THEN Append(Only(r, S), e) ELSE Only(r, S)
    BY <2>1, OnlyAppend
  <2>3. ASSUME Ordered(Append(r, e)) PROVE Ordered(Only(Append(r, e), S))
    <3>1. Ordered(r) /\ r \in Seq(UpTo(e.id))
      BY <2>1, <2>3, OrderedAppend
    <3>2. Only(r, S) \in Seq(Option) /\ Only(r, S) \in Seq(UpTo(e.id)) /\ Ordered(Only(r, S))
      BY <2>1, <3>1, OnlyType
    <3>3. Ordered(Append(Only(r, S), e))
      BY <3>2, OrderedAppend
    <3> QED  BY <2>2, <3>2, <3>3, Zenon
  <2> QED  BY <2>1, <2>3
<1>3. Good = Seq(Option)
  <2>1. Good \in SUBSET Seq(Option)
    OBVIOUS
  <2> HIDE DEF Good
  <2> QED  BY <1>1, <1>2, <2>1, AppendInduction
<1> QED  BY <1>3

LEMMA OrderedAround ==
  ASSUME NEW low \in Seq(Option), NEW high \in Seq(Option), NEW o \in Option,
         Ordered(low), Ordered(high), low \in Seq(UpTo(o.id)), high \in Seq(Beyond(o.id))
  PROVE  Ordered(low \o <<o>> \o high)
<1> DEFINE a == low \o <<o>> \o high
           m == Len(low)
           n == Len(high)
<1>1. /\ m \in Nat /\ n \in Nat /\ a \in Seq(Option) /\ Len(a) = m + 1 + n
      /\ \A k \in 1 .. m : a[k] = low[k]
      /\ a[m + 1] = o
      /\ \A k \in m + 2 .. m + 1 + n : a[k] = high[k - (m + 1)]
  OBVIOUS
<1>2. DOMAIN a = 1 .. m + 1 + n /\ DOMAIN low = 1 .. m /\ DOMAIN high = 1 .. n
  BY <1>1
<1>3. /\ o.id \in Int
      /\ \A k \in 1 .. m : low[k].id \in Int /\ low[k].id <= o.id
      /\ \A k \in 1 .. n : high[k].id \in Int /\ high[k].id > o.id
  <2>1. \A k \in 1 .. m : low[k] \in UpTo(o.id)
    OBVIOUS
  <2>2. \A k \in 1 .. n : high[k] \in Beyond(o.id)
    OBVIOUS
  <2>3. o.id \in Int
    BY OptionFields
  <2>4. ASSUME NEW k \in 1 .. m PROVE low[k].id \in Int /\ low[k].id <= o.id
    <3>1. low[k] \in Option /\ low[k].id <= o.id
      BY <2>1, Zenon DEF UpTo
    <3> QED  BY <3>1, OptionFields
  <2>5. ASSUME NEW k \in 1 .. n PROVE high[k].id \in Int /\ high[k].id > o.id
    <3>1. high[k] \in Option /\ high[k].id > o.id
      BY <2>2, Zenon DEF Beyond
    <3> QED  BY <3>1, OptionFields
  <2> QED  BY <2>3, <2>4, <2>5
<1>o. /\ \A i, j \in 1 .. m : i <= j => low[i].id <= low[j].id
      /\ \A i, j \in 1 .. n : i <= j => high[i].id <= high[j].id
  BY <1>2 DEF Ordered
<1> HIDE DEF a, m, n
<1>4. ASSUME NEW i \in 1 .. m + 1 + n, NEW j \in 1 .. m + 1 + n, i <= j PROVE a[i].id <= a[j].id
  <2>1. CASE j \in 1 .. m
    <3>1. i \in 1 .. m
      BY <1>1, <1>4, <2>1
    <3> QED  BY <1>1, <1>4, <1>o, <2>1, <3>1
  <2>2. CASE j = m + 1
    <3>1. i \in 1 .. m \/ i = m + 1
      BY <1>1, <1>4, <2>2
    <3>2. CASE i \in 1 .. m
      <4>1. a[i] = low[i] /\ low[i].id <= o.id /\ a[j] = o
        BY <1>1, <1>3, <2>2, <3>2
      <4> QED  BY <4>1, Zenon
    <3>3. CASE i = m + 1
      <4>1. a[i] = o /\ a[j] = o /\ o.id <= o.id
        BY <1>1, <1>3, <2>2, <3>3
      <4> QED  BY <4>1, Zenon
    <3> QED  BY <3>1, <3>2, <3>3
  <2>3. CASE j \in m + 2 .. m + 1 + n
    <3>1. j - (m + 1) \in 1 .. n /\ a[j] = high[j - (m + 1)]
      BY <1>1, <2>3
    <3>2. CASE i \in m + 2 .. m + 1 + n
      <4>1. i - (m + 1) \in 1 .. n /\ a[i] = high[i - (m + 1)] /\ i - (m + 1) <= j - (m + 1)
        BY <1>1, <1>4, <3>2
      <4> QED  BY <1>o, <3>1, <4>1
    <3>3. CASE i \in 1 .. m + 1
      <4>1. i \in 1 .. m \/ i = m + 1
        BY <1>1, <3>3
      <4>2. a[i].id \in Int /\ a[i].id <= o.id
        BY <1>1, <1>3, <4>1
      <4>3. a[j].id \in Int /\ a[j].id > o.id
        BY <1>3, <3>1
      <4> QED  BY <1>3, <4>2, <4>3
    <3> QED  BY <1>1, <3>2, <3>3
  <2> QED  BY <1>1, <2>1, <2>2, <2>3
<1> QED  BY <1>2, <1>4 DEF Ordered, a

\* Sorted, unfolded: each option is inserted among those before it.
LEMMA SortedForm ==
  ASSUME NEW T, NEW opts \in Seq(T)
  PROVE  \E f : /\ f[0] = <<>>
                /\ \A k \in 1 .. Len(opts) : f[k] = Insert(f[k - 1], opts[k])
                /\ Sorted(opts) = f[Len(opts)]
<1> DEFINE n == Len(opts)
           Is(f, m) == f = [k \in 0 .. m |->
                              IF k = 0 THEN <<>> ELSE Insert(f[k - 1], opts[k])]
           Exists(m) == \E f : Is(f, m)
           g == CHOOSE f : Is(f, n)
           Holds == {m \in 0 .. n : Exists(m)}
<1>1. n \in Nat
  OBVIOUS
<1>2. Sorted(opts) = g[n]
  BY DEF Sorted
<1> HIDE DEF n
<1>3. Exists(0)
  <2> DEFINE f == [k \in 0 .. 0 |-> <<>>]
  <2>1. ASSUME NEW k \in 0 .. 0
        PROVE  f[k] = IF k = 0 THEN <<>> ELSE Insert(f[k - 1], opts[k])
    OBVIOUS
  <2>2. f = [k \in 0 .. 0 |-> f[k]]
    OBVIOUS
  <2> HIDE DEF f
  <2>3. Is(f, 0)
    BY <2>1, <2>2, Zenon
  <2> QED  BY <2>3, Zenon
<1>4. ASSUME NEW m \in 1 .. n, Exists(m - 1) PROVE Exists(m)
  <2>1. PICK f : Is(f, m - 1)
    BY <1>4, Zenon
  <2> DEFINE h == [k \in 0 .. m |-> IF k = m THEN Insert(f[m - 1], opts[m]) ELSE f[k]]
  <2>2. ASSUME NEW k \in 0 .. m
        PROVE  h[k] = IF k = 0 THEN <<>> ELSE Insert(h[k - 1], opts[k])
    <3>0. m \in Nat /\ m >= 1
      BY <1>1
    <3>1. CASE k = 0
      <4>1. k # m /\ k \in 0 .. m - 1
        BY <3>0, <3>1
      <4>2. h[k] = f[k]
        BY <4>1
      <4>3. f[k] = <<>>
        BY <2>1, <3>1, <4>1, Zenon
      <4> QED  BY <3>1, <4>2, <4>3, Zenon
    <3>2. CASE k = m
      <4>1. k # 0 /\ k - 1 \in 0 .. m /\ k - 1 # m
        BY <3>0, <3>2
      <4>2. h[k - 1] = f[m - 1]
        BY <4>1, <3>2, Zenon
      <4>3. h[k] = Insert(f[m - 1], opts[m])
        BY <3>2, Zenon
      <4> HIDE DEF h
      <4> QED  BY <4>1, <4>2, <4>3, <3>2, Zenon
    <3>3. CASE k # 0 /\ k # m
      <4>1. k \in 0 .. m - 1 /\ k - 1 \in 0 .. m /\ k - 1 # m
        BY <3>0, <3>3
      <4>2. h[k] = f[k] /\ h[k - 1] = f[k - 1]
        BY <4>1, <3>3, Zenon
      <4>3. f[k] = Insert(f[k - 1], opts[k])
        BY <2>1, <4>1, <3>3, Zenon
      <4> HIDE DEF h
      <4> QED  BY <3>3, <4>2, <4>3, Zenon
    <3> QED  BY <3>1, <3>2, <3>3
  <2>3. h = [k \in 0 .. m |-> h[k]]
    BY Zenon
  <2> HIDE DEF h
  <2>4. Is(h, m)
    BY <2>2, <2>3, Zenon
  <2> QED  BY <2>4, Zenon
<1>5. Exists(n)
  <2> HIDE DEF Exists
  <2>1. Holds \in SUBSET (0 .. n) /\ 0 \in Holds
    BY <1>1, <1>3
  <2>2. \A m \in 1 .. n : m - 1 \in Holds => m \in Holds
    BY <1>1, <1>4
  <2>3. Holds = 0 .. n
    <3> HIDE DEF Holds
    <3> QED  BY <1>1, <2>1, <2>2, BoundedInduction
  <2> QED  BY <1>1, <2>3
<1>6. Is(g, n)
  BY <1>5, Zenon
<1> HIDE DEF g
<1>7. g[0] = <<>>
  <2>1. 0 \in 0 .. n
    BY <1>1
  <2> QED  BY <1>6, <2>1, Zenon
<1>8. ASSUME NEW k \in 1 .. n PROVE g[k] = Insert(g[k - 1], opts[k])
  <2>1. k \in 0 .. n /\ k # 0
    BY <1>1
  <2> QED  BY <1>6, <2>1, Zenon
<1> QED  BY <1>2, <1>7, <1>8, Zenon DEF n

LEMMA SortedEmpty == Sorted(<<>>) = <<>>
<1> DEFINE s == <<>>
<1>1. s \in Seq({}) /\ Len(s) = 0
  OBVIOUS
<1> HIDE DEF s
<1>2. PICK f : /\ f[0] = <<>>
               /\ \A k \in 1 .. Len(s) : f[k] = Insert(f[k - 1], s[k])
               /\ Sorted(s) = f[Len(s)]
  BY <1>1, SortedForm
<1>3. Sorted(s) = <<>>
  BY <1>1, <1>2, Zenon
<1> QED  BY <1>3 DEF s

LEMMA SortedAppend ==
  ASSUME NEW T, NEW s \in Seq(T), NEW e \in T
  PROVE  Sorted(Append(s, e)) = Insert(Sorted(s), e)
<1> DEFINE n == Len(s)
           a == Append(s, e)
<1>1. a \in Seq(T) /\ n \in Nat /\ Len(a) = n + 1 /\ (\A k \in 1 .. n : a[k] = s[k]) /\ a[n + 1] = e
  BY AppendFacts
<1>2. PICK f : /\ f[0] = <<>>
               /\ \A k \in 1 .. n : f[k] = Insert(f[k - 1], s[k])
               /\ Sorted(s) = f[n]
  BY SortedForm
<1> HIDE DEF a
<1>3. PICK g : /\ g[0] = <<>>
               /\ \A k \in 1 .. Len(a) : g[k] = Insert(g[k - 1], a[k])
               /\ Sorted(a) = g[Len(a)]
  BY <1>1, SortedForm
<1> HIDE DEF n
<1>4. f[n] = g[n]
  <2> DEFINE Holds == {k \in 0 .. n : f[k] = g[k]}
  <2>1. Holds \in SUBSET (0 .. n) /\ 0 \in Holds
    BY <1>1, <1>2, <1>3
  <2>2. ASSUME NEW k \in 1 .. n, k - 1 \in Holds PROVE k \in Holds
    <3>1. k \in 1 .. Len(a) /\ a[k] = s[k] /\ f[k - 1] = g[k - 1] /\ k \in 0 .. n
      BY <1>1, <2>2
    <3>2. f[k] = g[k]
      BY <1>2, <1>3, <3>1, Zenon
    <3> QED  BY <3>1, <3>2
  <2>3. Holds = 0 .. n
    <3> HIDE DEF Holds
    <3> QED  BY <1>1, <2>1, <2>2, BoundedInduction
  <2>4. n \in Holds
    BY <1>1, <2>3
  <2> QED  BY <2>4
<1>5. n + 1 \in 1 .. Len(a) /\ (n + 1) - 1 = n
  BY <1>1
<1>6. g[n + 1] = Insert(g[(n + 1) - 1], a[n + 1])
  BY <1>3, <1>5, Zenon
<1>7. Sorted(a) = Insert(f[n], e)
  BY <1>1, <1>3, <1>4, <1>5, <1>6, Zenon
<1> QED  BY <1>2, <1>7, Zenon DEF a, n

\* An option goes in behind those of its number and below.
LEMMA InsertFacts ==
  ASSUME NEW T \in SUBSET Option, NEW r \in Seq(T), NEW o \in T, Ordered(r)
  PROVE  /\ Insert(r, o) \in Seq(T) /\ Ordered(Insert(r, o))
         /\ Len(Insert(r, o)) = Len(r) + 1
         /\ \A id \in Number : Only(Insert(r, o), WithId(id)) = Only(Append(r, o), WithId(id))
         /\ r \in Seq(UpTo(o.id)) => Insert(r, o) = Append(r, o)
<1> DEFINE U == UpTo(o.id)
           B == Beyond(o.id)
           low == Only(r, U)
           high == Only(r, B)
<1>1. r \in Seq(Option) /\ o \in Option
  OBVIOUS
<1>2. /\ low \in Seq(T) /\ low \in Seq(T \cap U) /\ high \in Seq(T) /\ high \in Seq(T \cap B)
  BY OnlyType
<1>3. low \in Seq(Option) /\ low \in Seq(U) /\ high \in Seq(Option) /\ high \in Seq(B)
  <2> HIDE DEF low, high, U, B
  <2> QED  BY <1>2
<1>4. Ordered(low) /\ Ordered(high)
  BY <1>1, OnlyOrdered
<1>5. Insert(r, o) = (low \o <<o>>) \o high
  BY DEF Insert
<1>6. B \subseteq Option /\ Option \cap B = Option \ U
  <2>1. ASSUME NEW p \in Option PROVE p \in B <=> p \notin U
    <3>1. p.id \in Int /\ o.id \in Int
      BY <1>1, OptionFields
    <3>2. p.id > o.id <=> ~(p.id <= o.id)
      BY <3>1
    <3> QED  BY <3>2, Zenon DEF UpTo, Beyond
  <2>2. B \subseteq Option
    BY DEF Beyond
  <2> HIDE DEF U, B
  <2> QED  BY <2>1, <2>2
<1>7. Len(low) \in Nat /\ Len(high) \in Nat /\ Len(low) + Len(high) = Len(r)
  <2>1. Only(r, B) = Only(r, Option \ U)
    <3>1. Option \cap B = Option \cap (Option \ U)
      BY <1>6
    <3> QED  BY <1>1, <3>1, OnlySame
  <2> QED  BY <1>1, <2>1, OnlyLen
<1> HIDE DEF low, high
<1>8. /\ <<o>> \in Seq(T) /\ Len(<<o>>) = 1 /\ low \o <<o>> \in Seq(T)
      /\ Len(low \o <<o>>) = Len(low) + 1
  BY <1>2
<1>9. (low \o <<o>>) \o high \in Seq(T) /\ Len((low \o <<o>>) \o high) = Len(r) + 1
  <2>1. Len((low \o <<o>>) \o high) = Len(low \o <<o>>) + Len(high)
    BY <1>2, <1>8, ConcatFacts
  <2>2. (low \o <<o>>) \o high \in Seq(T)
    BY <1>2, <1>8, ConcatFacts
  <2> QED  BY <1>7, <1>8, <2>1, <2>2
<1>10. Ordered((low \o <<o>>) \o high)
  BY <1>1, <1>3, <1>4, OrderedAround
<1>11. ASSUME NEW id \in Number
       PROVE  Only((low \o <<o>>) \o high, WithId(id)) = Only(Append(r, o), WithId(id))
  <2> DEFINE W == WithId(id)
             k == Only(r, W)
  <2>1. Only((low \o <<o>>) \o high, W) = (Only(low, W) \o Only(<<o>>, W)) \o Only(high, W)
    <3> DEFINE one == <<o>>
               c == low \o one
    <3>1. one \in Seq(T) /\ c \in Seq(T)
      BY <1>8
    <3> HIDE DEF c, one, W
    <3>a. ASSUME NEW u \in Seq(T), NEW v \in Seq(T) PROVE Only(u \o v, W) = Only(u, W) \o Only(v, W)
      BY OnlyConcat
    <3>2. Only(c \o high, W) = Only(c, W) \o Only(high, W)
      BY <1>2, <3>1, <3>a, Zenon
    <3>3. Only(low \o one, W) = Only(low, W) \o Only(one, W)
      BY <1>2, <3>1, <3>a, Zenon
    <3> QED  BY <3>2, <3>3, Zenon DEF c, one
  <2>2. Only(low, W) = Only(r, U \cap W) /\ Only(high, W) = Only(r, B \cap W)
    BY <1>1, OnlyOnly DEF low, high
  <2>3. o.id \in Int /\ id \in Int
    BY <1>1, NumbersAreInt, OptionFields, Zenon
  <2>4. /\ \A p : p \in W <=> p \in Option /\ p.id = id
        /\ \A p : p \in U <=> p \in Option /\ p.id <= o.id
        /\ \A p : p \in B <=> p \in Option /\ p.id > o.id
    BY Zenon DEF UpTo, Beyond, WithId
  <2>5. Only(Append(r, o), W) = IF o \in W THEN Append(k, o) ELSE k
    BY <1>1, OnlyAppend
  <2>6. Only(<<o>>, W) = IF o \in W THEN <<o>> ELSE <<>>
    BY OnlyOne
  <2>7. k \in Seq(Option) /\ \A e \in Option : k \o <<e>> = Append(k, e) /\ Append(k, e) \in Seq(Option)
    <3>1. k \in Seq(Option)
      BY <1>1, OnlyType
    <3> HIDE DEF k
    <3> QED  BY <3>1
  <2>8. k \o <<>> = k /\ <<>> \o k = k /\ Append(k, o) \o <<>> = Append(k, o)
    <3> HIDE DEF k
    <3> QED  BY <1>1, <2>7
  <2> HIDE DEF W, U, B
  <2>9. CASE id = o.id
    <3>1. U \cap W = W /\ B \cap W = {} /\ o \in W
      BY <1>1, <2>3, <2>4, <2>9
    <3>2. Only(low, W) = k /\ Only(high, W) = <<>>
      <4>1. Only(r, {}) = <<>>
        <5>1. Option \cap {} = {}
          OBVIOUS
        <5> QED  BY <1>1, <5>1, OnlyAllOrNone
      <4> QED  BY <2>2, <3>1, <4>1, Zenon
    <3>3. (Only(low, W) \o Only(<<o>>, W)) \o Only(high, W) = Append(k, o)
      BY <1>1, <2>6, <2>7, <2>8, <3>1, <3>2, Zenon
    <3> QED  BY <2>1, <2>5, <3>1, <3>3, Zenon DEF W
  <2>10. CASE id < o.id
    <3>1. U \cap W = W /\ B \cap W = {} /\ o \notin W
      BY <1>1, <2>3, <2>4, <2>10
    <3>2. Only(low, W) = k /\ Only(high, W) = <<>>
      <4>1. Only(r, {}) = <<>>
        <5>1. Option \cap {} = {}
          OBVIOUS
        <5> QED  BY <1>1, <5>1, OnlyAllOrNone
      <4> QED  BY <2>2, <3>1, <4>1, Zenon
    <3>3. (Only(low, W) \o Only(<<o>>, W)) \o Only(high, W) = k
      BY <1>1, <2>6, <2>7, <2>8, <3>1, <3>2, Zenon
    <3> QED  BY <2>1, <2>5, <3>1, <3>3, Zenon DEF W
  <2>11. CASE id > o.id
    <3>1. U \cap W = {} /\ B \cap W = W /\ o \notin W
      BY <1>1, <2>3, <2>4, <2>11
    <3>2. Only(low, W) = <<>> /\ Only(high, W) = k
      <4>1. Only(r, {}) = <<>>
        <5>1. Option \cap {} = {}
          OBVIOUS
        <5> QED  BY <1>1, <5>1, OnlyAllOrNone
      <4> QED  BY <2>2, <3>1, <4>1, Zenon
    <3>3. (Only(low, W) \o Only(<<o>>, W)) \o Only(high, W) = k
      <4>1. <<>> \o <<>> = <<>>
        OBVIOUS
      <4> QED  BY <1>1, <2>6, <2>7, <2>8, <3>1, <3>2, <4>1, Zenon
    <3> QED  BY <2>1, <2>5, <3>1, <3>3, Zenon DEF W
  <2> QED  BY <2>3, <2>9, <2>10, <2>11
<1>12. ASSUME r \in Seq(U) PROVE Insert(r, o) = Append(r, o)
  <2>1. low = r
    BY <1>12, OnlyAllOrNone DEF low
  <2>2. U \cap B = {}
    BY <1>6
  <2>3. high = <<>>
    BY <1>12, <2>2, OnlyAllOrNone DEF high
  <2>4. (r \o <<o>>) \o <<>> = Append(r, o)
    OBVIOUS
  <2> QED  BY <1>5, <2>1, <2>3, <2>4, Zenon
<1> QED  BY <1>5, <1>9, <1>10, <1>11, <1>12, Zenon

LEMMA SameAppend ==
  ASSUME NEW s \in Seq(Option), NEW t \in Seq(Option), NEW e \in Option, SameOptions(s, t)
  PROVE  SameOptions(Append(s, e), Append(t, e))
<1>1. Len(Append(s, e)) = Len(Append(t, e))
  BY AppendFacts DEF SameOptions
<1>2. ASSUME NEW id \in Number PROVE Only(Append(s, e), WithId(id)) = Only(Append(t, e), WithId(id))
  <2> DEFINE W == WithId(id)
  <2>1. Only(s, W) = Only(t, W)
    BY DEF SameOptions
  <2> HIDE DEF W
  <2>2. Only(Append(s, e), W) = IF e \in W THEN Append(Only(s, W), e) ELSE Only(s, W)
    BY OnlyAppend
  <2>3. Only(Append(t, e), W) = IF e \in W THEN Append(Only(t, W), e) ELSE Only(t, W)
    BY OnlyAppend
  <2>4. Only(Append(s, e), W) = Only(Append(t, e), W)
    BY <2>1, <2>2, <2>3
  <2> QED  BY <2>4 DEF W
<1> QED  BY <1>1, <1>2 DEF SameOptions

\* The stable sort: ordered by number, and each number has the options it had,
\* in the order it had them.
LEMMA SortedFacts ==
  ASSUME NEW T \in SUBSET Option, NEW opts \in Seq(T)
  PROVE  Sorted(opts) \in Seq(T) /\ Ordered(Sorted(opts)) /\ SameOptions(Sorted(opts), opts)
<1> DEFINE Sound(s) == Sorted(s) \in Seq(T) /\ Ordered(Sorted(s)) /\ SameOptions(Sorted(s), s)
           Good == {s \in Seq(T) : Sound(s)}
<1>1. <<>> \in Good
  <2>1. <<>> \in Seq(T) /\ Ordered(<<>>) /\ SameOptions(<<>>, <<>>)
    BY DEF Ordered, SameOptions
  <2> QED  BY <2>1, SortedEmpty
<1>2. ASSUME NEW s \in Good, NEW e \in T PROVE Append(s, e) \in Good
  <2> DEFINE r == Sorted(s)
  <2>1. s \in Seq(T) /\ r \in Seq(T) /\ Ordered(r) /\ SameOptions(r, s) /\ Append(s, e) \in Seq(T)
    BY AppendFacts
  <2>2. Sorted(Append(s, e)) = Insert(r, e)
    BY <2>1, SortedAppend
  <2> HIDE DEF r
  <2>3. /\ Insert(r, e) \in Seq(T) /\ Ordered(Insert(r, e)) /\ Len(Insert(r, e)) = Len(r) + 1
        /\ \A id \in Number : Only(Insert(r, e), WithId(id)) = Only(Append(r, e), WithId(id))
    BY <2>1, InsertFacts
  <2>4. SameOptions(Append(r, e), Append(s, e))
    <3>1. r \in Seq(Option) /\ s \in Seq(Option) /\ e \in Option
      BY <2>1
    <3> QED  BY <2>1, <3>1, SameAppend
  <2>5. Len(Append(r, e)) = Len(r) + 1
    BY <2>1, AppendFacts
  <2>6. SameOptions(Insert(r, e), Append(s, e))
    BY <2>3, <2>4, <2>5, Zenon DEF SameOptions
  <2>7. Sound(Append(s, e))
    BY <2>2, <2>3, <2>6, Zenon
  <2> HIDE DEF Sound
  <2> QED  BY <2>1, <2>7
<1>3. Good = Seq(T)
  <2>1. Good \in SUBSET Seq(T)
    OBVIOUS
  <2> HIDE DEF Good
  <2> QED  BY <1>1, <1>2, <2>1, AppendInduction
<1> HIDE DEF Sound
<1>4. Sound(opts)
  BY <1>3
<1> QED  BY <1>4 DEF Sound

\* Sorting once more changes nothing.
LEMMA SortedFixed ==
  ASSUME NEW opts \in Seq(Option), Ordered(opts)
  PROVE  Sorted(opts) = opts
<1> DEFINE Good == {s \in Seq(Option) : Ordered(s) => Sorted(s) = s}
<1>1. <<>> \in Good
  <2>1. <<>> \in Seq(Option)
    OBVIOUS
  <2> QED  BY <2>1, SortedEmpty
<1>2. ASSUME NEW s \in Good, NEW e \in Option PROVE Append(s, e) \in Good
  <2>1. s \in Seq(Option) /\ (Ordered(s) => Sorted(s) = s) /\ Append(s, e) \in Seq(Option)
    BY AppendFacts
  <2>2. ASSUME Ordered(Append(s, e)) PROVE Sorted(Append(s, e)) = Append(s, e)
    <3>1. Ordered(s) /\ s \in Seq(UpTo(e.id))
      BY <2>1, <2>2, OrderedAppend
    <3>2. Sorted(Append(s, e)) = Insert(s, e)
      BY <2>1, <3>1, SortedAppend
    <3>3. Option \in SUBSET Option
      OBVIOUS
    <3> QED  BY <2>1, <3>1, <3>2, <3>3, InsertFacts
  <2> QED  BY <2>1, <2>2
<1>3. Good = Seq(Option)
  <2>1. Good \in SUBSET Seq(Option)
    OBVIOUS
  <2> HIDE DEF Good
  <2> QED  BY <1>1, <1>2, <2>1, AppendInduction
<1> QED  BY <1>3

-----------------------------------------------------------------------------
(* The layout, written and measured *)

LastId(opts) == IF opts = <<>> THEN 0 ELSE opts[Len(opts)].id

LEMMA PrevAppend ==
  ASSUME NEW s \in Seq(Option), NEW e \in Option
  PROVE  /\ \A k \in 1 .. Len(s) : Prev(Append(s, e), k) = Prev(s, k)
         /\ Prev(Append(s, e), Len(s) + 1) = LastId(s)
<1> DEFINE n == Len(s)
           a == Append(s, e)
<1>1. n \in Nat /\ (\A k \in 1 .. n : a[k] = s[k]) /\ (s = <<>> <=> n = 0)
  BY AppendFacts
<1> HIDE DEF a, n
<1>2. ASSUME NEW k \in 1 .. n PROVE Prev(a, k) = Prev(s, k)
  <2>1. CASE k = 1
    BY <2>1 DEF Prev
  <2>2. CASE k # 1
    <3>1. k - 1 \in 1 .. n
      BY <1>1, <2>2
    <3> QED  BY <1>1, <2>2, <3>1 DEF Prev
  <2> QED  BY <2>1, <2>2
<1>3. Prev(a, n + 1) = LastId(s)
  <2>1. CASE n = 0
    <3>1. n + 1 = 1
      BY <2>1
    <3> QED  BY <1>1, <2>1, <3>1, Zenon DEF Prev, LastId
  <2>2. CASE n # 0
    <3>1. n + 1 # 1 /\ (n + 1) - 1 = n /\ n \in 1 .. n
      BY <1>1, <2>2
    <3>2. Prev(a, n + 1) = a[n].id
      BY <3>1, Zenon DEF Prev
    <3> QED  BY <1>1, <2>2, <3>1, <3>2, Zenon DEF LastId, n
  <2> QED  BY <2>1, <2>2
<1> QED  BY <1>2, <1>3, Zenon DEF a, n

\* Chunks, unfolded.
LEMMA ChunksForm ==
  ASSUME NEW opts \in Seq(Option)
  PROVE  \E f : /\ f[0] = <<>>
                /\ \A k \in 1 .. Len(opts) : f[k] = f[k - 1] \o Chunk(opts[k], Prev(opts, k))
                /\ Chunks(opts) = f[Len(opts)]
<1> DEFINE n == Len(opts)
           Is(f, m) == f = [k \in 0 .. m |->
                              IF k = 0 THEN <<>> ELSE f[k - 1] \o Chunk(opts[k], Prev(opts, k))]
           Exists(m) == \E f : Is(f, m)
           g == CHOOSE f : Is(f, n)
           Holds == {m \in 0 .. n : Exists(m)}
<1>1. n \in Nat
  OBVIOUS
<1>2. Chunks(opts) = g[n]
  BY DEF Chunks
<1> HIDE DEF n
<1>3. Exists(0)
  <2> DEFINE f == [k \in 0 .. 0 |-> <<>>]
  <2>1. ASSUME NEW k \in 0 .. 0
        PROVE  f[k] = IF k = 0 THEN <<>> ELSE f[k - 1] \o Chunk(opts[k], Prev(opts, k))
    OBVIOUS
  <2>2. f = [k \in 0 .. 0 |-> f[k]]
    OBVIOUS
  <2> HIDE DEF f
  <2>3. Is(f, 0)
    BY <2>1, <2>2, Zenon
  <2> QED  BY <2>3, Zenon
<1>4. ASSUME NEW m \in 1 .. n, Exists(m - 1) PROVE Exists(m)
  <2>1. PICK f : Is(f, m - 1)
    BY <1>4, Zenon
  <2> DEFINE h == [k \in 0 .. m |-> IF k = m THEN f[m - 1] \o Chunk(opts[m], Prev(opts, m)) ELSE f[k]]
  <2>2. ASSUME NEW k \in 0 .. m
        PROVE  h[k] = IF k = 0 THEN <<>> ELSE h[k - 1] \o Chunk(opts[k], Prev(opts, k))
    <3>0. m \in Nat /\ m >= 1
      BY <1>1
    <3>1. CASE k = 0
      <4>1. k # m /\ k \in 0 .. m - 1
        BY <3>0, <3>1
      <4>2. h[k] = f[k]
        BY <4>1
      <4>3. f[k] = <<>>
        BY <2>1, <3>1, <4>1, Zenon
      <4> QED  BY <3>1, <4>2, <4>3, Zenon
    <3>2. CASE k = m
      <4>1. k # 0 /\ k - 1 \in 0 .. m /\ k - 1 # m
        BY <3>0, <3>2
      <4>2. h[k - 1] = f[m - 1]
        BY <4>1, <3>2, Zenon
      <4>3. h[k] = f[m - 1] \o Chunk(opts[m], Prev(opts, m))
        BY <3>2, Zenon
      <4> HIDE DEF h
      <4> QED  BY <4>1, <4>2, <4>3, <3>2, Zenon
    <3>3. CASE k # 0 /\ k # m
      <4>1. k \in 0 .. m - 1 /\ k - 1 \in 0 .. m /\ k - 1 # m
        BY <3>0, <3>3
      <4>2. h[k] = f[k] /\ h[k - 1] = f[k - 1]
        BY <4>1, <3>3, Zenon
      <4>3. f[k] = f[k - 1] \o Chunk(opts[k], Prev(opts, k))
        BY <2>1, <4>1, <3>3, Zenon
      <4> HIDE DEF h
      <4> QED  BY <3>3, <4>2, <4>3, Zenon
    <3> QED  BY <3>1, <3>2, <3>3
  <2>3. h = [k \in 0 .. m |-> h[k]]
    BY Zenon
  <2> HIDE DEF h
  <2>4. Is(h, m)
    BY <2>2, <2>3, Zenon
  <2> QED  BY <2>4, Zenon
<1>5. Exists(n)
  <2> HIDE DEF Exists
  <2>1. Holds \in SUBSET (0 .. n) /\ 0 \in Holds
    BY <1>1, <1>3
  <2>2. \A m \in 1 .. n : m - 1 \in Holds => m \in Holds
    BY <1>1, <1>4
  <2>3. Holds = 0 .. n
    <3> HIDE DEF Holds
    <3> QED  BY <1>1, <2>1, <2>2, BoundedInduction
  <2> QED  BY <1>1, <2>3
<1>6. Is(g, n)
  BY <1>5, Zenon
<1> HIDE DEF g
<1>7. g[0] = <<>>
  <2>1. 0 \in 0 .. n
    BY <1>1
  <2> QED  BY <1>6, <2>1, Zenon
<1>8. ASSUME NEW k \in 1 .. n PROVE g[k] = g[k - 1] \o Chunk(opts[k], Prev(opts, k))
  <2>1. k \in 0 .. n /\ k # 0
    BY <1>1
  <2> QED  BY <1>6, <2>1, Zenon
<1> QED  BY <1>2, <1>7, <1>8, Zenon DEF n

LEMMA ChunksEmpty == Chunks(<<>>) = <<>>
<1> DEFINE s == <<>>
<1>1. s \in Seq(Option) /\ Len(s) = 0
  OBVIOUS
<1> HIDE DEF s
<1>2. PICK f : /\ f[0] = <<>>
               /\ \A k \in 1 .. Len(s) : f[k] = f[k - 1] \o Chunk(s[k], Prev(s, k))
               /\ Chunks(s) = f[Len(s)]
  BY <1>1, ChunksForm
<1>3. Chunks(s) = <<>>
  BY <1>1, <1>2, Zenon
<1> QED  BY <1>3 DEF s

LEMMA ChunksAppend ==
  ASSUME NEW s \in Seq(Option), NEW e \in Option
  PROVE  Chunks(Append(s, e)) = Chunks(s) \o Chunk(e, LastId(s))
<1> DEFINE n == Len(s)
           a == Append(s, e)
<1>1. a \in Seq(Option) /\ n \in Nat /\ Len(a) = n + 1 /\ (\A k \in 1 .. n : a[k] = s[k]) /\ a[n + 1] = e
  BY AppendFacts
<1>p. (\A k \in 1 .. n : Prev(a, k) = Prev(s, k)) /\ Prev(a, n + 1) = LastId(s)
  BY PrevAppend
<1>2. PICK f : /\ f[0] = <<>>
               /\ \A k \in 1 .. n : f[k] = f[k - 1] \o Chunk(s[k], Prev(s, k))
               /\ Chunks(s) = f[n]
  BY ChunksForm
<1> HIDE DEF a
<1>3. PICK g : /\ g[0] = <<>>
               /\ \A k \in 1 .. Len(a) : g[k] = g[k - 1] \o Chunk(a[k], Prev(a, k))
               /\ Chunks(a) = g[Len(a)]
  BY <1>1, ChunksForm
<1> HIDE DEF n
<1>4. f[n] = g[n]
  <2> DEFINE Holds == {k \in 0 .. n : f[k] = g[k]}
  <2>1. Holds \in SUBSET (0 .. n) /\ 0 \in Holds
    BY <1>1, <1>2, <1>3
  <2>2. ASSUME NEW k \in 1 .. n, k - 1 \in Holds PROVE k \in Holds
    <3>1. k \in 1 .. Len(a) /\ a[k] = s[k] /\ f[k - 1] = g[k - 1] /\ k \in 0 .. n
      BY <1>1, <2>2
    <3>2. f[k] = g[k]
      BY <1>p, <1>2, <1>3, <3>1, Zenon
    <3> QED  BY <3>1, <3>2
  <2>3. Holds = 0 .. n
    <3> HIDE DEF Holds
    <3> QED  BY <1>1, <2>1, <2>2, BoundedInduction
  <2>4. n \in Holds
    BY <1>1, <2>3
  <2> QED  BY <2>4
<1>5. n + 1 \in 1 .. Len(a) /\ (n + 1) - 1 = n
  BY <1>1
<1>6. g[n + 1] = g[(n + 1) - 1] \o Chunk(a[n + 1], Prev(a, n + 1))
  BY <1>3, <1>5, Zenon
<1>7. Chunks(a) = f[n] \o Chunk(e, LastId(s))
  BY <1>1, <1>p, <1>3, <1>4, <1>5, <1>6, Zenon
<1> QED  BY <1>2, <1>7, Zenon DEF a, n

\* OptionsSize, unfolded.
LEMMA SizeForm ==
  ASSUME NEW opts \in Seq(Option)
  PROVE  \E f : /\ f[0] = 0
                /\ \A k \in 1 .. Len(opts) : f[k] = f[k - 1] + ChunkSize(opts[k], Prev(opts, k))
                /\ OptionsSize(opts) = f[Len(opts)]
<1> DEFINE n == Len(opts)
           Is(f, m) == f = [k \in 0 .. m |->
                              IF k = 0 THEN 0 ELSE f[k - 1] + ChunkSize(opts[k], Prev(opts, k))]
           Exists(m) == \E f : Is(f, m)
           g == CHOOSE f : Is(f, n)
           Holds == {m \in 0 .. n : Exists(m)}
<1>1. n \in Nat
  OBVIOUS
<1>2. OptionsSize(opts) = g[n]
  BY DEF OptionsSize
<1> HIDE DEF n
<1>3. Exists(0)
  <2> DEFINE f == [k \in 0 .. 0 |-> 0]
  <2>1. ASSUME NEW k \in 0 .. 0
        PROVE  f[k] = IF k = 0 THEN 0 ELSE f[k - 1] + ChunkSize(opts[k], Prev(opts, k))
    OBVIOUS
  <2>2. f = [k \in 0 .. 0 |-> f[k]]
    OBVIOUS
  <2> HIDE DEF f
  <2>3. Is(f, 0)
    BY <2>1, <2>2, Zenon
  <2> QED  BY <2>3, Zenon
<1>4. ASSUME NEW m \in 1 .. n, Exists(m - 1) PROVE Exists(m)
  <2>1. PICK f : Is(f, m - 1)
    BY <1>4, Zenon
  <2> DEFINE h == [k \in 0 .. m |-> IF k = m THEN f[m - 1] + ChunkSize(opts[m], Prev(opts, m)) ELSE f[k]]
  <2>2. ASSUME NEW k \in 0 .. m
        PROVE  h[k] = IF k = 0 THEN 0 ELSE h[k - 1] + ChunkSize(opts[k], Prev(opts, k))
    <3>0. m \in Nat /\ m >= 1
      BY <1>1
    <3>1. CASE k = 0
      <4>1. k # m /\ k \in 0 .. m - 1
        BY <3>0, <3>1
      <4>2. h[k] = f[k]
        BY <4>1
      <4>3. f[k] = 0
        BY <2>1, <3>1, <4>1, Zenon
      <4> QED  BY <3>1, <4>2, <4>3, Zenon
    <3>2. CASE k = m
      <4>1. k # 0 /\ k - 1 \in 0 .. m /\ k - 1 # m
        BY <3>0, <3>2
      <4>2. h[k - 1] = f[m - 1]
        BY <4>1, <3>2, Zenon
      <4>3. h[k] = f[m - 1] + ChunkSize(opts[m], Prev(opts, m))
        BY <3>2, Zenon
      <4> HIDE DEF h
      <4> QED  BY <4>1, <4>2, <4>3, <3>2, Zenon
    <3>3. CASE k # 0 /\ k # m
      <4>1. k \in 0 .. m - 1 /\ k - 1 \in 0 .. m /\ k - 1 # m
        BY <3>0, <3>3
      <4>2. h[k] = f[k] /\ h[k - 1] = f[k - 1]
        BY <4>1, <3>3, Zenon
      <4>3. f[k] = f[k - 1] + ChunkSize(opts[k], Prev(opts, k))
        BY <2>1, <4>1, <3>3, Zenon
      <4> HIDE DEF h
      <4> QED  BY <3>3, <4>2, <4>3, Zenon
    <3> QED  BY <3>1, <3>2, <3>3
  <2>3. h = [k \in 0 .. m |-> h[k]]
    BY Zenon
  <2> HIDE DEF h
  <2>4. Is(h, m)
    BY <2>2, <2>3, Zenon
  <2> QED  BY <2>4, Zenon
<1>5. Exists(n)
  <2> HIDE DEF Exists
  <2>1. Holds \in SUBSET (0 .. n) /\ 0 \in Holds
    BY <1>1, <1>3
  <2>2. \A m \in 1 .. n : m - 1 \in Holds => m \in Holds
    BY <1>1, <1>4
  <2>3. Holds = 0 .. n
    <3> HIDE DEF Holds
    <3> QED  BY <1>1, <2>1, <2>2, BoundedInduction
  <2> QED  BY <1>1, <2>3
<1>6. Is(g, n)
  BY <1>5, Zenon
<1> HIDE DEF g
<1>7. g[0] = 0
  <2>1. 0 \in 0 .. n
    BY <1>1
  <2> QED  BY <1>6, <2>1, Zenon
<1>8. ASSUME NEW k \in 1 .. n PROVE g[k] = g[k - 1] + ChunkSize(opts[k], Prev(opts, k))
  <2>1. k \in 0 .. n /\ k # 0
    BY <1>1
  <2> QED  BY <1>6, <2>1, Zenon
<1> QED  BY <1>2, <1>7, <1>8, Zenon DEF n

LEMMA OptionsSizeEmpty == OptionsSize(<<>>) = 0
<1> DEFINE s == <<>>
<1>1. s \in Seq(Option) /\ Len(s) = 0
  OBVIOUS
<1> HIDE DEF s
<1>2. PICK f : /\ f[0] = 0
               /\ \A k \in 1 .. Len(s) : f[k] = f[k - 1] + ChunkSize(s[k], Prev(s, k))
               /\ OptionsSize(s) = f[Len(s)]
  BY <1>1, SizeForm
<1>3. OptionsSize(s) = 0
  BY <1>1, <1>2, Zenon
<1> QED  BY <1>3 DEF s

LEMMA OptionsSizeAppend ==
  ASSUME NEW s \in Seq(Option), NEW e \in Option
  PROVE  OptionsSize(Append(s, e)) = OptionsSize(s) + ChunkSize(e, LastId(s))
<1> DEFINE n == Len(s)
           a == Append(s, e)
<1>1. a \in Seq(Option) /\ n \in Nat /\ Len(a) = n + 1 /\ (\A k \in 1 .. n : a[k] = s[k]) /\ a[n + 1] = e
  BY AppendFacts
<1>p. (\A k \in 1 .. n : Prev(a, k) = Prev(s, k)) /\ Prev(a, n + 1) = LastId(s)
  BY PrevAppend
<1>2. PICK f : /\ f[0] = 0
               /\ \A k \in 1 .. n : f[k] = f[k - 1] + ChunkSize(s[k], Prev(s, k))
               /\ OptionsSize(s) = f[n]
  BY SizeForm
<1> HIDE DEF a
<1>3. PICK g : /\ g[0] = 0
               /\ \A k \in 1 .. Len(a) : g[k] = g[k - 1] + ChunkSize(a[k], Prev(a, k))
               /\ OptionsSize(a) = g[Len(a)]
  BY <1>1, SizeForm
<1> HIDE DEF n
<1>4. f[n] = g[n]
  <2> DEFINE Holds == {k \in 0 .. n : f[k] = g[k]}
  <2>1. Holds \in SUBSET (0 .. n) /\ 0 \in Holds
    BY <1>1, <1>2, <1>3
  <2>2. ASSUME NEW k \in 1 .. n, k - 1 \in Holds PROVE k \in Holds
    <3>1. k \in 1 .. Len(a) /\ a[k] = s[k] /\ f[k - 1] = g[k - 1] /\ k \in 0 .. n
      BY <1>1, <2>2
    <3>2. f[k] = g[k]
      BY <1>p, <1>2, <1>3, <3>1, Zenon
    <3> QED  BY <3>1, <3>2
  <2>3. Holds = 0 .. n
    <3> HIDE DEF Holds
    <3> QED  BY <1>1, <2>1, <2>2, BoundedInduction
  <2>4. n \in Holds
    BY <1>1, <2>3
  <2> QED  BY <2>4
<1>5. n + 1 \in 1 .. Len(a) /\ (n + 1) - 1 = n
  BY <1>1
<1>6. g[n + 1] = g[(n + 1) - 1] + ChunkSize(a[n + 1], Prev(a, n + 1))
  BY <1>3, <1>5, Zenon
<1>7. OptionsSize(a) = f[n] + ChunkSize(e, LastId(s))
  BY <1>1, <1>p, <1>3, <1>4, <1>5, <1>6, Zenon
<1> QED  BY <1>2, <1>7, Zenon DEF a, n

Fitting == {o \in Option : WellFormed(o)}

LEMMA BytesAreNat == (\A n \in Byte : n \in Nat /\ n \in Int /\ n <= 255) /\ \A n \in 0 .. 255 : n \in Byte
BY DEF Byte

LEMMA EncodeIntBytes ==
  ASSUME NEW v \in Nat, v \div Word < Word
  PROVE  EncodeInt(v) \in Seq(Byte) /\ Len(EncodeInt(v)) \in 1 .. 4
<1>1. CASE v < 256
  <2>1. EncodeInt(v) = <<v>> /\ v \in 0 .. 255
    BY <1>1, SMT DEF EncodeInt
  <2>2. v \in Byte
    BY <2>1, BytesAreNat
  <2> QED  BY <2>1, <2>2
<1>2. CASE v >= 256 /\ v < 256 * 256
  <2>1. EncodeInt(v) = <<v \div 256, v % 256>> /\ v \div 256 \in 0 .. 255 /\ v % 256 \in 0 .. 255
    BY <1>2, SMT DEF EncodeInt
  <2>2. v \div 256 \in Byte /\ v % 256 \in Byte
    BY <2>1, BytesAreNat
  <2> QED  BY <2>1, <2>2
<1>3. CASE v >= 256 * 256 /\ v < 256 * 256 * 256
  <2>1. /\ EncodeInt(v) = <<v \div (256 * 256), (v \div 256) % 256, v % 256>>
        /\ v \div (256 * 256) \in 0 .. 255 /\ (v \div 256) % 256 \in 0 .. 255 /\ v % 256 \in 0 .. 255
    BY <1>3, SMT DEF EncodeInt
  <2>2. v \div (256 * 256) \in Byte /\ (v \div 256) % 256 \in Byte /\ v % 256 \in Byte
    BY <2>1, BytesAreNat
  <2> QED  BY <2>1, <2>2
<1>4. CASE v >= 256 * 256 * 256
  <2>1. /\ EncodeInt(v) = <<v \div (256 * 256 * 256), (v \div (256 * 256)) % 256,
                            (v \div 256) % 256, v % 256>>
        /\ v \div (256 * 256 * 256) \in 0 .. 255 /\ (v \div (256 * 256)) % 256 \in 0 .. 255
        /\ (v \div 256) % 256 \in 0 .. 255 /\ v % 256 \in 0 .. 255
    BY <1>4, SMT DEF EncodeInt, Word
  <2>2. /\ v \div (256 * 256 * 256) \in Byte /\ (v \div (256 * 256)) % 256 \in Byte
        /\ (v \div 256) % 256 \in Byte /\ v % 256 \in Byte
    BY <2>1, BytesAreNat
  <2> QED  BY <2>1, <2>2
<1> QED  BY <1>1, <1>2, <1>3, <1>4, SMT

\* The two kinds of value.
IsUint(v)  == /\ v \in [uint : Nat] /\ "uint" \in DOMAIN v
              /\ v.uint \in Nat /\ v.uint \div Word < Word
IsBytes(v) == /\ v \in [bytes : Seq(Byte)] /\ "uint" \notin DOMAIN v
              /\ v.bytes \in Seq(Byte) /\ Len(v.bytes) < Word + 269

LEMMA ValueKinds ==
  ASSUME NEW o \in Fitting
  PROVE  IsUint(o.val) \/ IsBytes(o.val)
<1>1. o \in Option /\ WellFormed(o)
  BY DEF Fitting
<1>2. o.val \in [uint : Nat] \/ o.val \in [bytes : Seq(Byte)]
  BY <1>1, OptionFields, Zenon DEF Value
<1> DEFINE v == o.val
<1> HIDE DEF v
<1>3. ASSUME v \in [uint : Nat] PROVE "uint" \in DOMAIN v /\ v.uint \in Nat
  BY <1>3
<1>4. ASSUME v \in [bytes : Seq(Byte)] PROVE "uint" \notin DOMAIN v /\ v.bytes \in Seq(Byte)
  BY <1>4
<1>5. /\ "uint" \in DOMAIN v => v.uint \div Word < Word
      /\ "uint" \notin DOMAIN v => Len(v.bytes) < Word + 269
  BY <1>1, SMT DEF WellFormed, v
<1>6. v \in [uint : Nat] => IsUint(v)
  BY <1>3, <1>5, Zenon DEF IsUint
<1>7. v \in [bytes : Seq(Byte)] => IsBytes(v)
  BY <1>4, <1>5, Zenon DEF IsBytes
<1> QED  BY <1>2, <1>6, <1>7, Zenon DEF v

LEMMA ToBytesFacts ==
  ASSUME NEW o \in Fitting
  PROVE  ToBytes(o.val) \in Seq(Byte) /\ Len(ToBytes(o.val)) \in Nat /\ Len(ToBytes(o.val)) < Word + 269
<1> DEFINE v == o.val
<1>0. IsUint(v) \/ IsBytes(v)
  BY ValueKinds
<1> HIDE DEF v
<1>1. CASE IsUint(v)
  <2>1. v.uint \in Nat /\ v.uint \div Word < Word /\ ToBytes(v) = EncodeInt(v.uint)
    BY <1>1, Zenon DEF IsUint, ToBytes
  <2>2. EncodeInt(v.uint) \in Seq(Byte) /\ Len(EncodeInt(v.uint)) \in 1 .. 4
    BY <2>1, EncodeIntBytes
  <2>3. ToBytes(v) \in Seq(Byte) /\ Len(ToBytes(v)) \in 1 .. 4
    BY <2>1, <2>2, Zenon
  <2>4. \A n \in 1 .. 4 : n \in Nat /\ n < Word + 269
    BY DEF Word
  <2> QED  BY <2>3, <2>4, Zenon DEF v
<1>2. CASE IsBytes(v)
  <2>1. v.bytes \in Seq(Byte) /\ Len(v.bytes) < Word + 269 /\ ToBytes(v) = v.bytes
    BY <1>2, Zenon DEF IsBytes, ToBytes
  <2>2. Len(v.bytes) \in Nat
    BY <2>1
  <2> QED  BY <2>1, <2>2, Zenon DEF v
<1> QED  BY <1>0, <1>1, <1>2

LEMMA ExtendFacts ==
  ASSUME NEW n \in Nat
  PROVE  /\ ExtendOpt(n).nibble \in 0 .. 14 /\ ExtendOpt(n).ext \in Seq(Byte)
         /\ Len(ExtendOpt(n).ext) = ExtLength(n) /\ ExtLength(n) \in Nat
<1>1. CASE n < 13
  <2>1. ExtendOpt(n) = [nibble |-> n, ext |-> <<>>] /\ ExtLength(n) = 0
    BY <1>1, SMT DEF ExtendOpt, ExtLength
  <2> QED  BY <1>1, <2>1
<1>2. CASE n >= 13 /\ n < 269
  <2>1. ExtendOpt(n) = [nibble |-> 13, ext |-> <<n - 13>>] /\ ExtLength(n) = 1
    BY <1>2, SMT DEF ExtendOpt, ExtLength
  <2>2. n - 13 \in Byte
    BY <1>2 DEF Byte
  <2> QED  BY <2>1, <2>2
<1>3. CASE n >= 269
  <2>1. /\ ExtendOpt(n) = [nibble |-> 14, ext |-> <<((n - 269) \div 256) % 256, (n - 269) % 256>>]
        /\ ExtLength(n) = 2
    BY <1>3, SMT DEF ExtendOpt, ExtLength
  <2>2. ((n - 269) \div 256) % 256 \in Byte /\ (n - 269) % 256 \in Byte
    BY <1>3, SMT DEF Byte
  <2> QED  BY <2>1, <2>2
<1> QED  BY <1>1, <1>2, <1>3

\* The bytes of one option.
LEMMA ChunkFacts ==
  ASSUME NEW o \in Fitting, NEW prev \in Nat, prev <= o.id
  PROVE  /\ Chunk(o, prev) \in Seq(Byte) /\ Len(Chunk(o, prev)) = ChunkSize(o, prev)
         /\ ChunkSize(o, prev) \in Nat /\ ChunkSize(o, prev) >= 1
<1> DEFINE b == ToBytes(o.val)
           d == ExtendOpt(o.id - prev)
           l == ExtendOpt(Len(b))
           first == 16 * d.nibble + l.nibble
<1>1. b \in Seq(Byte) /\ Len(b) \in Nat
  BY ToBytesFacts
<1>2. o.id - prev \in Nat
  <2>1. o.id \in Int
    BY OptionFields DEF Fitting
  <2> QED  BY <2>1
<1>3. /\ d.nibble \in 0 .. 14 /\ d.ext \in Seq(Byte) /\ Len(d.ext) = ExtLength(o.id - prev)
      /\ ExtLength(o.id - prev) \in Nat
  BY <1>2, ExtendFacts
<1>4. /\ l.nibble \in 0 .. 14 /\ l.ext \in Seq(Byte) /\ Len(l.ext) = ExtLength(Len(b))
      /\ ExtLength(Len(b)) \in Nat
  BY <1>1, ExtendFacts
<1>5. Chunk(o, prev) = ((<<first>> \o d.ext) \o l.ext) \o b
  BY DEF Chunk, OptionHeader
<1>6. ChunkSize(o, prev) = 1 + ExtLength(o.id - prev) + ExtLength(Len(b)) + Len(b)
  BY DEF ChunkSize
<1>7. <<first>> \in Seq(Byte) /\ Len(<<first>>) = 1
  <2> HIDE DEF d, l
  <2>1. \A x, y \in 0 .. 14 : 16 * x + y \in 0 .. 255
    OBVIOUS
  <2>2. first \in Byte
    BY <1>3, <1>4, <2>1, BytesAreNat, Zenon
  <2> HIDE DEF first
  <2> QED  BY <2>2
<1> HIDE DEF b, d, l, first
<1>8. <<first>> \o d.ext \in Seq(Byte) /\ Len(<<first>> \o d.ext) = 1 + Len(d.ext)
  BY <1>3, <1>7, BytesConcat
<1> DEFINE x == <<first>> \o d.ext
<1> HIDE DEF x
<1>9. x \o l.ext \in Seq(Byte) /\ Len(x \o l.ext) = 1 + Len(d.ext) + Len(l.ext)
  <2>1. x \in Seq(Byte) /\ Len(x) = 1 + Len(d.ext)
    BY <1>8 DEF x
  <2>2. x \o l.ext \in Seq(Byte) /\ Len(x \o l.ext) = Len(x) + Len(l.ext)
    BY <1>4, <2>1, BytesConcat
  <2> QED  BY <2>1, <2>2, Zenon
<1> DEFINE y == x \o l.ext
<1> HIDE DEF y
<1>10. y \o b \in Seq(Byte) /\ Len(y \o b) = 1 + Len(d.ext) + Len(l.ext) + Len(b)
  <2>1. y \in Seq(Byte) /\ Len(y) = 1 + Len(d.ext) + Len(l.ext)
    BY <1>9 DEF y
  <2>2. y \o b \in Seq(Byte) /\ Len(y \o b) = Len(y) + Len(b)
    BY <1>1, <2>1, BytesConcat
  <2> QED  BY <2>1, <2>2, Zenon
<1>11. Chunk(o, prev) = y \o b
  BY <1>5 DEF x, y
<1>12. ChunkSize(o, prev) = 1 + Len(d.ext) + Len(l.ext) + Len(b)
  BY <1>3, <1>4, <1>6, Zenon
<1>13. 1 + Len(d.ext) + Len(l.ext) + Len(b) \in Nat /\ 1 + Len(d.ext) + Len(l.ext) + Len(b) >= 1
  <2>1. Len(d.ext) \in Nat /\ Len(l.ext) \in Nat
    BY <1>3, <1>4, Zenon
  <2>2. \A i, j, k \in Nat : 1 + i + j + k \in Nat /\ 1 + i + j + k >= 1
    OBVIOUS
  <2> QED  BY <1>1, <2>1, <2>2, Zenon
<1> QED  BY <1>10, <1>11, <1>12, <1>13, Zenon

LEMMA LastIdFacts ==
  ASSUME NEW s \in Seq(Option)
  PROVE  /\ LastId(s) \in Number
         /\ \A e \in Option : /\ LastId(Append(s, e)) = e.id
                              /\ Ordered(Append(s, e)) => LastId(s) <= e.id
<1>1. LastId(s) \in Number
  <2>1. CASE s = <<>>
    <3>1. 0 \in Number
      BY DEF Number, Word
    <3> QED  BY <2>1, <3>1, Zenon DEF LastId
  <2>2. CASE s # <<>>
    <3>1. s[Len(s)] \in Option
      BY <2>2
    <3> QED  BY <2>2, <3>1, OptionFields, Zenon DEF LastId
  <2> QED  BY <2>1, <2>2
<1>2. ASSUME NEW e \in Option PROVE LastId(Append(s, e)) = e.id
  <2>1. Append(s, e) # <<>> /\ Append(s, e)[Len(Append(s, e))] = e
    OBVIOUS
  <2> QED  BY <2>1, Zenon DEF LastId
<1>3. ASSUME NEW e \in Option, Ordered(Append(s, e)) PROVE LastId(s) <= e.id
  <2>0. e.id >= 0
    <3>1. \A n \in Nat : n >= 0
      OBVIOUS
    <3> QED  BY <3>1, OptionFields, NumbersAreInt, Zenon
  <2>1. CASE s = <<>>
    BY <2>0, <2>1, Zenon DEF LastId
  <2>2. CASE s # <<>>
    <3>1. s \in Seq(UpTo(e.id))
      BY <1>3, OrderedAppend
    <3>2. s[Len(s)] \in UpTo(e.id)
      BY <2>2, <3>1
    <3>3. s[Len(s)].id <= e.id
      BY <3>2, Zenon DEF UpTo
    <3> QED  BY <2>2, <3>3, Zenon DEF LastId
  <2> QED  BY <2>1, <2>2
<1> QED  BY <1>1, <1>2, <1>3, Zenon

\* headerSize and marshalBinary agree on every list of options in order.
LEMMA ChunksFacts ==
  ASSUME NEW opts \in Seq(Fitting), Ordered(opts)
  PROVE  /\ Chunks(opts) \in Seq(Byte) /\ Len(Chunks(opts)) = OptionsSize(opts)
         /\ OptionsSize(opts) \in Nat /\ Len(opts) <= OptionsSize(opts)
<1> DEFINE Sound(s) == /\ Chunks(s) \in Seq(Byte) /\ Len(Chunks(s)) = OptionsSize(s)
                       /\ OptionsSize(s) \in Nat /\ Len(s) <= OptionsSize(s)
           Good == {s \in Seq(Fitting) : Ordered(s) => Sound(s)}
<1>1. <<>> \in Good
  <2>1. <<>> \in Seq(Fitting) /\ <<>> \in Seq(Byte) /\ Len(<<>>) = 0
    OBVIOUS
  <2>2. Sound(<<>>)
    <3>1. Chunks(<<>>) = <<>> /\ OptionsSize(<<>>) = 0 /\ 0 \in Nat /\ 0 <= 0
      BY ChunksEmpty, OptionsSizeEmpty
    <3> QED  BY <2>1, <3>1, Zenon
  <2> HIDE DEF Sound
  <2> QED  BY <2>1, <2>2
<1>2. ASSUME NEW s \in Good, NEW e \in Fitting PROVE Append(s, e) \in Good
  <2>1. s \in Seq(Fitting) /\ (Ordered(s) => Sound(s)) /\ Append(s, e) \in Seq(Fitting)
    <3> HIDE DEF Sound
    <3> QED  BY AppendFacts
  <2>2. s \in Seq(Option) /\ e \in Option
    BY <2>1 DEF Fitting
  <2>3. ASSUME Ordered(Append(s, e)) PROVE Sound(Append(s, e))
    <3>1. Ordered(s) /\ LastId(s) <= e.id /\ LastId(s) \in Nat
      BY <2>2, <2>3, OrderedAppend, LastIdFacts, NumbersAreInt
    <3> DEFINE p == LastId(s)
    <3>2. /\ Chunks(Append(s, e)) = Chunks(s) \o Chunk(e, p)
          /\ OptionsSize(Append(s, e)) = OptionsSize(s) + ChunkSize(e, p)
      BY <2>2, ChunksAppend, OptionsSizeAppend
    <3> HIDE DEF p
    <3>3. /\ Chunk(e, p) \in Seq(Byte) /\ Len(Chunk(e, p)) = ChunkSize(e, p)
          /\ ChunkSize(e, p) \in Nat /\ ChunkSize(e, p) >= 1
      BY <3>1, ChunkFacts DEF p
    <3>4. /\ Chunks(s) \in Seq(Byte) /\ Len(Chunks(s)) = OptionsSize(s)
          /\ OptionsSize(s) \in Nat /\ Len(s) <= OptionsSize(s)
      BY <2>1, <3>1
    <3>5. /\ Chunks(s) \o Chunk(e, p) \in Seq(Byte)
          /\ Len(Chunks(s) \o Chunk(e, p)) = Len(Chunks(s)) + Len(Chunk(e, p))
      BY <3>3, <3>4, BytesConcat
    <3>6. Len(Append(s, e)) = Len(s) + 1 /\ Len(s) \in Nat
      BY <2>2, AppendFacts
    <3>7. Len(Append(s, e)) <= OptionsSize(s) + ChunkSize(e, p)
      BY <3>3, <3>4, <3>6
    <3> QED  BY <3>2, <3>3, <3>4, <3>5, <3>7
  <2> HIDE DEF Sound
  <2> QED  BY <2>1, <2>3
<1>3. Good = Seq(Fitting)
  <2>1. Good \in SUBSET Seq(Fitting)
    OBVIOUS
  <2> HIDE DEF Good
  <2> QED  BY <1>1, <1>2, <2>1, AppendInduction
<1> HIDE DEF Sound
<1>4. Sound(opts)
  BY <1>3
<1> QED  BY <1>4 DEF Sound

-----------------------------------------------------------------------------
(* The message under construction *)

LEMMA BlockFields ==
  ASSUME NEW bm \in Blocks
  PROVE  /\ bm.num \in Nat /\ bm.num \in BlockNumber /\ bm.more \in BOOLEAN
         /\ \E i \in 1 .. 8 : bm.size = BlockSizes[i]
<1> DEFINE Sizes == {BlockSizes[i] : i \in 1 .. 8}
<1>1. Blocks \subseteq [num : BlockNumber, more : BOOLEAN, size : Sizes]
  BY CodecAssumption, Zenon DEF CodecAssumption
<1> HIDE DEF Sizes
<1>2. bm.num \in BlockNumber /\ bm.more \in BOOLEAN /\ bm.size \in Sizes
  BY <1>1
<1>3. BlockNumber \subseteq Nat
  <2>1. \A w \in Int : 0 .. w \subseteq Nat
    OBVIOUS
  <2>2. (16 * Word) - 1 \in Int
    <3>1. Word \in Int
      BY DEF Word
    <3> HIDE DEF Word
    <3> QED  BY <3>1
  <2> QED  BY <2>1, <2>2, Zenon DEF BlockNumber
<1> QED  BY <1>2, <1>3 DEF Sizes

LEMMA BlockOptionFits ==
  ASSUME NEW bm \in Blocks
  PROVE  BlockOption(bm) \in Fitting /\ BlockOption(bm).id = OptBlock1
<1>1. bm.num \in Nat /\ bm.more \in BOOLEAN /\ \E i \in 1 .. 8 : bm.size = BlockSizes[i]
  BY BlockFields
<1>2. PICK i \in 1 .. 8 : bm.size = BlockSizes[i]
  BY <1>1
<1> DEFINE num == bm.num
           more == bm.more
           size == bm.size
           low == ((16 * num) % 256) + (IF more THEN 8 ELSE 0) + (i - 1)
           b == EncodeBlock(num, more, size)
<1>3. num \in Nat /\ more \in BOOLEAN
  BY <1>1
<1>4. Szx(size) = i - 1
  <2>1. Szx(BlockSizes[i]) = i - 1
    BY SMT DEF Szx, IsBlockSize, BlockSizes
  <2> QED  BY <1>2, <2>1, Zenon
<1> HIDE DEF num, more, size
<1>5. low \in Byte
  BY <1>3, SMT DEF Byte
<1>6. b \in Seq(Byte) /\ Len(b) <= 3
  <2> HIDE DEF low
  <2>1. CASE num <= 7
    <3>1. b = <<low>>
      BY <1>3, <1>4, <2>1, SMT DEF EncodeBlock, low
    <3> HIDE DEF b
    <3> QED  BY <1>5, <3>1
  <2>2. CASE num > 7 /\ num < 4096
    <3> DEFINE high == (num \div 16) % 256
    <3>1. b = <<high, low>>
      BY <1>3, <1>4, <2>2, SMT DEF EncodeBlock, low
    <3>2. high \in Byte
      BY <1>3, SMT DEF Byte
    <3> HIDE DEF b, high
    <3> QED  BY <1>5, <3>1, <3>2
  <2>3. CASE num >= 4096
    <3> DEFINE top == (num \div 4096) % 256
               mid == (num \div 16) % 256
    <3>1. b = <<top, mid, low>>
      BY <1>3, <1>4, <2>3, SMT DEF EncodeBlock, low
    <3>2. top \in Byte /\ mid \in Byte
      BY <1>3, SMT DEF Byte
    <3> HIDE DEF b, top, mid
    <3> QED  BY <1>5, <3>1, <3>2
  <2> QED  BY <1>3, <2>1, <2>2, <2>3
<1> HIDE DEF b
<1> DEFINE v == [bytes |-> b]
           o == BlockOption(bm)
<1>7. v \in [bytes : Seq(Byte)] /\ "uint" \notin DOMAIN v /\ v.bytes = b
  BY <1>6
<1>8. o.id = OptBlock1 /\ o.val = v /\ o = [id |-> OptBlock1, val |-> v]
  BY DEF BlockOption, b, num, more, size
<1> HIDE DEF v, o
<1>9. OptionDef(OptBlock1).format = "bytes"
  BY DEF OptionDef, OptBlock1
<1>10. WellFormed(o)
  <2>1. Len(b) < Word + 269
    <3>1. Len(b) \in Nat
      BY <1>6
    <3> QED  BY <1>6, <3>1 DEF Word
  <2>2. "bytes" # "uint"
    OBVIOUS
  <2> QED  BY <1>7, <1>8, <1>9, <2>1, <2>2, Zenon DEF WellFormed
<1>11. o \in Option
  <2>1. OptBlock1 \in Number
    BY DEF OptBlock1, Number, Word
  <2>2. v \in Value
    BY <1>7, Zenon DEF Value
  <2> QED  BY <1>8, <2>1, <2>2 DEF Option
<1> QED  BY <1>8, <1>10, <1>11 DEF Fitting, o

LEMMA UsedFits == Used \subseteq Fitting /\ Fitting \subseteq Option /\ Used \subseteq Option
<1>1. Options \cup PeerOptions \subseteq Fitting
  BY CodecAssumption, Zenon DEF CodecAssumption, Fitting
<1>2. {BlockOption(bm) : bm \in Blocks} \subseteq Fitting
  BY BlockOptionFits
<1>3. Fitting \subseteq Option
  BY DEF Fitting
<1> QED  BY <1>1, <1>2, <1>3 DEF Used

LEMMA SameMinus ==
  ASSUME NEW s \in Seq(Option), NEW t \in Seq(Option), SameOptions(s, t), NEW x \in Number \cup {None}
  PROVE  SameOptions(Minus(s, x), Minus(t, x))
<1>1. CASE x \in Number
  <2> DEFINE W == WithId(x)
  <2>1. /\ Len(Only(s, W)) + Len(Only(s, Option \ W)) = Len(s)
        /\ Len(Only(s, W)) \in Nat /\ Len(Only(s, Option \ W)) \in Nat /\ Len(s) \in Nat
    BY OnlyLen
  <2>2. /\ Len(Only(t, W)) + Len(Only(t, Option \ W)) = Len(t)
        /\ Len(Only(t, W)) \in Nat /\ Len(Only(t, Option \ W)) \in Nat /\ Len(t) \in Nat
    BY OnlyLen
  <2>3. Only(s, W) = Only(t, W) /\ Len(s) = Len(t)
    BY <1>1 DEF SameOptions
  <2>4. Len(Minus(s, x)) = Len(Minus(t, x))
    BY <2>1, <2>2, <2>3 DEF Minus
  <2>5. ASSUME NEW id \in Number PROVE Only(Minus(s, x), WithId(id)) = Only(Minus(t, x), WithId(id))
    <3> DEFINE V == WithId(id)
    <3>1. /\ Only(Only(s, Option \ W), V) = Only(s, (Option \ W) \cap V)
          /\ Only(Only(t, Option \ W), V) = Only(t, (Option \ W) \cap V)
      BY OnlyOnly
    <3>2. Only(s, V) = Only(t, V)
      BY DEF SameOptions
    <3>3. CASE id = x
      <4>1. Option \cap ((Option \ W) \cap V) = {}
        BY <3>3
      <4>2. Only(s, (Option \ W) \cap V) = <<>> /\ Only(t, (Option \ W) \cap V) = <<>>
        BY <4>1, OnlyAllOrNone
      <4> QED  BY <3>1, <4>2, Zenon DEF Minus
    <3>4. CASE id # x
      <4>1. (Option \ W) \cap V = V
        BY <3>4 DEF WithId
      <4> QED  BY <3>1, <3>2, <4>1, Zenon DEF Minus
    <3> QED  BY <3>3, <3>4
  <2> QED  BY <2>4, <2>5, Zenon DEF SameOptions
<1>2. CASE x \notin Number
  <2>1. Option \ WithId(x) = Option
    <3>1. ASSUME NEW o \in Option PROVE o.id # x
      BY <1>2, OptionFields
    <3> QED  BY <3>1 DEF WithId
  <2>2. Minus(s, x) = s /\ Minus(t, x) = t
    BY <2>1, OnlyAllOrNone DEF Minus
  <2> QED  BY <2>2
<1> QED  BY <1>1, <1>2

LEMMA MinusOnly ==
  ASSUME NEW s \in Seq(Option), NEW x \in Number \cup {None}, NEW id \in Number
  PROVE  Only(Minus(s, x), WithId(id)) = IF x = id THEN <<>> ELSE Only(s, WithId(id))
<1> DEFINE W == WithId(x)
           V == WithId(id)
<1>1. Only(Only(s, Option \ W), V) = Only(s, (Option \ W) \cap V)
  BY OnlyOnly
<1>2. CASE id = x
  <2>1. Option \cap ((Option \ W) \cap V) = {}
    BY <1>2
  <2>2. Only(s, (Option \ W) \cap V) = <<>>
    BY <2>1, OnlyAllOrNone
  <2> QED  BY <1>1, <1>2, <2>2, Zenon DEF Minus
<1>3. CASE id # x
  <2>1. (Option \ W) \cap V = V
    BY <1>3 DEF WithId
  <2> QED  BY <1>1, <1>3, <2>1, Zenon DEF Minus
<1> QED  BY <1>2, <1>3

\* What a change makes of two such sequences, one sorted and one not.
LEMMA ChangeKeeps ==
  ASSUME NEW s \in Seq(Used), NEW t \in Seq(Used), SameOptions(s, t), NEW x \in Number \cup {None},
         NEW added, added = <<>> \/ \E o \in Used : added = <<o>>
  PROVE  /\ Minus(s, x) \o added \in Seq(Used) /\ Minus(t, x) \o added \in Seq(Used)
         /\ SameOptions(Minus(s, x) \o added, Minus(t, x) \o added)
<1> DEFINE a == Minus(s, x)
           b == Minus(t, x)
<1>1. a \in Seq(Used) /\ b \in Seq(Used)
  BY OnlyType DEF Minus
<1>2. SameOptions(a, b)
  <2>1. s \in Seq(Option) /\ t \in Seq(Option)
    BY UsedFits
  <2> QED  BY <2>1, SameMinus
<1> HIDE DEF a, b
<1>3. CASE added = <<>>
  <2>1. a \o <<>> = a /\ b \o <<>> = b
    BY <1>1
  <2> QED  BY <1>1, <1>2, <1>3, <2>1, Zenon DEF a, b
<1>4. CASE \E o \in Used : added = <<o>>
  <2>1. PICK o \in Used : added = <<o>>
    BY <1>4
  <2>2. a \o <<o>> = Append(a, o) /\ b \o <<o>> = Append(b, o) /\ Append(a, o) \in Seq(Used) /\ Append(b, o) \in Seq(Used)
    BY <1>1
  <2>3. SameOptions(Append(a, o), Append(b, o))
    <3>1. a \in Seq(Option) /\ b \in Seq(Option) /\ o \in Option
      BY <1>1, UsedFits
    <3> QED  BY <1>2, <3>1, SameAppend
  <2> QED  BY <2>1, <2>2, <2>3, Zenon DEF a, b
<1> QED  BY <1>3, <1>4

LEMMA ComposedFields ==
  ASSUME NEW m \in Composed
  PROVE  /\ m.type \in 0 .. 3 /\ m.code \in Byte /\ m.mid \in 0 .. Word - 1
         /\ m.token \in Seq(Byte) /\ m.payload \in Seq(Byte) /\ m.opts \in Seq(Used)
         /\ \A opts \in Seq(Used) :
              /\ [m EXCEPT !.opts = opts] \in Composed
              /\ [m EXCEPT !.opts = opts].opts = opts
              /\ [m EXCEPT !.opts = opts].payload = m.payload
         /\ [m EXCEPT !.opts = m.opts] = m
BY DEF Composed

-----------------------------------------------------------------------------
(* The datagram *)

First(m) == 64 + (16 * m.type) + (Len(m.token) % 16)
Four(m)  == <<First(m), m.code, m.mid \div 256, m.mid % 256>>

LEMMA FixedFacts ==
  ASSUME NEW m \in Composed
  PROVE  /\ Four(m) \in Seq(Byte) /\ Len(Four(m)) = 4 /\ Fixed(m) = Four(m) \o m.token
         /\ Fixed(m) \in Seq(Byte) /\ Len(Fixed(m)) = 4 + Len(m.token) /\ Len(m.token) \in Nat
         /\ m.mid \in Nat
<1>1. m.type \in 0 .. 3 /\ m.code \in Byte /\ m.mid \in 0 .. Word - 1 /\ m.token \in Seq(Byte)
  BY ComposedFields
<1> DEFINE a == First(m)
           c == m.mid \div 256
           d == m.mid % 256
<1>2. a \in Byte
  <2>1. Len(m.token) \in Nat
    BY <1>1
  <2>2. \A x \in 0 .. 3, n \in Nat : 64 + (16 * x) + (n % 16) \in 0 .. 255
    OBVIOUS
  <2>3. 64 + (16 * m.type) + (Len(m.token) % 16) \in 0 .. 255
    BY <1>1, <2>1, <2>2
  <2> QED  BY <2>3 DEF Byte, First
<1>3. c \in Byte /\ d \in Byte /\ m.mid \in Nat
  <2>1. \A n \in Int : 0 <= n /\ n <= (256 * 256) - 1 => n \div 256 \in 0 .. 255 /\ n % 256 \in 0 .. 255
    OBVIOUS
  <2>2. m.mid \in Int /\ 0 <= m.mid /\ m.mid <= (256 * 256) - 1
    <3> DEFINE W == Word - 1
    <3>1. W \in Int /\ W = (256 * 256) - 1
      BY DEF Word
    <3>2. m.mid \in 0 .. W
      BY <1>1
    <3> HIDE DEF W
    <3>3. \A w \in Int : \A n \in 0 .. w : n \in Int /\ 0 <= n /\ n <= w
      OBVIOUS
    <3>4. m.mid \in Int /\ 0 <= m.mid /\ m.mid <= W
      <4>1. W \in Int
        BY <3>1
      <4> QED  BY <3>2, <3>3, <4>1, Zenon
    <3> QED  BY <3>1, <3>4, Zenon
  <2>3. c \in 0 .. 255 /\ d \in 0 .. 255
    BY <2>1, <2>2
  <2> QED  BY <2>2, <2>3 DEF Byte
<1>4. Four(m) = <<a, m.code, c, d>>
  BY DEF Four
<1> HIDE DEF a, c, d
<1>5. <<a, m.code, c, d>> \in Seq(Byte) /\ Len(<<a, m.code, c, d>>) = 4
  BY <1>1, <1>2, <1>3
<1>6. Fixed(m) = Four(m) \o m.token
  BY DEF Fixed, Four, First
<1> DEFINE four == Four(m)
<1>7. four \in Seq(Byte) /\ Len(four) = 4
  BY <1>4, <1>5
<1> HIDE DEF four
<1>8. four \o m.token \in Seq(Byte) /\ Len(four \o m.token) = 4 + Len(m.token) /\ Len(m.token) \in Nat
  <2> DEFINE t == m.token
  <2>1. t \in Seq(Byte)
    BY <1>1
  <2> HIDE DEF t
  <2>2. four \o t \in Seq(Byte) /\ Len(four \o t) = Len(four) + Len(t) /\ Len(t) \in Nat
    BY <1>7, <2>1, BytesConcat
  <2> QED  BY <1>7, <2>2, Zenon DEF t
<1> QED  BY <1>3, <1>6, <1>7, <1>8 DEF four

LEMMA EndFacts ==
  ASSUME NEW payload \in Seq(Byte)
  PROVE  /\ End(payload) \in Seq(Byte) /\ Len(payload) \in Nat
         /\ Len(End(payload)) = (IF payload = <<>> THEN 0 ELSE 1) + Len(payload)
<1>1. CASE payload = <<>>
  BY <1>1 DEF End
<1>2. CASE payload # <<>>
  <2> DEFINE marker == <<255>>
  <2>1. marker \in Seq(Byte) /\ Len(marker) = 1
    BY DEF Byte
  <2>2. End(payload) = marker \o payload
    BY <1>2 DEF End
  <2> HIDE DEF marker
  <2>3. /\ marker \o payload \in Seq(Byte) /\ Len(marker \o payload) = Len(marker) + Len(payload)
        /\ Len(payload) \in Nat
    BY <2>1, BytesConcat
  <2> QED  BY <1>2, <2>1, <2>2, <2>3, Zenon
<1> QED  BY <1>1, <1>2

\* marshalBinary writes bytes, as many as headerSize and the payload take.
LEMMA MarshalFacts ==
  ASSUME NEW m \in Composed, Ordered(m.opts)
  PROVE  /\ Marshal(m) \in Seq(Byte) /\ Marshal(m) # <<>>
         /\ Len(Marshal(m)) = HeaderSize(m) + Len(m.payload)
<1>1. Fixed(m) \in Seq(Byte) /\ Len(Fixed(m)) = 4 + Len(m.token) /\ Len(m.token) \in Nat
  BY FixedFacts
<1>2. /\ Chunks(m.opts) \in Seq(Byte) /\ Len(Chunks(m.opts)) = OptionsSize(m.opts)
      /\ OptionsSize(m.opts) \in Nat
  <2>1. m.opts \in Seq(Fitting)
    BY ComposedFields, UsedFits
  <2> QED  BY <2>1, ChunksFacts
<1>3. /\ End(m.payload) \in Seq(Byte) /\ Len(m.payload) \in Nat
      /\ Len(End(m.payload)) = (IF m.payload = <<>> THEN 0 ELSE 1) + Len(m.payload)
  BY ComposedFields, EndFacts
<1> DEFINE f == Fixed(m)
           c == Chunks(m.opts)
           e == End(m.payload)
           z == IF m.payload = <<>> THEN 0 ELSE 1
<1>4. z \in Nat
  OBVIOUS
<1>5. Marshal(m) = f \o (c \o e) /\ HeaderSize(m) = 4 + Len(m.token) + OptionsSize(m.opts) + z
  BY DEF Marshal, HeaderSize
<1> HIDE DEF f, c, e, z
<1>6. c \o e \in Seq(Byte) /\ Len(c \o e) = Len(c) + Len(e)
  BY <1>2, <1>3, BytesConcat DEF c, e
<1> DEFINE x == c \o e
<1> HIDE DEF x
<1>7. f \o x \in Seq(Byte) /\ Len(f \o x) = Len(f) + Len(x)
  <2>1. f \in Seq(Byte) /\ x \in Seq(Byte)
    BY <1>1, <1>6 DEF f, x
  <2> QED  BY <2>1, BytesConcat
<1>8. Len(f) = 4 + Len(m.token) /\ Len(c) = OptionsSize(m.opts) /\ Len(e) = z + Len(m.payload)
  BY <1>1, <1>2, <1>3, Zenon DEF f, c, e, z
<1>9. Len(f \o x) = 4 + Len(m.token) + (OptionsSize(m.opts) + (z + Len(m.payload)))
  BY <1>6, <1>7, <1>8, Zenon DEF x
<1>10. Len(f \o x) = (4 + Len(m.token) + OptionsSize(m.opts) + z) + Len(m.payload) /\ Len(f \o x) > 0
  <2> DEFINE p == Len(m.token)
             q == OptionsSize(m.opts)
             t == Len(m.payload)
             y == Len(f \o x)
  <2>2. p \in Nat /\ q \in Nat /\ t \in Nat
    BY <1>1, <1>2, <1>3
  <2> HIDE DEF p, q, t, y, z
  <2>3. y = 4 + p + (q + (z + t))
    BY <1>9, Zenon DEF p, q, t, y
  <2>4. y = (4 + p + q + z) + t /\ y > 0
    BY <1>4, <2>2, <2>3
  <2> QED  BY <2>4, Zenon DEF p, q, t, y
<1>11. f \o x # <<>>
  BY <1>7, <1>10
<1> QED  BY <1>5, <1>7, <1>10, <1>11, Zenon DEF x

\* Sorting changes neither what is measured nor what is written a second time.
LEMMA SortedMessage ==
  ASSUME NEW m \in Composed
  PROVE  LET n == [m EXCEPT !.opts = Sorted(@)]
         IN  /\ n \in Composed /\ Ordered(n.opts) /\ SameOptions(n.opts, m.opts)
             /\ n.payload = m.payload /\ n.opts = Sorted(m.opts)
             /\ Ordered(m.opts) => n = m
<1> DEFINE s == Sorted(m.opts)
           n == [m EXCEPT !.opts = s]
<1>1. m.opts \in Seq(Used) /\ Used \in SUBSET Option /\ m.opts \in Seq(Option)
  BY ComposedFields, UsedFits
<1>2. s \in Seq(Used) /\ Ordered(s) /\ SameOptions(s, m.opts)
  BY <1>1, SortedFacts
<1>3. Ordered(m.opts) => s = m.opts
  BY <1>1, SortedFixed
<1> HIDE DEF s
<1>4. n \in Composed /\ n.opts = s /\ n.payload = m.payload
  BY <1>2, ComposedFields
<1>5. Ordered(m.opts) => n = m
  BY <1>3, ComposedFields, Zenon
<1> QED  BY <1>2, <1>4, <1>5, Zenon DEF s

-----------------------------------------------------------------------------
(* The inductive invariant *)

LEMMA BlockNumberIs27 == OptBlock1 \in Number /\ None # OptBlock1 /\ None \notin Number /\ None \notin Blocks
<1>1. OptBlock1 \in Number
  BY DEF OptBlock1, Number, Word
<1>2. None \notin Number /\ None \notin Blocks
  BY CodecAssumption, Zenon DEF CodecAssumption
<1> QED  BY <1>1, <1>2

LEMMA InitInductive == Init => Inductive
<1> SUFFICES ASSUME Init PROVE Inductive
  OBVIOUS
<1>1. /\ msg \in Messages /\ built = <<>> /\ block = None /\ estimate = -1 /\ wire = <<>>
      /\ cut = 0 /\ got = None
  BY DEF Init
<1>2. msg \in Composed /\ msg.opts = <<>>
  <2> DEFINE M == [type : 0 .. 3, code : Byte, mid : 0 .. Word - 1,
                   token : Seq(Byte), payload : Seq(Byte), opts : {<<>>}, packetSize : Nat]
  <2>1. msg \in M
    BY <1>1, CodecAssumption, Zenon DEF CodecAssumption
  <2>2. <<>> \in Seq(Used)
    OBVIOUS
  <2>3. {<<>>} \subseteq Seq(Used)
    BY <2>2
  <2>4. ASSUME NEW m \in M PROVE m \in Composed /\ m.opts = <<>>
    <3> DEFINE Mids == 0 .. Word - 1
    <3> HIDE DEF Mids
    <3> QED  BY <2>3 DEF Composed, Mids
  <2> QED  BY <2>1, <2>4, Zenon
<1>3. Len(built) = 0 /\ built \in Seq(Used)
  BY <1>1
<1>4. MaxOptions \in Nat
  BY CodecAssumption, Zenon DEF CodecAssumption
<1>5. Len(built) <= MaxOptions
  BY <1>3, <1>4
<1>6. SameOptions(msg.opts, built)
  BY <1>1, <1>2 DEF SameOptions
<1>7. Only(built, WithId(OptBlock1)) = <<>>
  BY <1>1, OnlyEmpty
<1>8. BuiltInv
  BY <1>1, <1>2, <1>3, <1>5, <1>6, <1>7, Zenon DEF BuiltInv
<1>9. WrittenInv
  <2>1. cut \in 0 .. Len(wire)
    BY <1>1
  <2> QED  BY <1>1, <2>1, Zenon DEF WrittenInv
<1> QED  BY <1>8, <1>9 DEF Inductive

\* What every change has in common; x is the number whose options go first.
LEMMA ChangeInductive ==
  ASSUME Inductive, NEW x \in Number \cup {None}, NEW added,
         added = <<>> \/ \E o \in Used : added = <<o>>, Change(x, added)
  PROVE  /\ msg' \in Composed /\ built' \in Seq(Used) /\ SameOptions(msg'.opts, built')
         /\ Len(built') <= MaxOptions /\ WrittenInv'
         /\ Only(built', WithId(OptBlock1))
              = (IF x = OptBlock1 THEN <<>> ELSE Only(built, WithId(OptBlock1)))
                  \o Only(added, WithId(OptBlock1))
<1>1. msg \in Composed /\ built \in Seq(Used) /\ SameOptions(msg.opts, built)
  BY DEF Inductive, BuiltInv
<1>2. /\ got = None /\ msg' = [msg EXCEPT !.opts = Minus(msg.opts, x) \o added]
      /\ built' = Minus(built, x) \o added /\ Len(built') <= MaxOptions
      /\ estimate' = -1 /\ wire' = <<>> /\ cut' = 0 /\ got' = got
  BY DEF Change
<1> DEFINE s == Minus(msg.opts, x) \o added
           t == Minus(built, x) \o added
<1>3. s \in Seq(Used) /\ t \in Seq(Used) /\ SameOptions(s, t)
  <2>1. msg.opts \in Seq(Used)
    BY <1>1, ComposedFields
  <2> QED  BY <1>1, <2>1, ChangeKeeps
<1>4. Only(t, WithId(OptBlock1)) = (IF x = OptBlock1 THEN <<>> ELSE Only(built, WithId(OptBlock1)))
                                     \o Only(added, WithId(OptBlock1))
  <2> DEFINE W == WithId(OptBlock1)
             a == Minus(built, x)
  <2>1. a \in Seq(Option) /\ added \in Seq(Option) /\ built \in Seq(Option)
    <3>1. built \in Seq(Option)
      BY <1>1, UsedFits
    <3>2. added \in Seq(Option)
      <4>1. ASSUME NEW o \in Used PROVE <<o>> \in Seq(Option)
        BY UsedFits
      <4>2. <<>> \in Seq(Option)
        OBVIOUS
      <4> QED  BY <4>1, <4>2, Zenon
    <3> QED  BY <3>1, <3>2, OnlyType DEF Minus
  <2>2. Only(a, W) = IF x = OptBlock1 THEN <<>> ELSE Only(built, W)
    BY <2>1, MinusOnly, BlockNumberIs27
  <2> HIDE DEF a, W
  <2>3. Only(a \o added, W) = Only(a, W) \o Only(added, W)
    BY <2>1, OnlyConcat
  <2> QED  BY <2>2, <2>3, Zenon DEF a, W
<1> HIDE DEF s, t
<1>5. msg' = [msg EXCEPT !.opts = s] /\ built' = t
  BY <1>2 DEF s, t
<1>6. msg' \in Composed /\ msg'.opts = s
  BY <1>1, <1>3, <1>5, ComposedFields
<1>7. WrittenInv'
  <2>1. cut' \in 0 .. Len(wire')
    BY <1>2
  <2> QED  BY <1>2, <2>1, Zenon DEF WrittenInv
<1> QED  BY <1>2, <1>3, <1>4, <1>5, <1>6, <1>7, Zenon

LEMMA WithOptionInductive ==
  ASSUME Inductive, NEW o \in Used, NEW replace \in BOOLEAN, WithOption(o, replace)
  PROVE  Inductive'
<1> DEFINE x == IF replace THEN o.id ELSE None
<1>1. o.id # OptBlock1 /\ Change(x, <<o>>) /\ block' = block
  BY DEF WithOption
<1>2. o \in Option /\ o.id \in Number
  BY UsedFits, OptionFields
<1>3. x \in Number \cup {None} /\ x # OptBlock1
  BY <1>1, <1>2, BlockNumberIs27
<1> HIDE DEF x
<1> DEFINE added == <<o>>
<1>4. \E e \in Used : added = <<e>>
  OBVIOUS
<1>5. Only(added, WithId(OptBlock1)) = <<>>
  <2>1. o \notin WithId(OptBlock1)
    BY <1>1 DEF WithId
  <2> QED  BY <2>1, OnlyOne
<1> HIDE DEF added
<1>6. /\ msg' \in Composed /\ built' \in Seq(Used) /\ SameOptions(msg'.opts, built')
      /\ Len(built') <= MaxOptions /\ WrittenInv'
      /\ Only(built', WithId(OptBlock1))
           = (IF x = OptBlock1 THEN <<>> ELSE Only(built, WithId(OptBlock1)))
               \o Only(added, WithId(OptBlock1))
  <2>1. Change(x, added)
    BY <1>1 DEF added
  <2> QED  BY <1>3, <1>4, <2>1, ChangeInductive
<1>7. Only(built, WithId(OptBlock1)) \o <<>> = Only(built, WithId(OptBlock1))
  <2>1. Only(built, WithId(OptBlock1)) \in Seq(Used)
    BY OnlyType DEF Inductive, BuiltInv
  <2> QED  BY <2>1, BytesConcat
<1>8. Only(built', WithId(OptBlock1)) = Only(built, WithId(OptBlock1))
  BY <1>3, <1>5, <1>6, <1>7, Zenon
<1>9. /\ block' \in Blocks \cup {None}
      /\ Only(built', WithId(OptBlock1)) = IF block' = None THEN <<>> ELSE <<BlockOption(block')>>
  BY <1>1, <1>8, Zenon DEF Inductive, BuiltInv
<1> QED  BY <1>6, <1>9, Zenon DEF Inductive, BuiltInv

LEMMA WithBlock1Inductive ==
  ASSUME Inductive, NEW bm \in Blocks, WithBlock1(bm)
  PROVE  Inductive'
<1> DEFINE o == BlockOption(bm)
           added == <<o>>
<1>1. Change(OptBlock1, added) /\ block' = bm
  BY DEF WithBlock1
<1>2. o \in Used /\ o \in Option /\ o.id = OptBlock1
  <2>1. o \in Used
    BY DEF Used
  <2> QED  BY <2>1, UsedFits, BlockOptionFits
<1> HIDE DEF o
<1>3. \E e \in Used : added = <<e>>
  BY <1>2
<1>4. Only(added, WithId(OptBlock1)) = added
  <2>1. o \in WithId(OptBlock1)
    BY <1>2 DEF WithId
  <2> QED  BY <2>1, OnlyOne
<1>5. <<>> \o added = added
  OBVIOUS
<1> HIDE DEF added
<1>6. /\ msg' \in Composed /\ built' \in Seq(Used) /\ SameOptions(msg'.opts, built')
      /\ Len(built') <= MaxOptions /\ WrittenInv'
      /\ Only(built', WithId(OptBlock1)) = <<>> \o Only(added, WithId(OptBlock1))
  BY <1>1, <1>3, BlockNumberIs27, ChangeInductive
<1>7. Only(built', WithId(OptBlock1)) = <<BlockOption(block')>>
  BY <1>1, <1>4, <1>5, <1>6, Zenon DEF added, o
<1>8. block' \in Blocks \cup {None} /\ block' # None
  BY <1>1, BlockNumberIs27
<1> QED  BY <1>6, <1>7, <1>8, Zenon DEF Inductive, BuiltInv

LEMMA RemoveOptionInductive ==
  ASSUME Inductive, NEW id \in Number, RemoveOption(id)
  PROVE  Inductive'
<1>1. Change(id, <<>>) /\ block' = IF id = OptBlock1 THEN None ELSE block
  BY DEF RemoveOption
<1>2. /\ msg' \in Composed /\ built' \in Seq(Used) /\ SameOptions(msg'.opts, built')
      /\ Len(built') <= MaxOptions /\ WrittenInv'
      /\ Only(built', WithId(OptBlock1))
           = (IF id = OptBlock1 THEN <<>> ELSE Only(built, WithId(OptBlock1)))
               \o Only(<<>>, WithId(OptBlock1))
  <2>1. id \in Number \cup {None}
    OBVIOUS
  <2> QED  BY <1>1, <2>1, ChangeInductive
<1>3. <<>> \o <<>> = <<>> /\ Only(<<>>, WithId(OptBlock1)) = <<>>
  BY OnlyEmpty
<1>4. Only(built, WithId(OptBlock1)) \o <<>> = Only(built, WithId(OptBlock1))
  <2>1. Only(built, WithId(OptBlock1)) \in Seq(Used)
    BY OnlyType DEF Inductive, BuiltInv
  <2> QED  BY <2>1, BytesConcat
<1>5. /\ block' \in Blocks \cup {None}
      /\ Only(built', WithId(OptBlock1)) = IF block' = None THEN <<>> ELSE <<BlockOption(block')>>
  <2>1. CASE id = OptBlock1
    BY <1>1, <1>2, <1>3, <2>1, Zenon
  <2>2. CASE id # OptBlock1
    <3>1. Only(built', WithId(OptBlock1)) = Only(built, WithId(OptBlock1)) /\ block' = block
      BY <1>1, <1>2, <1>3, <1>4, <2>2, Zenon
    <3> QED  BY <3>1, Zenon DEF Inductive, BuiltInv
  <2> QED  BY <2>1, <2>2
<1> QED  BY <1>2, <1>5, Zenon DEF Inductive, BuiltInv

LEMMA PacketSizeInductive ==
  ASSUME Inductive, PacketSize
  PROVE  Inductive'
<1>1. /\ msg \in Composed /\ SameOptions(msg.opts, built) /\ wire = <<>> /\ cut \in 0 .. Len(wire)
      /\ got # None => wire # <<>>
  BY Zenon DEF Inductive, BuiltInv, WrittenInv, PacketSize
<1>2. wire' = <<>> /\ got' = got /\ cut' = cut /\ built' = built /\ block' = block
  BY <1>1, Zenon DEF PacketSize
<1>3. CASE msg.packetSize # 0
  <2>1. msg' = msg
    BY <1>3, Zenon DEF PacketSize
  <2>2. BuiltInv'
    BY <1>2, <2>1, Zenon DEF Inductive, BuiltInv
  <2>3. WrittenInv'
    BY <1>1, <1>2, <1>3, <2>1, Zenon DEF WrittenInv
  <2> QED  BY <2>2, <2>3, Zenon DEF Inductive
<1>4. CASE msg.packetSize = 0
  <2> DEFINE n == [msg EXCEPT !.opts = Sorted(@)]
  <2>1. n \in Composed /\ Ordered(n.opts) /\ SameOptions(n.opts, msg.opts) /\ n.payload = msg.payload
    BY <1>1, SortedMessage
  <2>2. msg' = n /\ estimate' = HeaderSize(msg') + Len(msg.payload)
    BY <1>4, Zenon DEF PacketSize
  <2> HIDE DEF n
  <2>3. SameOptions(n.opts, built)
    BY <1>1, <2>1, Zenon DEF SameOptions
  <2>4. BuiltInv'
    BY <1>2, <2>1, <2>2, <2>3, Zenon DEF Inductive, BuiltInv
  <2>5. WrittenInv'
    BY <1>1, <1>2, <2>1, <2>2, Zenon DEF WrittenInv
  <2> QED  BY <2>4, <2>5, Zenon DEF Inductive
<1> QED  BY <1>3, <1>4

\* m is the message with what it got on its way out.
LEMMA WriteInductive ==
  ASSUME Inductive, NEW m \in Composed, m.opts = msg.opts, Write(m)
  PROVE  Inductive'
<1>1. /\ SameOptions(msg.opts, built) /\ wire = <<>> /\ cut \in 0 .. Len(wire) /\ got = None
  BY Zenon DEF Inductive, BuiltInv, WrittenInv, Write
<1> DEFINE n == [m EXCEPT !.opts = Sorted(@)]
<1>2. n \in Composed /\ Ordered(n.opts) /\ SameOptions(n.opts, m.opts)
  BY SortedMessage
<1>3. /\ msg' = n /\ wire' = Marshal(msg') /\ got' = got /\ cut' = cut /\ built' = built
      /\ block' = block
  BY DEF Write
<1> HIDE DEF n
<1>4. SameOptions(n.opts, built)
  BY <1>1, <1>2, Zenon DEF SameOptions
<1>5. BuiltInv'
  BY <1>2, <1>3, <1>4, Zenon DEF Inductive, BuiltInv
<1>6. cut' \in 0 .. Len(wire') /\ wire' # <<>>
  <2>1. wire' \in Seq(Byte) /\ wire' # <<>>
    BY <1>2, <1>3, MarshalFacts
  <2>2. cut = 0 /\ Len(wire') \in Nat
    BY <1>1, <2>1
  <2> QED  BY <1>3, <2>1, <2>2
<1>7. WrittenInv'
  BY <1>1, <1>2, <1>3, <1>6, Zenon DEF WrittenInv
<1> QED  BY <1>5, <1>7, Zenon DEF Inductive

\* What Send adds to a message: an ID, and eight bytes of token if it had none.
LEMMA DrawnFacts ==
  ASSUME NEW m \in Composed, NEW token \in Tokens, NEW mid \in MessageIDs
  PROVE  LET d == Drawn(m, token, mid)
         IN  /\ d \in Composed /\ d.opts = m.opts /\ d.payload = m.payload
             /\ \/ d.token = m.token
                \/ m.token = <<>> /\ d.token # <<>> /\ Len(d.token) = 8
<1> DEFINE W == 0 .. Word - 1
<1>1. token \in Seq(Byte) /\ Len(token) = 8 /\ mid \in W
  <2>1. Tokens \subseteq {t \in Seq(Byte) : Len(t) = 8} /\ MessageIDs \subseteq W
    BY CodecAssumption, Zenon DEF CodecAssumption
  <2> QED  BY <2>1
<1>2. token # <<>>
  <2>1. Len(<<>>) = 0 /\ 8 # 0
    OBVIOUS
  <2> QED  BY <1>1, <2>1, Zenon
<1>3. m.token \in Seq(Byte) /\ m.mid \in W
  BY ComposedFields
<1> HIDE DEF W
<1>4. ASSUME NEW t \in Seq(Byte), NEW x \in W
      PROVE  LET d == [m EXCEPT !.token = t, !.mid = x]
             IN  d \in Composed /\ d.opts = m.opts /\ d.payload = m.payload /\ d.token = t
  BY DEF Composed, W
<1>5. CASE m.type = 0
  <2> DEFINE t == IF m.token = <<>> THEN token ELSE m.token
             d == [m EXCEPT !.token = t, !.mid = mid]
  <2>1. t \in Seq(Byte)
    BY <1>1, <1>3
  <2>2. t = m.token \/ (m.token = <<>> /\ t # <<>> /\ Len(t) = 8)
    <3>1. CASE m.token = <<>>
      <4>1. t = token
        BY <3>1
      <4> QED  BY <1>1, <1>2, <3>1, <4>1, Zenon
    <3>2. CASE m.token # <<>>
      <4>1. t = m.token
        BY <3>2
      <4> QED  BY <4>1
    <3> QED  BY <3>1, <3>2
  <2>3. Drawn(m, token, mid) = d
    BY <1>5 DEF Drawn
  <2> HIDE DEF t
  <2>4. d \in Composed /\ d.opts = m.opts /\ d.payload = m.payload /\ d.token = t
    BY <1>1, <1>4, <2>1, Zenon
  <2> HIDE DEF d
  <2> QED  BY <2>2, <2>3, <2>4, Zenon
<1>6. CASE m.type # 0
  <2> DEFINE x == IF m.mid = 0 THEN mid ELSE m.mid
             d == [m EXCEPT !.token = m.token, !.mid = x]
  <2>1. x \in W
    BY <1>1, <1>3
  <2>2. Drawn(m, token, mid) = d
    <3>1. Drawn(m, token, mid) = [m EXCEPT !.mid = x]
      BY <1>6 DEF Drawn
    <3>2. [m EXCEPT !.mid = x] = [m EXCEPT !.token = m.token, !.mid = x]
      <4> HIDE DEF x
      <4> QED  BY DEF Composed
    <3> QED  BY <3>1, <3>2, Zenon
  <2> HIDE DEF x
  <2>3. d \in Composed /\ d.opts = m.opts /\ d.payload = m.payload /\ d.token = m.token
    BY <1>3, <1>4, <2>1, Zenon
  <2> HIDE DEF d
  <2> QED  BY <2>2, <2>3, Zenon
<1> QED  BY <1>5, <1>6

LEMMA SendInductive ==
  ASSUME Inductive, NEW token \in Tokens, NEW mid \in MessageIDs, Send(token, mid)
  PROVE  Inductive'
<1> DEFINE d == Drawn(msg, token, mid)
<1>1. msg \in Composed
  BY Zenon DEF Inductive, BuiltInv
<1>2. d \in Composed /\ d.opts = msg.opts
  BY <1>1, DrawnFacts
<1>3. Write(d)
  BY DEF Send
<1> HIDE DEF d
<1> QED  BY <1>2, <1>3, WriteInductive

LEMMA ReplyInductive ==
  ASSUME Inductive, Reply
  PROVE  Inductive'
<1>1. msg \in Composed
  BY Zenon DEF Inductive, BuiltInv
<1> QED  BY <1>1, WriteInductive DEF Reply

LEMMA WireFacts ==
  ASSUME Inductive
  PROVE  wire \in Seq(Byte) /\ Len(wire) \in Nat
<1>1. CASE wire = <<>>
  BY <1>1
<1>2. CASE wire # <<>>
  <2>1. wire = Marshal(msg) /\ msg \in Composed /\ Ordered(msg.opts)
    BY <1>2 DEF Inductive, BuiltInv, WrittenInv
  <2>2. wire \in Seq(Byte)
    BY <2>1, MarshalFacts
  <2> QED  BY <2>2
<1> QED  BY <1>1, <1>2

LEMMA ReceiveInductive ==
  ASSUME Inductive, NEW buffer \in ReadBuffers, Receive(buffer)
  PROVE  Inductive'
<1>1. /\ wire # <<>> /\ cut' = (IF Len(wire) <= buffer THEN Len(wire) ELSE buffer)
      /\ got' = Unmarshal(SubSeq(wire, 1, cut')) /\ msg' = msg /\ built' = built /\ block' = block
      /\ estimate' = estimate /\ wire' = wire
  BY DEF Receive
<1>2. buffer \in Nat
  <2>1. ReadBuffers \subseteq Nat
    BY CodecAssumption, Zenon DEF CodecAssumption
  <2> QED  BY <2>1
<1>3. Len(wire) \in Nat
  BY WireFacts
<1>4. cut' \in 0 .. Len(wire)
  BY <1>1, <1>2, <1>3
<1>5. BuiltInv'
  BY <1>1, Zenon DEF Inductive, BuiltInv
<1>6. WrittenInv'
  BY <1>1, <1>4, Zenon DEF Inductive, WrittenInv
<1> QED  BY <1>5, <1>6, Zenon DEF Inductive

LEMMA NextInductive == Inductive /\ [Next]_vars => Inductive'
<1> SUFFICES ASSUME Inductive, [Next]_vars PROVE Inductive'
  OBVIOUS
<1>1. ASSUME NEW o \in Options, NEW replace \in BOOLEAN, WithOption(o, replace) PROVE Inductive'
  <2>1. o \in Used
    BY DEF Used
  <2> QED  BY <1>1, <2>1, WithOptionInductive
<1>2. ASSUME NEW o \in PeerOptions, WithOption(o, FALSE) PROVE Inductive'
  <2>1. o \in Used /\ FALSE \in BOOLEAN
    BY DEF Used
  <2> QED  BY <1>2, <2>1, WithOptionInductive
<1>3. ASSUME NEW bm \in Blocks, WithBlock1(bm) PROVE Inductive'
  BY <1>3, WithBlock1Inductive
<1>4. ASSUME NEW o \in Options, RemoveOption(o.id) PROVE Inductive'
  <2>1. o.id \in Number
    BY UsedFits, OptionFields DEF Used
  <2> QED  BY <1>4, <2>1, RemoveOptionInductive
<1>5. CASE RemoveOption(OptBlock1)
  BY <1>5, BlockNumberIs27, RemoveOptionInductive
<1>6. CASE PacketSize
  BY <1>6, PacketSizeInductive
<1>7. ASSUME NEW token \in Tokens, NEW mid \in MessageIDs, Send(token, mid) PROVE Inductive'
  BY <1>7, SendInductive
<1>8. ASSUME NEW buffer \in ReadBuffers, Receive(buffer) PROVE Inductive'
  BY <1>8, ReceiveInductive
<1>9. CASE Reply
  BY <1>9, ReplyInductive
<1>10. CASE UNCHANGED vars
  BY <1>10, Zenon DEF vars, Inductive, BuiltInv, WrittenInv
<1> QED
  <2>1. Next \/ UNCHANGED vars
    OBVIOUS
  <2> QED  BY <1>1, <1>2, <1>3, <1>4, <1>5, <1>6, <1>7, <1>8, <1>9, <1>10, <2>1, Zenon DEF Next

\* The message holds the options of its builder, each as often and, within one
\* number, in the order that it gave them; what was measured and what was written
\* is the message as it is now.
THEOREM InductiveCorrect == Spec => []Inductive
<1>1. Init => Inductive
  BY InitInductive
<1>2. Inductive /\ [Next]_vars => Inductive'
  BY NextInductive
<1> QED  BY <1>1, <1>2, PTL DEF Spec

-----------------------------------------------------------------------------
(* What follows from it without the reader *)

\* One datagram: written of the message as it was measured, or with a token more.
LEMMA WriteMeasured ==
  ASSUME NEW m \in Composed, NEW n \in Composed, Ordered(m.opts), n.opts = m.opts,
         n.payload = m.payload,
         n.token = m.token \/ (m.token = <<>> /\ n.token # <<>> /\ Len(n.token) = 8)
  PROVE  Len(Marshal(n))
           = (HeaderSize(m) + Len(m.payload)) + (IF m.token = <<>> /\ n.token # <<>> THEN 8 ELSE 0)
<1> DEFINE more == IF m.token = <<>> /\ n.token # <<>> THEN 8 ELSE 0
           a == Len(m.token)
           b == Len(n.token)
           o == OptionsSize(m.opts)
           z == IF m.payload = <<>> THEN 0 ELSE 1
           p == Len(m.payload)
<1>1. a \in Nat /\ b \in Nat /\ p \in Nat
  BY ComposedFields
<1>2. o \in Nat /\ z \in Nat /\ more \in Nat
  <2>1. m.opts \in Seq(Fitting)
    BY ComposedFields, UsedFits
  <2>2. o \in Nat
    BY <2>1, ChunksFacts
  <2> QED  BY <2>2
<1>3. b = a + more
  <2>1. CASE n.token = m.token
    <3>1. more = 0 /\ b = a
      BY <2>1, Zenon
    <3> HIDE DEF more, a, b
    <3> QED  BY <1>1, <3>1
  <2>2. CASE m.token = <<>> /\ n.token # <<>> /\ Len(n.token) = 8
    BY <2>2
  <2> QED  BY <2>1, <2>2
<1>4. Ordered(n.opts)
  BY Zenon
<1>5. Len(Marshal(n)) = HeaderSize(n) + Len(n.payload)
  BY <1>4, MarshalFacts
<1>6. HeaderSize(m) = 4 + a + o + z /\ HeaderSize(n) = 4 + b + o + z /\ Len(n.payload) = p
  BY DEF HeaderSize
<1> HIDE DEF more, a, b, o, z, p
<1>7. (4 + b + o + z) + p = ((4 + a + o + z) + p) + more
  BY <1>1, <1>2, <1>3
<1> QED  BY <1>5, <1>6, <1>7, Zenon DEF more, p

LEMMA NotWritten ==
  ASSUME NEW x, NEW added, Change(x, added) \/ UNCHANGED wire
  PROVE  wire' = <<>> \/ wire' = wire
BY Zenon DEF Change

\* headerSize and marshalBinary, two copies of one layout, agree to the byte on a
\* message that was not received, for every list of options, but for the token that
\* a confirmable message without one gets between its estimate and its datagram: of
\* a message taken to fit MaxMessageSize, at most eight bytes do not.
THEOREM EstimateIsExactCorrect == Spec => EstimateIsExact
<1>1. Inductive /\ [Next]_vars =>
        [wire = <<>> /\ wire' # <<>> /\ estimate # -1 /\ msg.packetSize = 0 =>
           Len(wire') = estimate + (IF msg.token = <<>> /\ msg'.token # <<>> THEN 8 ELSE 0)]_vars
  <2> SUFFICES ASSUME Inductive, Next, wire = <<>>, wire' # <<>>, estimate # -1, msg.packetSize = 0
               PROVE  Len(wire') = estimate + (IF msg.token = <<>> /\ msg'.token # <<>> THEN 8 ELSE 0)
    OBVIOUS
  <2>1. msg \in Composed /\ Ordered(msg.opts) /\ estimate = HeaderSize(msg) + Len(msg.payload)
    BY Zenon DEF Inductive, BuiltInv, WrittenInv
  <2>2. \/ \E token \in Tokens, mid \in MessageIDs : Send(token, mid)
        \/ Reply
    <3>1. ASSUME NEW o, NEW replace, WithOption(o, replace) PROVE FALSE
      BY <3>1, NotWritten, Zenon DEF WithOption
    <3>2. ASSUME NEW bm, WithBlock1(bm) PROVE FALSE
      BY <3>2, NotWritten, Zenon DEF WithBlock1
    <3>3. ASSUME NEW id, RemoveOption(id) PROVE FALSE
      BY <3>3, NotWritten, Zenon DEF RemoveOption
    <3>4. ~ PacketSize /\ \A buffer : ~ Receive(buffer)
      BY Zenon DEF PacketSize, Receive
    <3> QED  BY <3>1, <3>2, <3>3, <3>4, Zenon DEF Next
  <2>3. \E m \in Composed : /\ Write(m) /\ m.opts = msg.opts /\ m.payload = msg.payload
                            /\ \/ m.token = msg.token
                               \/ msg.token = <<>> /\ m.token # <<>> /\ Len(m.token) = 8
    <3>1. CASE Reply
      BY <2>1, <3>1, Zenon DEF Reply
    <3>2. ASSUME NEW token \in Tokens, NEW mid \in MessageIDs, Send(token, mid)
          PROVE  \E m \in Composed : /\ Write(m) /\ m.opts = msg.opts /\ m.payload = msg.payload
                                     /\ \/ m.token = msg.token
                                        \/ msg.token = <<>> /\ m.token # <<>> /\ Len(m.token) = 8
      <4> DEFINE d == Drawn(msg, token, mid)
      <4>1. Write(d)
        BY <3>2 DEF Send
      <4>2. /\ d \in Composed /\ d.opts = msg.opts /\ d.payload = msg.payload
            /\ \/ d.token = msg.token
               \/ msg.token = <<>> /\ d.token # <<>> /\ Len(d.token) = 8
        BY <2>1, DrawnFacts
      <4> HIDE DEF d
      <4> QED  BY <4>1, <4>2, Zenon
    <3> QED  BY <2>2, <3>1, <3>2
  <2>4. PICK m \in Composed : /\ Write(m) /\ m.opts = msg.opts /\ m.payload = msg.payload
                              /\ \/ m.token = msg.token
                                 \/ msg.token = <<>> /\ m.token # <<>> /\ Len(m.token) = 8
    BY <2>3
  <2>5. [m EXCEPT !.opts = Sorted(@)] = m
    BY <2>1, <2>4, SortedMessage, Zenon
  <2>6. msg' = m /\ wire' = Marshal(m)
    BY <2>4, <2>5, Zenon DEF Write
  <2>7. Len(Marshal(m)) = (HeaderSize(msg) + Len(msg.payload))
                            + (IF msg.token = <<>> /\ m.token # <<>> THEN 8 ELSE 0)
    BY <2>1, <2>4, WriteMeasured, Zenon
  <2> QED  BY <2>1, <2>6, <2>7, Zenon
<1> QED  BY <1>1, InductiveCorrect, PTL DEF Spec, EstimateIsExact

\* Every byte that is written is one: no header, extension, value or token length
\* overflows, whatever the options; a cut lies within the datagram.
THEOREM TypeCorrect == Spec => []TypeOK
<1>1. Inductive => TypeOK
  <2> SUFFICES ASSUME Inductive PROVE TypeOK
    OBVIOUS
  <2>1. \A i \in DOMAIN wire : wire[i] \in Byte
    BY WireFacts
  <2>2. cut \in 0 .. Len(wire)
    BY DEF Inductive, WrittenInv
  <2>3. Len(msg.opts) <= MaxOptions
    BY DEF Inductive, BuiltInv, SameOptions
  <2>4. ASSUME got # None PROVE got.ok \in BOOLEAN
    <3>1. got = Unmarshal(SubSeq(wire, 1, cut))
      BY <2>4 DEF Inductive, WrittenInv
    <3>2. ASSUME NEW b PROVE Unmarshal(b).ok \in BOOLEAN
      BY DEF Unmarshal, Failed
    <3> QED  BY <3>1, <3>2
  <2> QED  BY <2>1, <2>2, <2>3, <2>4, Zenon DEF TypeOK
<1> QED  BY <1>1, InductiveCorrect, PTL

-----------------------------------------------------------------------------
(* The loop over options *)

\* Rounds, unfolded.
LEMMA RoundsForm ==
  ASSUME NEW T, NEW b \in Seq(T)
  PROVE  /\ Rounds(b)[0] = Start(b)
         /\ \A k \in 1 .. Len(b) : Rounds(b)[k] = Round(Rounds(b)[k - 1])
<1> DEFINE n == Len(b)
           Is(f, m) == f = [k \in 0 .. m |->
                              IF k = 0 THEN Start(b) ELSE Round(f[k - 1])]
           Exists(m) == \E f : Is(f, m)
           g == CHOOSE f : Is(f, n)
           Holds == {m \in 0 .. n : Exists(m)}
<1>1. n \in Nat
  OBVIOUS
<1>2. Rounds(b) = g
  BY DEF Rounds
<1> HIDE DEF n
<1>3. Exists(0)
  <2> DEFINE f == [k \in 0 .. 0 |-> Start(b)]
  <2>1. ASSUME NEW k \in 0 .. 0
        PROVE  f[k] = IF k = 0 THEN Start(b) ELSE Round(f[k - 1])
    OBVIOUS
  <2>2. f = [k \in 0 .. 0 |-> f[k]]
    OBVIOUS
  <2> HIDE DEF f
  <2>3. Is(f, 0)
    BY <2>1, <2>2, Zenon
  <2> QED  BY <2>3, Zenon
<1>4. ASSUME NEW m \in 1 .. n, Exists(m - 1) PROVE Exists(m)
  <2>1. PICK f : Is(f, m - 1)
    BY <1>4, Zenon
  <2> DEFINE h == [k \in 0 .. m |-> IF k = m THEN Round(f[m - 1]) ELSE f[k]]
  <2>2. ASSUME NEW k \in 0 .. m
        PROVE  h[k] = IF k = 0 THEN Start(b) ELSE Round(h[k - 1])
    <3>0. m \in Nat /\ m >= 1
      BY <1>1
    <3>1. CASE k = 0
      <4>1. k # m /\ k \in 0 .. m - 1
        BY <3>0, <3>1
      <4>2. h[k] = f[k]
        BY <4>1
      <4>3. f[k] = Start(b)
        BY <2>1, <3>1, <4>1, Zenon
      <4> QED  BY <3>1, <4>2, <4>3, Zenon
    <3>2. CASE k = m
      <4>1. k # 0 /\ k - 1 \in 0 .. m /\ k - 1 # m
        BY <3>0, <3>2
      <4>2. h[k - 1] = f[m - 1]
        BY <4>1, <3>2, Zenon
      <4>3. h[k] = Round(f[m - 1])
        BY <3>2, Zenon
      <4> HIDE DEF h
      <4> QED  BY <4>1, <4>2, <4>3, <3>2, Zenon
    <3>3. CASE k # 0 /\ k # m
      <4>1. k \in 0 .. m - 1 /\ k - 1 \in 0 .. m /\ k - 1 # m
        BY <3>0, <3>3
      <4>2. h[k] = f[k] /\ h[k - 1] = f[k - 1]
        BY <4>1, <3>3, Zenon
      <4>3. f[k] = Round(f[k - 1])
        BY <2>1, <4>1, <3>3, Zenon
      <4> HIDE DEF h
      <4> QED  BY <3>3, <4>2, <4>3, Zenon
    <3> QED  BY <3>1, <3>2, <3>3
  <2>3. h = [k \in 0 .. m |-> h[k]]
    BY Zenon
  <2> HIDE DEF h
  <2>4. Is(h, m)
    BY <2>2, <2>3, Zenon
  <2> QED  BY <2>4, Zenon
<1>5. Exists(n)
  <2> HIDE DEF Exists
  <2>1. Holds \in SUBSET (0 .. n) /\ 0 \in Holds
    BY <1>1, <1>3
  <2>2. \A m \in 1 .. n : m - 1 \in Holds => m \in Holds
    BY <1>1, <1>4
  <2>3. Holds = 0 .. n
    <3> HIDE DEF Holds
    <3> QED  BY <1>1, <2>1, <2>2, BoundedInduction
  <2> QED  BY <1>1, <2>3
<1>6. Is(g, n)
  BY <1>5, Zenon
<1> HIDE DEF g
<1>7. g[0] = Start(b)
  <2>1. 0 \in 0 .. n
    BY <1>1
  <2> QED  BY <1>6, <2>1, Zenon
<1>8. ASSUME NEW k \in 1 .. n PROVE g[k] = Round(g[k - 1])
  <2>1. k \in 0 .. n /\ k # 0
    BY <1>1
  <2> QED  BY <1>6, <2>1, Zenon
<1> QED  BY <1>2, <1>7, <1>8, Zenon DEF n

\* A loop that has ended stays as it is.
LEMMA EndedStays ==
  ASSUME NEW T, NEW b \in Seq(T), NEW k \in 0 .. Len(b), Ended(Rounds(b)[k])
  PROVE  Rounds(b)[Len(b)] = Rounds(b)[k]
<1> DEFINE n == Len(b)
           r == Rounds(b)
<1>1. n \in Nat /\ k \in 0 .. n
  OBVIOUS
<1>2. \A i \in 1 .. n : r[i] = Round(r[i - 1])
  BY RoundsForm
<1>3. Ended(r[k])
  OBVIOUS
<1>4. Round(r[k]) = r[k]
  BY <1>3, Zenon DEF Round
<1> HIDE DEF n, r
<1> DEFINE Holds == {i \in 0 .. n : i >= k => r[i] = r[k]}
<1>5. Holds \in SUBSET (0 .. n) /\ 0 \in Holds
  BY <1>1
<1>6. ASSUME NEW i \in 1 .. n, i - 1 \in Holds PROVE i \in Holds
  <2>1. i \in 0 .. n /\ (i - 1 >= k => r[i - 1] = r[k])
    BY <1>1, <1>6
  <2>2. i >= k => i = k \/ i - 1 >= k
    BY <1>1
  <2>3. i - 1 >= k => r[i] = r[k]
    BY <1>2, <1>4, <2>1, Zenon
  <2> QED  BY <2>1, <2>2, <2>3
<1>7. Holds = 0 .. n
  <2> HIDE DEF Holds
  <2> QED  BY <1>1, <1>5, <1>6, BoundedInduction
<1>8. n \in Holds /\ n >= k
  BY <1>1, <1>7
<1> QED  BY <1>8 DEF n, r

\* Whichever of the ended rounds is chosen, it is the same.
LEMMA ParseAt ==
  ASSUME NEW T, NEW b \in Seq(T), NEW k \in 0 .. Len(b), Ended(Rounds(b)[k])
  PROVE  ParseOptions(b) = Rounds(b)[k]
<1> DEFINE j == CHOOSE i \in 0 .. Len(b) : Ended(Rounds(b)[i])
<1>1. j \in 0 .. Len(b) /\ Ended(Rounds(b)[j])
  BY Zenon
<1>2. ParseOptions(b) = Rounds(b)[j]
  BY DEF ParseOptions
<1> HIDE DEF j
<1>3. Rounds(b)[Len(b)] = Rounds(b)[j]
  BY <1>1, EndedStays
<1>4. Rounds(b)[Len(b)] = Rounds(b)[k]
  BY EndedStays
<1> QED  BY <1>2, <1>3, <1>4

\* Options that a reader with narrow numbers takes for what they are.
Plain == {o \in Fitting : o.id > 255 => OptionDef(o.id % 256).format = "unknown"}
Recognized == {o \in Option : ParseOptionValue(o.id, ToBytes(o.val)) # <<>>}

LEMMA NamedNumbers ==
  ASSUME NEW id \in Nat
  PROVE  /\ OptionDef(id).format \in {"bytes", "uint", "unknown"}
         /\ id > 255 => OptionDef(id).format = "unknown"
BY SMT DEF OptionDef

\* What the reader makes of the value of an option.
LEMMA ValueRoundTrip ==
  ASSUME NEW o \in Plain
  PROVE  ParseOptionValue(o.id % 256, ToBytes(o.val)) = IF o \in Recognized THEN <<o>> ELSE <<>>
<1> DEFINE id == o.id
           v == o.val
           b == ToBytes(v)
           format == OptionDef(id).format
<1>1. /\ o \in Fitting /\ o \in Option /\ id \in Nat /\ (id > 255 => OptionDef(id % 256).format = "unknown")
  BY UsedFits, OptionFields, NumbersAreInt DEF Plain
<1>2. o = [id |-> id, val |-> v]
  BY <1>1 DEF Option
<1>3. o \in Recognized <=> ParseOptionValue(id, b) # <<>>
  BY <1>1, Zenon DEF Recognized
<1>4. /\ format = "uint" => v \in [uint : Nat]
      /\ format = "bytes" => v \in [bytes : Seq(Byte)]
  BY <1>1, Zenon DEF Fitting, WellFormed
<1>5. IsUint(v) \/ IsBytes(v)
  BY <1>1, ValueKinds
<1>6. format = "uint" => v = [uint |-> DecodeInt(b)]
  <2> SUFFICES ASSUME format = "uint" PROVE v = [uint |-> DecodeInt(b)]
    OBVIOUS
  <2>1. v \in [uint : Nat] /\ "uint" \in DOMAIN v /\ v = [uint |-> v.uint]
    BY <1>4
  <2>2. v.uint \in Nat /\ v.uint \div Word < Word /\ b = EncodeInt(v.uint)
    BY <1>5, <2>1, Zenon DEF IsUint, IsBytes, ToBytes
  <2>3. v.uint < (256 * 256) * (256 * 256)
    <3>1. \A n \in Nat : n \div (256 * 256) < 256 * 256 => n < (256 * 256) * (256 * 256)
      OBVIOUS
    <3> QED  BY <2>2, <3>1, Zenon DEF Word
  <2>4. DecodeInt(b) = v.uint
    BY <2>2, <2>3, IntRoundTrip
  <2> QED  BY <2>1, <2>4, Zenon
<1>7. format = "bytes" => v = [bytes |-> b]
  <2> SUFFICES ASSUME format = "bytes" PROVE v = [bytes |-> b]
    OBVIOUS
  <2>1. v \in [bytes : Seq(Byte)] /\ "uint" \notin DOMAIN v /\ v = [bytes |-> v.bytes]
    BY <1>4
  <2>2. b = v.bytes
    BY <2>1, Zenon DEF ToBytes
  <2> QED  BY <2>1, <2>2, Zenon
<1> HIDE DEF b, v, format
<1>8. ParseOptionValue(id, b) = <<>> \/ ParseOptionValue(id, b) = <<o>>
  <2>1. CASE format = "uint"
    BY <1>2, <1>6, <2>1 DEF ParseOptionValue, format
  <2>2. CASE format = "bytes"
    BY <1>2, <1>7, <2>2 DEF ParseOptionValue, format
  <2>3. CASE format = "unknown"
    BY <2>3 DEF ParseOptionValue, format
  <2> QED  BY <1>1, <2>1, <2>2, <2>3, NamedNumbers DEF format
<1>9. ParseOptionValue(id % 256, b) = ParseOptionValue(id, b)
  <2>1. CASE id > 255
    <3>1. OptionDef(id % 256).format = "unknown" /\ OptionDef(id).format = "unknown"
      BY <1>1, <2>1, NamedNumbers
    <3> QED  BY <3>1, Zenon DEF ParseOptionValue
  <2>2. CASE ~(id > 255)
    <3>1. id % 256 = id
      BY <1>1, <2>2
    <3> QED  BY <3>1
  <2> QED  BY <2>1, <2>2
<1>10. <<o>> # <<>>
  OBVIOUS
<1> QED  BY <1>3, <1>8, <1>9, <1>10, Zenon DEF b, v

\* The bytes of an option, part by part.
Parts(o, prev, d, l, b) ==
  /\ d = ExtendOpt(o.id - prev) /\ b = ToBytes(o.val) /\ l = ExtendOpt(Len(b))
  /\ d.nibble \in 0 .. 14 /\ d.ext \in Seq(Byte) /\ l.nibble \in 0 .. 14 /\ l.ext \in Seq(Byte)
  /\ b \in Seq(Byte) /\ o.id - prev \in Nat /\ o.id - prev < Word + 269
  /\ Len(b) \in Nat /\ Len(b) < Word + 269
  /\ 16 * d.nibble + l.nibble \in Byte
  /\ Chunk(o, prev) = <<16 * d.nibble + l.nibble>> \o (d.ext \o (l.ext \o b))

LEMMA ChunkParts ==
  ASSUME NEW o \in Fitting, NEW prev \in Nat, prev <= o.id
  PROVE  \E d, l, b : Parts(o, prev, d, l, b)
<1> DEFINE b == ToBytes(o.val)
           d == ExtendOpt(o.id - prev)
           l == ExtendOpt(Len(b))
           first == 16 * d.nibble + l.nibble
<1>1. b \in Seq(Byte) /\ Len(b) \in Nat /\ Len(b) < Word + 269
  BY ToBytesFacts
<1>2. o.id - prev \in Nat /\ o.id - prev < Word + 269
  <2>1. o.id \in Number /\ o.id \in Int
    BY OptionFields DEF Fitting
  <2>2. Word \in Nat
    BY DEF Word
  <2>3. \A w \in Nat : \A n \in 0 .. w - 1 : n < w
    OBVIOUS
  <2>4. o.id < Word
    BY <2>1, <2>2, <2>3, Zenon DEF Number
  <2> QED  BY <2>1, <2>2, <2>4
<1>3. d.nibble \in 0 .. 14 /\ d.ext \in Seq(Byte)
  BY <1>2, ExtendFacts
<1>4. l.nibble \in 0 .. 14 /\ l.ext \in Seq(Byte)
  BY <1>1, ExtendFacts
<1>5. Chunk(o, prev) = ((<<first>> \o d.ext) \o l.ext) \o b
  BY DEF Chunk, OptionHeader
<1> HIDE DEF b, d, l
<1>6. first \in Byte
  <2>1. \A x, y \in 0 .. 14 : 16 * x + y \in 0 .. 255
    OBVIOUS
  <2> QED  BY <1>3, <1>4, <2>1, BytesAreNat, Zenon
<1> DEFINE one == <<first>>
           x == d.ext
           y == l.ext
<1>7. one \in Seq(Byte) /\ x \in Seq(Byte) /\ y \in Seq(Byte)
  <2> HIDE DEF first
  <2> QED  BY <1>3, <1>4, <1>6
<1> HIDE DEF one, x, y
<1>8. ((one \o x) \o y) \o b = one \o (x \o (y \o b))
  <2>1. one \o x \in Seq(Byte) /\ y \o b \in Seq(Byte)
    BY <1>1, <1>7, BytesConcat
  <2> DEFINE u == one \o x
             w == y \o b
  <2>u. u \in Seq(Byte) /\ w \in Seq(Byte)
    BY <2>1
  <2> HIDE DEF u, w
  <2>2. (u \o y) \o b = u \o (y \o b)
    <3>1. u \in Seq(Byte) /\ y \in Seq(Byte) /\ b \in Seq(Byte)
      BY <1>1, <1>7, <2>u
    <3> QED  BY <3>1, BytesTwice
  <2>3. (one \o x) \o w = one \o (x \o w)
    <3>1. one \in Seq(Byte) /\ x \in Seq(Byte) /\ w \in Seq(Byte)
      BY <1>7, <2>u
    <3> QED  BY <3>1, BytesTwice
  <2> QED  BY <2>2, <2>3, Zenon DEF u, w
<1>9. Chunk(o, prev) = one \o (x \o (y \o b))
  BY <1>5, <1>8, Zenon DEF one, x, y
<1>10. Parts(o, prev, d, l, b)
  BY <1>1, <1>2, <1>3, <1>4, <1>6, <1>9, Zenon DEF Parts, one, x, y, b, d, l
<1> QED  BY <1>10, Zenon

LEMMA BytesAreNumbers ==
  ASSUME NEW s \in Seq(Byte)
  PROVE  s \in Seq(Nat)
<1>1. \A i \in 1 .. Len(s) : s[i] \in Byte
  OBVIOUS
<1>2. \A i \in 1 .. Len(s) : s[i] \in Nat
  BY <1>1, BytesAreNat, Zenon
<1> QED  BY <1>2

\* What is in front of a sequence, and what is behind.
LEMMA TakeApart ==
  ASSUME NEW a \in Seq(Byte), NEW b \in Seq(Byte)
  PROVE  /\ a \o b \in Seq(Byte) /\ Len(a \o b) = Len(a) + Len(b) /\ Len(a) \in Nat /\ Len(b) \in Nat
         /\ Rest(a \o b, Len(a)) = b /\ SubSeq(a \o b, 1, Len(a)) = a
<1>1. /\ a \o b \in Seq(Byte) /\ Len(a \o b) = Len(a) + Len(b) /\ Len(a) \in Nat /\ Len(b) \in Nat
  BY BytesConcat
<1>2. Rest(a \o b, Len(a)) = b
  BY BytesAreNumbers, RestOfConcat
<1>3. SubSeq(a \o b, 1, Len(a)) = a
  OBVIOUS
<1> QED  BY <1>1, <1>2, <1>3

LEMMA TakeOne ==
  ASSUME NEW e \in Byte, NEW b \in Seq(Byte)
  PROVE  /\ <<e>> \o b \in Seq(Byte) /\ (<<e>> \o b)[1] = e /\ Rest(<<e>> \o b, 1) = b
         /\ <<e>> \o b # <<>>
<1> DEFINE a == <<e>>
<1>1. a \in Seq(Byte) /\ Len(a) = 1 /\ a[1] = e /\ 1 \in 1 .. Len(a)
  OBVIOUS
<1> HIDE DEF a
<1>2. a \o b \in Seq(Byte) /\ Rest(a \o b, 1) = b /\ Len(a \o b) = 1 + Len(b) /\ Len(b) \in Nat
  BY <1>1, TakeApart
<1>3. (a \o b)[1] = e
  BY <1>1, BytesAreNumbers, RestOfConcat
<1>4. a \o b # <<>>
  BY <1>2
<1> QED  BY <1>2, <1>3, <1>4 DEF a

LEMMA NibblesApart ==
  ASSUME NEW x \in 0 .. 14, NEW y \in 0 .. 14
  PROVE  /\ (16 * x + y) \div 16 = x /\ (16 * x + y) % 16 = y /\ 16 * x + y # 255
         /\ 15 \notin {x, y}
OBVIOUS

LEMMA RunningFields ==
  ASSUME NEW rest, NEW prev, NEW opts,
         NEW s, s = Running(rest, prev, opts)
  PROVE  s.rest = rest /\ s.prev = prev /\ s.opts = opts /\ s.ok /\ (Ended(s) <=> rest = <<>>)
<1>1. s = [loop |-> TRUE, ok |-> TRUE, rest |-> rest, prev |-> prev, opts |-> opts]
  BY DEF Running
<1>2. s.rest = rest /\ s.prev = prev /\ s.opts = opts /\ s.ok /\ s.loop
  BY <1>1
<1>3. Ended(s) <=> rest = <<>>
  BY <1>2, Zenon DEF Ended
<1> QED  BY <1>2, <1>3, Zenon

\* A round that reads an option.
LEMMA RoundForm ==
  ASSUME NEW rest, NEW prev, NEW opts, NEW first, NEW delta, NEW length, NEW r2, NEW r3, NEW id,
         rest # <<>>, first = rest[1], first # 255, 15 \notin {first \div 16, first % 16},
         ParseExt(first \div 16, Rest(rest, 1)) = [ok |-> TRUE, n |-> delta, rest |-> r2],
         ParseExt(first % 16, r2) = [ok |-> TRUE, n |-> length, rest |-> r3],
         ~(Len(r3) < length), id = (prev + delta) % 256
  PROVE  Round(Running(rest, prev, opts))
           = Running(Rest(r3, length), id, opts \o ParseOptionValue(id, SubSeq(r3, 1, length)))
<1> DEFINE s == Running(rest, prev, opts)
           dx == [ok |-> TRUE, n |-> delta, rest |-> r2]
           lx == [ok |-> TRUE, n |-> length, rest |-> r3]
<1>1. dx.ok /\ dx.n = delta /\ dx.rest = r2 /\ lx.ok /\ lx.n = length /\ lx.rest = r3
  OBVIOUS
<1>2. ParseExt(first \div 16, Rest(rest, 1)) = dx /\ ParseExt(first % 16, r2) = lx
  OBVIOUS
<1>3. s.rest = rest /\ s.prev = prev /\ s.opts = opts /\ ~Ended(s)
  BY RunningFields
<1> HIDE DEF s, dx, lx
<1>4. Round(s) = Running(Rest(r3, length), id, opts \o ParseOptionValue(id, SubSeq(r3, 1, length)))
  BY <1>1, <1>2, <1>3 DEF Round
<1> QED  BY <1>4 DEF s

\* The bytes of an option before others, and the loop before and behind them.
Before(o, prev, tail, opts) == Running(Chunk(o, prev) \o tail, prev % 256, opts)
Behind(o, tail, opts) ==
  Running(tail, o.id % 256, opts \o (IF o \in Recognized THEN <<o>> ELSE <<>>))

\* One round reads one option, whatever follows.
LEMMA OneRound ==
  ASSUME NEW o \in Plain, NEW prev \in Nat, prev <= o.id, NEW tail \in Seq(Byte),
         NEW opts \in Seq(Option)
  PROVE  Round(Before(o, prev, tail, opts)) = Behind(o, tail, opts)
<1>0. o \in Fitting /\ o.id \in Nat
  BY UsedFits, OptionFields, NumbersAreInt DEF Plain
<1>1. PICK d, l, b : Parts(o, prev, d, l, b)
  BY <1>0, ChunkParts
<1> DEFINE delta == o.id - prev
           length == Len(b)
           first == 16 * d.nibble + l.nibble
           x == d.ext
           y == l.ext
           r1 == x \o (y \o (b \o tail))
           r2 == y \o (b \o tail)
           r3 == b \o tail
           z == Chunk(o, prev) \o tail
<1>2. /\ d = ExtendOpt(delta) /\ l = ExtendOpt(length) /\ b = ToBytes(o.val)
      /\ d.nibble \in 0 .. 14 /\ l.nibble \in 0 .. 14
      /\ x \in Seq(Byte) /\ y \in Seq(Byte) /\ b \in Seq(Byte) /\ first \in Byte
      /\ delta \in Nat /\ delta < Word + 269 /\ length \in Nat /\ length < Word + 269
      /\ Chunk(o, prev) = <<first>> \o (x \o (y \o b))
  BY <1>1, Zenon DEF Parts
<1>3. first \div 16 = d.nibble /\ first % 16 = l.nibble /\ first # 255 /\ 15 \notin {first \div 16, first % 16}
  <2> DEFINE p == d.nibble
             q == l.nibble
  <2>1. p \in 0 .. 14 /\ q \in 0 .. 14
    BY <1>2
  <2> HIDE DEF p, q
  <2>2. /\ (16 * p + q) \div 16 = p /\ (16 * p + q) % 16 = q /\ 16 * p + q # 255
        /\ 15 \notin {p, q}
    BY <2>1, NibblesApart
  <2> QED  BY <2>2, Zenon DEF p, q
<1> DEFINE one == <<first>>
<1>4. one \in Seq(Byte)
  <2>1. first \in Byte
    BY <1>2, Zenon
  <2> HIDE DEF first
  <2> QED  BY <2>1
<1> HIDE DEF first, delta, length, x, y, one
<1>5. /\ r3 \in Seq(Byte) /\ Len(r3) = length + Len(tail) /\ Len(tail) \in Nat
      /\ Rest(r3, length) = tail /\ SubSeq(r3, 1, length) = b
  <2>1. b \in Seq(Byte)
    BY <1>2, Zenon
  <2> QED  BY <2>1, TakeApart DEF length
<1>6. r2 \in Seq(Byte) /\ r1 \in Seq(Byte)
  <2>1. r2 \in Seq(Byte)
    <3> HIDE DEF r3
    <3>1. y \o r3 \in Seq(Byte)
      BY <1>2, <1>5, BytesConcat
    <3> QED  BY <3>1 DEF r3
  <2> HIDE DEF r2
  <2>2. x \o r2 \in Seq(Byte)
    BY <1>2, <2>1, BytesConcat
  <2> QED  BY <2>1, <2>2 DEF r2
<1>7. z = one \o r1
  <2>1. y \o b \in Seq(Byte) /\ x \o (y \o b) \in Seq(Byte)
    <3>1. y \o b \in Seq(Byte)
      BY <1>2, BytesConcat
    <3> DEFINE c == y \o b
    <3> HIDE DEF c
    <3>2. x \o c \in Seq(Byte)
      BY <1>2, <3>1, BytesConcat DEF c
    <3> QED  BY <3>1, <3>2 DEF c
  <2> DEFINE c == y \o b
             e == x \o c
  <2>c. c \in Seq(Byte)
    BY <2>1
  <2>e. e \in Seq(Byte)
    BY <2>1
  <2>x. x \in Seq(Byte)
    BY <1>2
  <2>y. y \in Seq(Byte) /\ b \in Seq(Byte)
    BY <1>2
  <2> HIDE DEF c, e
  <2>2. (one \o e) \o tail = one \o (e \o tail)
    BY <1>4, <2>e, BytesTwice
  <2>3. (x \o c) \o tail = x \o (c \o tail)
    BY <2>c, <2>x, BytesTwice
  <2>4. (y \o b) \o tail = y \o (b \o tail)
    BY <2>y, BytesTwice
  <2> QED  BY <1>2, <2>2, <2>3, <2>4, Zenon DEF one, c, e
<1> HIDE DEF r1, r2, r3, z
<1>8. z[1] = first /\ Rest(z, 1) = r1 /\ z # <<>>
  BY <1>2, <1>6, <1>7, TakeOne DEF one
<1>9. ParseExt(d.nibble, r1) = [ok |-> TRUE, n |-> delta, rest |-> r2]
  <2>1. r2 \in Seq(Nat) /\ delta < (256 * 256) + 269
    BY <1>2, <1>6, BytesAreNumbers DEF Word
  <2>2. ParseExt(ExtendOpt(delta).nibble, ExtendOpt(delta).ext \o r2) = [ok |-> TRUE, n |-> delta, rest |-> r2]
    BY <1>2, <2>1, ExtRoundTrip
  <2>3. r1 = ExtendOpt(delta).ext \o r2
    BY <1>2, Zenon DEF r1, r2, r3, x
  <2> QED  BY <1>2, <2>2, <2>3, Zenon
<1>10. ParseExt(l.nibble, r2) = [ok |-> TRUE, n |-> length, rest |-> r3]
  <2>1. r3 \in Seq(Nat) /\ length < (256 * 256) + 269
    BY <1>2, <1>5, BytesAreNumbers DEF Word
  <2>2. ParseExt(ExtendOpt(length).nibble, ExtendOpt(length).ext \o r3) = [ok |-> TRUE, n |-> length, rest |-> r3]
    BY <1>2, <2>1, ExtRoundTrip
  <2>3. r2 = ExtendOpt(length).ext \o r3
    BY <1>2, Zenon DEF r2, r3, y
  <2> QED  BY <1>2, <2>2, <2>3, Zenon
<1>11. ((prev % 256) + delta) % 256 = o.id % 256
  <2>1. \A p, q \in Nat : p <= q => ((p % 256) + (q - p)) % 256 = q % 256
    OBVIOUS
  <2> DEFINE q == o.id
  <2>2. q \in Nat /\ prev <= q
    BY <1>0
  <2> HIDE DEF q
  <2>3. ((prev % 256) + (q - prev)) % 256 = q % 256
    BY <2>1, <2>2
  <2> QED  BY <2>3, Zenon DEF delta, q
<1>12. ParseOptionValue(o.id % 256, b) = IF o \in Recognized THEN <<o>> ELSE <<>>
  BY <1>2, ValueRoundTrip
<1>13. ~(Len(r3) < length)
  BY <1>2, <1>5
<1> DEFINE p == prev % 256
           id == o.id % 256
<1>14. z[1] = first /\ first # 255 /\ 15 \notin {first \div 16, first % 16} /\ z # <<>>
  BY <1>3, <1>8, Zenon
<1>15. /\ ParseExt(first \div 16, Rest(z, 1)) = [ok |-> TRUE, n |-> delta, rest |-> r2]
       /\ ParseExt(first % 16, r2) = [ok |-> TRUE, n |-> length, rest |-> r3]
  BY <1>3, <1>8, <1>9, <1>10
<1>16. Round(Running(z, p, opts))
         = Running(Rest(r3, length), id, opts \o ParseOptionValue(id, SubSeq(r3, 1, length)))
  <2>1. id = (p + delta) % 256
    BY <1>11, Zenon
  <2> HIDE DEF p, id
  <2> QED  BY <1>13, <1>14, <1>15, <2>1, RoundForm
<1>17. Round(Running(z, p, opts)) = Running(tail, id, opts \o (IF o \in Recognized THEN <<o>> ELSE <<>>))
  <2>1. ParseOptionValue(id, b) = IF o \in Recognized THEN <<o>> ELSE <<>>
    BY <1>12
  <2> HIDE DEF p, id
  <2> QED  BY <1>5, <1>16, <2>1, Zenon
<1> QED  BY <1>17, Zenon DEF z, Before, Behind

\* The loop behind the bytes of opts, with rest before it.
Reading(opts, rest) == Running(rest, LastId(opts) % 256, Kept(opts))

LEMMA KeptFacts ==
  /\ Kept(<<>>) = <<>>
  /\ \A s \in Seq(Option) :
       /\ Kept(s) = Only(s, Recognized) /\ Kept(s) \in Seq(Option)
       /\ \A e \in Option : Kept(Append(s, e)) = Kept(s) \o (IF e \in Recognized THEN <<e>> ELSE <<>>)
<1>1. \A s : Kept(s) = Only(s, Recognized)
  BY Zenon DEF Kept, Recognized
<1>2. Kept(<<>>) = <<>>
  BY <1>1, OnlyEmpty
<1>3. ASSUME NEW s \in Seq(Option) PROVE Kept(s) \in Seq(Option)
  BY <1>1, OnlyType
<1>4. ASSUME NEW s \in Seq(Option), NEW e \in Option
      PROVE  Kept(Append(s, e)) = Kept(s) \o (IF e \in Recognized THEN <<e>> ELSE <<>>)
  <2>1. Only(Append(s, e), Recognized) = IF e \in Recognized THEN Append(Only(s, Recognized), e)
                                                             ELSE Only(s, Recognized)
    BY OnlyAppend
  <2> DEFINE k == Only(s, Recognized)
  <2>2. k \in Seq(Option)
    BY OnlyType
  <2> HIDE DEF k
  <2>3. Append(k, e) = k \o <<e>> /\ k \o <<>> = k
    BY <2>2
  <2>4. Only(Append(s, e), Recognized) = k \o (IF e \in Recognized THEN <<e>> ELSE <<>>)
    BY <2>1, <2>3, Zenon DEF k
  <2> QED  BY <1>1, <2>4, Zenon DEF k
<1> QED  BY <1>1, <1>2, <1>3, <1>4, Zenon

LEMMA PlainIs == Plain \subseteq Fitting /\ Plain \subseteq Option
BY UsedFits DEF Plain

LEMMA ChunksWithTail ==
  ASSUME NEW opts \in Seq(Plain), Ordered(opts), NEW tail \in Seq(Byte)
  PROVE  /\ Chunks(opts) \in Seq(Byte) /\ Chunks(opts) \o tail \in Seq(Byte)
         /\ Len(opts) \in 0 .. Len(Chunks(opts)) /\ Len(opts) \in 0 .. Len(Chunks(opts) \o tail)
         /\ tail # <<>> => Len(opts) + 1 \in 1 .. Len(Chunks(opts) \o tail)
         /\ Len(opts) \in Nat
<1>1. opts \in Seq(Fitting)
  BY PlainIs
<1> DEFINE c == Chunks(opts)
<1>2. c \in Seq(Byte) /\ Len(opts) <= Len(c)
  BY <1>1, ChunksFacts
<1> HIDE DEF c
<1>3. c \o tail \in Seq(Byte) /\ Len(c \o tail) = Len(c) + Len(tail) /\ Len(c) \in Nat /\ Len(tail) \in Nat
  BY <1>2, BytesConcat
<1>4. tail # <<>> => Len(tail) >= 1
  BY <1>3
<1>5. Len(opts) \in Nat
  OBVIOUS
<1>6. /\ Len(opts) \in 0 .. Len(c) /\ Len(opts) \in 0 .. Len(c \o tail)
      /\ tail # <<>> => Len(opts) + 1 \in 1 .. Len(c \o tail)
  <2> DEFINE n == Len(opts)
             i == Len(c)
             j == Len(tail)
             k == Len(c \o tail)
  <2>1. n \in Nat /\ i \in Nat /\ j \in Nat /\ k = i + j /\ n <= i /\ (tail # <<>> => j >= 1)
    BY <1>2, <1>3, <1>4, <1>5
  <2> HIDE DEF n, i, j, k
  <2>2. n \in 0 .. i /\ n \in 0 .. k /\ (tail # <<>> => n + 1 \in 1 .. k)
    BY <2>1
  <2> QED  BY <2>2 DEF n, i, j, k
<1> QED  BY <1>2, <1>3, <1>5, <1>6, Zenon DEF c

\* After as many rounds as there are options the reader is behind their bytes and
\* has kept what it recognizes.
LEMMA RoundsOfChunks ==
  ASSUME NEW opts \in Seq(Plain), Ordered(opts), NEW tail \in Seq(Byte)
  PROVE  Rounds(Chunks(opts) \o tail)[Len(opts)] = Reading(opts, tail)
<1> DEFINE Sound(s) == \A t \in Seq(Byte) : Rounds(Chunks(s) \o t)[Len(s)] = Reading(s, t)
           Good == {s \in Seq(Plain) : Ordered(s) => Sound(s)}
<1>1. <<>> \in Good
  <2>1. <<>> \in Seq(Plain) /\ Len(<<>>) = 0
    OBVIOUS
  <2>2. ASSUME NEW t \in Seq(Byte) PROVE Rounds(Chunks(<<>>) \o t)[Len(<<>>)] = Reading(<<>>, t)
    <3>1. Chunks(<<>>) \o t = t
      BY ChunksEmpty
    <3>2. Rounds(t)[0] = Running(t, 0, <<>>)
      BY RoundsForm DEF Start
    <3>3. LastId(<<>>) % 256 = 0
      <4>1. LastId(<<>>) = 0
        BY Zenon DEF LastId
      <4> QED  BY <4>1
    <3>4. Reading(<<>>, t) = Running(t, 0, <<>>)
      BY <3>3, KeptFacts, Zenon DEF Reading
    <3> QED  BY <2>1, <3>1, <3>2, <3>4, Zenon
  <2> QED  BY <2>1, <2>2
<1>2. ASSUME NEW s \in Good, NEW e \in Plain PROVE Append(s, e) \in Good
  <2>1. s \in Seq(Plain) /\ (Ordered(s) => Sound(s)) /\ Append(s, e) \in Seq(Plain)
    <3> HIDE DEF Sound
    <3> QED  BY AppendFacts
  <2>2. s \in Seq(Option) /\ e \in Option /\ e \in Fitting
    BY <2>1, PlainIs
  <2>3. ASSUME Ordered(Append(s, e)), NEW t \in Seq(Byte)
        PROVE  Rounds(Chunks(Append(s, e)) \o t)[Len(Append(s, e))] = Reading(Append(s, e), t)
    <3> DEFINE p == LastId(s)
               x == Chunk(e, p)
               c == Chunks(s)
    <3>1. Ordered(s) /\ p <= e.id /\ p \in Nat /\ LastId(Append(s, e)) = e.id
      BY <2>2, <2>3, OrderedAppend, LastIdFacts, NumbersAreInt
    <3>2. Chunks(Append(s, e)) = c \o x
      BY <2>2, ChunksAppend
    <3> HIDE DEF p
    <3>3. x \in Seq(Byte) /\ Len(x) >= 1
      BY <2>2, <3>1, ChunkFacts
    <3> HIDE DEF x
    <3> DEFINE y == x \o t
    <3>4. y \in Seq(Byte) /\ Len(y) >= 1
      <4>1. x \o t \in Seq(Byte) /\ Len(x \o t) = Len(x) + Len(t) /\ Len(x) \in Nat /\ Len(t) \in Nat
        BY <3>3, BytesConcat
      <4> QED  BY <3>3, <4>1
    <3> HIDE DEF y
    <3>5. y # <<>>
      BY <3>4
    <3>6. /\ c \in Seq(Byte) /\ c \o y \in Seq(Byte) /\ Len(s) \in Nat
          /\ Len(s) + 1 \in 1 .. Len(c \o y)
      BY <2>1, <3>1, <3>4, <3>5, ChunksWithTail
    <3>7. Rounds(c \o y)[Len(s)] = Reading(s, y)
      BY <2>1, <3>1, <3>4
    <3> HIDE DEF c
    <3>8. (c \o x) \o t = c \o y
      <4>1. c \in Seq(Byte) /\ x \in Seq(Byte)
        BY <3>3, <3>6, Zenon
      <4>2. (c \o x) \o t = c \o (x \o t)
        BY <4>1, BytesTwice, Zenon
      <4> QED  BY <4>2 DEF y
    <3> DEFINE b == c \o y
    <3> HIDE DEF b
    <3>9. Rounds(b)[Len(s) + 1] = Round(Reading(s, y))
      <4>1. b \in Seq(Byte) /\ Len(s) + 1 \in 1 .. Len(b) /\ (Len(s) + 1) - 1 = Len(s)
        BY <3>6 DEF b
      <4>2. Rounds(b)[Len(s) + 1] = Round(Rounds(b)[(Len(s) + 1) - 1])
        BY <4>1, RoundsForm
      <4> QED  BY <3>7, <4>1, <4>2, Zenon DEF b
    <3> DEFINE here == Running(x \o t, p % 256, Kept(s))
               next == Running(t, e.id % 256, Kept(s) \o (IF e \in Recognized THEN <<e>> ELSE <<>>))
    <3>10. Round(here) = next
      <4> DEFINE k == Kept(s)
      <4> HIDE DEF k
      <4>1. p \in Nat /\ p <= e.id
        BY <3>1
      <4>2. Round(Running(Chunk(e, p) \o t, p % 256, k))
              = Running(t, e.id % 256, k \o (IF e \in Recognized THEN <<e>> ELSE <<>>))
        <5>1. k \in Seq(Option)
          BY <2>2, KeptFacts DEF k
        <5>2. Round(Before(e, p, t, k)) = Behind(e, t, k)
          BY <4>1, <5>1, OneRound
        <5> QED  BY <5>2, Zenon DEF Before, Behind
      <4> QED  BY <4>2 DEF x, k
    <3>11. Reading(s, y) = here
      BY Zenon DEF Reading, p, y
    <3>12. Reading(Append(s, e), t) = next
      <4>1. Kept(Append(s, e)) = Kept(s) \o (IF e \in Recognized THEN <<e>> ELSE <<>>)
        BY <2>2, KeptFacts, Zenon
      <4> QED  BY <3>1, <4>1, Zenon DEF Reading
    <3>13. Len(Append(s, e)) = Len(s) + 1
      BY <2>2, AppendFacts
    <3> HIDE DEF here, next
    <3>14. Round(Reading(s, y)) = Reading(Append(s, e), t)
      BY <3>10, <3>11, <3>12, Zenon
    <3>15. Chunks(Append(s, e)) \o t = b
      BY <3>2, <3>8, Zenon DEF b
    <3> QED  BY <3>9, <3>13, <3>14, <3>15, Zenon
  <2> QED  BY <2>1, <2>3
<1>3. Good = Seq(Plain)
  <2>1. Good \in SUBSET Seq(Plain)
    OBVIOUS
  <2> HIDE DEF Good
  <2> QED  BY <1>1, <1>2, <2>1, AppendInduction
<1> HIDE DEF Sound
<1>4. Sound(opts)
  BY <1>3
<1> QED  BY <1>4 DEF Sound

\* The end of a message: options, a marker, and the payload or what is left of it.
LEMMA ParseToEnd ==
  ASSUME NEW opts \in Seq(Plain), Ordered(opts)
  PROVE  /\ ParseOptions(Chunks(opts)).ok /\ ParseOptions(Chunks(opts)).rest = <<>>
         /\ ParseOptions(Chunks(opts)).opts = Kept(opts)
         /\ \A q \in Seq(Byte) :
              LET s == ParseOptions(Chunks(opts) \o (<<255>> \o q))
              IN  s.ok /\ s.rest = q /\ s.opts = Kept(opts)
<1> DEFINE c == Chunks(opts)
           n == Len(opts)
<1>1. /\ ParseOptions(c).ok /\ ParseOptions(c).rest = <<>> /\ ParseOptions(c).opts = Kept(opts)
  <2> DEFINE e == <<>>
  <2>1. e \in Seq(Byte)
    OBVIOUS
  <2> HIDE DEF e
  <2>2. c \in Seq(Byte) /\ n \in 0 .. Len(c)
    BY <2>1, ChunksWithTail
  <2>3. Rounds(c \o e)[n] = Reading(opts, e)
    BY <2>1, RoundsOfChunks
  <2> DEFINE s == Rounds(c)[n]
  <2>4. s = Running(e, LastId(opts) % 256, Kept(opts))
    <3>1. c \o e = c
      <4> HIDE DEF c
      <4> QED  BY <2>2, BytesConcat DEF e
    <3> QED  BY <2>3, <3>1, Zenon DEF Reading
  <2> HIDE DEF s
  <2>5. s.rest = e /\ s.opts = Kept(opts) /\ s.ok /\ (Ended(s) <=> e = <<>>)
    <3> DEFINE p == LastId(opts) % 256
               k == Kept(opts)
    <3> HIDE DEF p, k
    <3>1. s = Running(e, p, k)
      BY <2>4 DEF p, k
    <3>2. s.rest = e /\ s.opts = k /\ s.ok /\ (Ended(s) <=> e = <<>>)
      BY <3>1, RunningFields
    <3> QED  BY <3>2 DEF k
  <2>6. ParseOptions(c) = s
    <3>1. Ended(Rounds(c)[n])
      BY <2>5 DEF e, s
    <3> HIDE DEF c, n
    <3> QED  BY <2>2, <3>1, ParseAt DEF s
  <2> QED  BY <2>5, <2>6, Zenon DEF e
<1>2. ASSUME NEW q \in Seq(Byte)
      PROVE  LET s == ParseOptions(c \o (<<255>> \o q)) IN s.ok /\ s.rest = q /\ s.opts = Kept(opts)
  <2> DEFINE t == <<255>> \o q
  <2>1. t \in Seq(Byte) /\ t[1] = 255 /\ Rest(t, 1) = q /\ t # <<>>
    <3>1. 255 \in Byte
      BY DEF Byte
    <3> QED  BY <3>1, TakeOne
  <2> HIDE DEF t
  <2> DEFINE b == c \o t
  <2>2. b \in Seq(Byte) /\ n + 1 \in 1 .. Len(b) /\ n \in Nat
    BY <2>1, ChunksWithTail
  <2>3. Rounds(b)[n] = Reading(opts, t)
    BY <2>1, RoundsOfChunks
  <2> HIDE DEF b, c, n
  <2> DEFINE r == Reading(opts, t)
             s == [r EXCEPT !.loop = FALSE, !.rest = Rest(@, 1)]
  <2>4. r.rest = t /\ r.opts = Kept(opts) /\ r.ok /\ ~Ended(r)
    <3> DEFINE p == LastId(opts) % 256
               k == Kept(opts)
    <3>1. r = Running(t, p, k)
      BY DEF Reading
    <3> HIDE DEF p, k, r
    <3>2. r.rest = t /\ r.opts = k /\ r.ok /\ (Ended(r) <=> t = <<>>)
      BY <3>1, RunningFields
    <3> QED  BY <2>1, <3>2 DEF k
  <2>5. s.rest = q /\ s.opts = Kept(opts) /\ s.ok /\ ~s.loop
    <3> DEFINE p == LastId(opts) % 256
               k == Kept(opts)
    <3>1. r = [loop |-> TRUE, ok |-> TRUE, rest |-> t, prev |-> p, opts |-> k]
      BY DEF Reading, Running
    <3> HIDE DEF p, k, r
    <3>2. s.rest = Rest(t, 1) /\ s.opts = k /\ s.ok /\ ~s.loop
      BY <3>1
    <3> QED  BY <2>1, <3>2 DEF k
  <2>6. Round(r) = s
    <3> HIDE DEF r
    <3> QED  BY <2>1, <2>4, Zenon DEF Round
  <2> HIDE DEF s
  <2>7. Rounds(b)[n + 1] = s
    <3>1. (n + 1) - 1 = n
      BY <2>2
    <3>2. Rounds(b)[n + 1] = Round(Rounds(b)[(n + 1) - 1])
      BY <2>2, RoundsForm
    <3> QED  BY <2>3, <2>6, <3>1, <3>2, Zenon
  <2>8. ParseOptions(b) = s
    <3>1. n + 1 \in 0 .. Len(b) /\ Ended(s)
      BY <2>2, <2>5 DEF Ended
    <3>2. Ended(Rounds(b)[n + 1])
      BY <2>7, <3>1, Zenon
    <3> QED  BY <2>2, <2>7, <3>1, <3>2, ParseAt
  <2> QED  BY <2>5, <2>8, Zenon DEF b, t
<1> QED  BY <1>1, <1>2

-----------------------------------------------------------------------------
(* A datagram cut short *)

LEMMA PrefixFacts ==
  ASSUME NEW a \in Seq(Byte), NEW j \in 0 .. Len(a)
  PROVE  /\ SubSeq(a, 1, j) \in Seq(Byte) /\ Len(SubSeq(a, 1, j)) = j /\ j \in Nat
         /\ j = Len(a) => SubSeq(a, 1, j) = a
OBVIOUS

LEMMA PrefixOfConcat ==
  ASSUME NEW a \in Seq(Byte), NEW b \in Seq(Byte), NEW j \in 0 .. Len(a \o b)
  PROVE  /\ j <= Len(a) => SubSeq(a \o b, 1, j) = SubSeq(a, 1, j)
         /\ Len(a) <= j => /\ SubSeq(a \o b, 1, j) = a \o SubSeq(b, 1, j - Len(a))
                           /\ j - Len(a) \in 0 .. Len(b)
<1>1. /\ a \o b \in Seq(Byte) /\ Len(a \o b) = Len(a) + Len(b) /\ Len(a) \in Nat /\ Len(b) \in Nat
      /\ j \in Nat /\ j <= Len(a) + Len(b)
  BY BytesConcat
<1>2. ASSUME j <= Len(a) PROVE SubSeq(a \o b, 1, j) = SubSeq(a, 1, j)
  BY <1>2
<1>3. ASSUME Len(a) <= j
      PROVE  /\ SubSeq(a \o b, 1, j) = a \o SubSeq(b, 1, j - Len(a))
             /\ j - Len(a) \in 0 .. Len(b)
  <2>1. j - Len(a) \in 0 .. Len(b)
    BY <1>1, <1>3
  <2> DEFINE c == SubSeq(b, 1, j - Len(a))
             s == SubSeq(a \o b, 1, j)
  <2>2. /\ c \in Seq(Byte) /\ Len(c) = j - Len(a)
        /\ \A i \in 1 .. j - Len(a) : c[i] = b[i]
    BY <2>1
  <2>3. s \in Seq(Byte) /\ Len(s) = j /\ \A i \in 1 .. j : s[i] = (a \o b)[i]
    BY <1>1
  <2>4. a \o c \in Seq(Byte) /\ Len(a \o c) = j
    <3> HIDE DEF c
    <3>1. a \o c \in Seq(Byte) /\ Len(a \o c) = Len(a) + Len(c)
      BY <2>2, BytesConcat
    <3> QED  BY <1>1, <2>2, <3>1
  <2>5. ASSUME NEW i \in 1 .. j PROVE s[i] = (a \o c)[i]
    <3> HIDE DEF c
    <3>1. CASE i <= Len(a)
      <4>1. (a \o b)[i] = a[i] /\ (a \o c)[i] = a[i]
        BY <1>1, <2>2, <3>1
      <4> QED  BY <2>3, <4>1, Zenon
    <3>2. CASE ~(i <= Len(a))
      <4>1. i - Len(a) \in 1 .. j - Len(a)
        BY <1>1, <3>2
      <4>2. (a \o b)[i] = b[i - Len(a)] /\ (a \o c)[i] = c[i - Len(a)]
        BY <1>1, <2>2, <3>2
      <4> QED  BY <2>2, <2>3, <4>1, <4>2, Zenon
    <3> QED  BY <3>1, <3>2
  <2> HIDE DEF c, s
  <2>6. s = a \o c
    <3> DEFINE t == a \o c
    <3> HIDE DEF t
    <3>1. t \in Seq(Byte) /\ Len(t) = Len(s) /\ s \in Seq(Byte) /\ \A i \in 1 .. Len(s) : s[i] = t[i]
      BY <2>3, <2>4, <2>5 DEF t
    <3>2. s = t
      BY <3>1
    <3> QED  BY <3>2 DEF t
  <2> QED  BY <2>1, <2>6 DEF c, s
<1> QED  BY <1>2, <1>3

LEMMA ExtCut ==
  ASSUME NEW n \in Nat, NEW w \in Seq(Byte), Len(w) < Len(ExtendOpt(n).ext)
  PROVE  ~ParseExt(ExtendOpt(n).nibble, w).ok
<1>0. Len(w) \in Nat /\ ~Truncated.ok
  BY DEF Truncated
<1>1. CASE n < 13
  <2>1. ExtendOpt(n).ext = <<>>
    BY <1>1, SMT DEF ExtendOpt
  <2> QED  BY <1>0, <2>1
<1>2. CASE n >= 13 /\ n < 269
  <2>1. ExtendOpt(n) = [nibble |-> 13, ext |-> <<n - 13>>]
    BY <1>2, SMT DEF ExtendOpt
  <2>2. ExtendOpt(n).nibble = 13 /\ Len(ExtendOpt(n).ext) = 1
    BY <2>1
  <2>3. ParseExt(13, w) = IF Len(w) < 1 THEN Truncated
                          ELSE [ok |-> TRUE, n |-> w[1] + 13, rest |-> Rest(w, 1)]
    BY SMT DEF ParseExt
  <2> QED  BY <1>0, <2>2, <2>3, Zenon
<1>3. CASE n >= 269
  <2>1. ExtendOpt(n) = [nibble |-> 14, ext |-> <<((n - 269) \div 256) % 256, (n - 269) % 256>>]
    BY <1>3, SMT DEF ExtendOpt
  <2>2. ExtendOpt(n).nibble = 14 /\ Len(ExtendOpt(n).ext) = 2
    BY <2>1
  <2>3. ParseExt(14, w) = IF Len(w) < 2 THEN Truncated
                          ELSE [ok |-> TRUE, n |-> 256 * w[1] + w[2] + 269, rest |-> Rest(w, 2)]
    BY SMT DEF ParseExt
  <2> QED  BY <1>0, <2>2, <2>3, Zenon
<1> QED  BY <1>1, <1>2, <1>3

\* What ParseExt makes of a whole extension, for bytes.
LEMMA ExtWhole ==
  ASSUME NEW n \in Nat, n < Word + 269, NEW tail \in Seq(Byte)
  PROVE  LET e == ParseExt(ExtendOpt(n).nibble, ExtendOpt(n).ext \o tail)
         IN  e.ok /\ e.n = n /\ e.rest = tail
<1>1. tail \in Seq(Nat) /\ n < (256 * 256) + 269
  BY BytesAreNumbers DEF Word
<1>2. ParseExt(ExtendOpt(n).nibble, ExtendOpt(n).ext \o tail) = [ok |-> TRUE, n |-> n, rest |-> tail]
  BY <1>1, ExtRoundTrip
<1> DEFINE e == ParseExt(ExtendOpt(n).nibble, ExtendOpt(n).ext \o tail)
<1> HIDE DEF e
<1>3. e = [ok |-> TRUE, n |-> n, rest |-> tail]
  BY <1>2 DEF e
<1>4. e.ok /\ e.n = n /\ e.rest = tail
  BY <1>3
<1> QED  BY <1>4, Zenon DEF e

\* A round that finds only the beginning of an option fails.
LEMMA CutChunk ==
  ASSUME NEW o \in Plain, NEW prev \in Nat, prev <= o.id, NEW j \in 1 .. Len(Chunk(o, prev)) - 1,
         NEW p, NEW opts, NEW r, r = Running(SubSeq(Chunk(o, prev), 1, j), p, opts)
  PROVE  ~Round(r).ok /\ ~Round(r).loop
<1>0. o \in Fitting
  BY PlainIs
<1>1. PICK d, l, b : Parts(o, prev, d, l, b)
  BY <1>0, ChunkParts
<1> DEFINE delta == o.id - prev
           length == Len(b)
           first == 16 * d.nibble + l.nibble
           x == d.ext
           y == l.ext
           z == SubSeq(Chunk(o, prev), 1, j)
<1>2. /\ d = ExtendOpt(delta) /\ l = ExtendOpt(length)
      /\ d.nibble \in 0 .. 14 /\ l.nibble \in 0 .. 14
      /\ x \in Seq(Byte) /\ y \in Seq(Byte) /\ b \in Seq(Byte) /\ first \in Byte
      /\ delta \in Nat /\ delta < Word + 269 /\ length \in Nat /\ length < Word + 269
      /\ Chunk(o, prev) = <<first>> \o (x \o (y \o b))
  BY <1>1, Zenon DEF Parts
<1>3. first \div 16 = d.nibble /\ first % 16 = l.nibble /\ first # 255
  <2> DEFINE s == d.nibble
             q == l.nibble
  <2>1. s \in 0 .. 14 /\ q \in 0 .. 14
    BY <1>2
  <2> HIDE DEF s, q
  <2>2. (16 * s + q) \div 16 = s /\ (16 * s + q) % 16 = q /\ 16 * s + q # 255
    BY <2>1, NibblesApart
  <2> QED  BY <2>2, Zenon DEF s, q
<1> DEFINE one == <<first>>
<1>4. one \in Seq(Byte) /\ Len(one) = 1
  <2>1. first \in Byte
    BY <1>2, Zenon
  <2> HIDE DEF first
  <2> QED  BY <2>1
<1> HIDE DEF first, delta, length, x, y, z, one
<1> DEFINE yb == y \o b
<1>5. yb \in Seq(Byte) /\ Len(yb) = Len(y) + Len(b) /\ Len(y) \in Nat /\ Len(b) \in Nat
  BY <1>2, BytesConcat
<1> HIDE DEF yb
<1> DEFINE xyb == x \o yb
<1>6. xyb \in Seq(Byte) /\ Len(xyb) = Len(x) + Len(yb) /\ Len(x) \in Nat
  <2>1. x \in Seq(Byte)
    BY <1>2
  <2> QED  BY <1>5, <2>1, TakeApart
<1> HIDE DEF xyb
<1>7. Chunk(o, prev) = one \o xyb /\ Len(one \o xyb) = 1 + Len(xyb)
  <2>1. Chunk(o, prev) = one \o xyb
    BY <1>2, Zenon DEF one, xyb, yb
  <2>2. Len(one \o xyb) = Len(one) + Len(xyb)
    BY <1>4, <1>6, BytesConcat
  <2> QED  BY <1>4, <2>1, <2>2
<1>8. j \in Nat /\ j >= 1 /\ j < 1 + Len(xyb) /\ j - 1 \in 0 .. Len(xyb) /\ j \in 0 .. Len(one \o xyb)
  <2>1. j \in 1 .. Len(one \o xyb) - 1
    BY <1>7, Zenon
  <2>2. Len(xyb) \in Nat
    BY <1>6
  <2> QED  BY <1>7, <2>1, <2>2
<1> DEFINE z1 == SubSeq(xyb, 1, j - 1)
<1>9. z = one \o z1 /\ z1 \in Seq(Byte) /\ Len(z1) = j - 1
  <2>1. SubSeq(one \o xyb, 1, j) = one \o SubSeq(xyb, 1, j - 1)
    BY <1>4, <1>6, <1>8, PrefixOfConcat
  <2>2. z1 \in Seq(Byte) /\ Len(z1) = j - 1
    BY <1>6, <1>8, PrefixFacts
  <2> QED  BY <1>7, <2>1, <2>2, Zenon DEF z
<1> HIDE DEF z1
<1>10. z[1] = first /\ Rest(z, 1) = z1 /\ z # <<>>
  BY <1>2, <1>9, TakeOne DEF one
<1> DEFINE dx == ParseExt(d.nibble, z1)
           lx == ParseExt(l.nibble, dx.rest)
<1>11. ~dx.ok \/ ~lx.ok \/ Len(lx.rest) < lx.n
  <2>1. CASE j - 1 < Len(x)
    <3>1. ~ParseExt(ExtendOpt(delta).nibble, z1).ok
      BY <1>2, <1>9, <2>1, ExtCut DEF x
    <3> QED  BY <1>2, <3>1
  <2>2. CASE ~(j - 1 < Len(x))
    <3> DEFINE z2 == SubSeq(yb, 1, (j - 1) - Len(x))
    <3>0. Len(x) <= j - 1
      BY <1>6, <1>8, <2>2
    <3>1. z1 = x \o z2 /\ (j - 1) - Len(x) \in 0 .. Len(yb)
      <4> DEFINE i == j - 1
      <4>1. i \in 0 .. Len(x \o yb) /\ Len(x) <= i
        BY <1>8, <3>0 DEF xyb
      <4> HIDE DEF i
      <4>2. SubSeq(x \o yb, 1, i) = x \o SubSeq(yb, 1, i - Len(x)) /\ i - Len(x) \in 0 .. Len(yb)
        BY <1>2, <1>5, <4>1, PrefixOfConcat
      <4> QED  BY <4>2 DEF i, z1, xyb
    <3>2. z2 \in Seq(Byte) /\ Len(z2) = (j - 1) - Len(x)
      BY <1>5, <3>1, PrefixFacts
    <3> HIDE DEF z2
    <3>3. dx.ok /\ dx.rest = z2
      <4>1. LET e == ParseExt(ExtendOpt(delta).nibble, ExtendOpt(delta).ext \o z2)
            IN  e.ok /\ e.n = delta /\ e.rest = z2
        BY <1>2, <3>2, ExtWhole
      <4> QED  BY <1>2, <3>1, <4>1, Zenon DEF x
    <3>4. CASE Len(z2) < Len(y)
      <4>1. ~ParseExt(ExtendOpt(length).nibble, z2).ok
        BY <1>2, <3>2, <3>4, ExtCut DEF y
      <4> QED  BY <1>2, <3>3, <4>1, Zenon
    <3>5. CASE ~(Len(z2) < Len(y))
      <4> DEFINE m == (j - 1) - Len(x)
                 z3 == SubSeq(b, 1, m - Len(y))
      <4>1. m \in 0 .. Len(yb) /\ Len(z2) = m
        BY <3>1, <3>2
      <4>2. m < Len(y) + Len(b) /\ Len(y) <= m
        <5>1. m < Len(yb)
          BY <1>5, <1>6, <1>8
        <5>2. Len(y) <= m
          BY <1>5, <3>5, <4>1
        <5> QED  BY <1>5, <5>1, <5>2, Zenon
      <4>3. z2 = SubSeq(yb, 1, m)
        BY DEF z2
      <4> HIDE DEF m
      <4>4. z2 = y \o z3 /\ m - Len(y) \in 0 .. Len(b)
        <5>1. SubSeq(y \o b, 1, m) = y \o SubSeq(b, 1, m - Len(y)) /\ m - Len(y) \in 0 .. Len(b)
          BY <1>2, <4>1, <4>2, PrefixOfConcat DEF yb
        <5> QED  BY <4>3, <5>1 DEF yb
      <4>5. z3 \in Seq(Byte) /\ Len(z3) = m - Len(y)
        BY <1>2, <4>4, PrefixFacts
      <4> HIDE DEF z3
      <4>6. lx.n = length /\ lx.rest = z3
        <5>1. LET e == ParseExt(ExtendOpt(length).nibble, ExtendOpt(length).ext \o z3)
              IN  e.ok /\ e.n = length /\ e.rest = z3
          BY <1>2, <4>5, ExtWhole
        <5> QED  BY <1>2, <3>3, <4>4, <5>1, Zenon DEF y
      <4>7. Len(z3) < length
        <5>1. m \in Nat /\ m < Len(y) + Len(b)
          BY <4>1, <4>2
        <5> QED  BY <1>5, <4>5, <5>1 DEF length
      <4> QED  BY <4>6, <4>7
    <3> QED  BY <3>4, <3>5
  <2> QED  BY <2>1, <2>2
<1> HIDE DEF dx, lx
<1>12. r.rest = z /\ ~Ended(r)
  <2>1. r = Running(z, p, opts)
    BY DEF z
  <2>2. r.rest = z /\ (Ended(r) <=> z = <<>>)
    BY <2>1, RunningFields
  <2> QED  BY <1>10, <2>2, Zenon
<1>13. Round(r) = [r EXCEPT !.loop = FALSE, !.ok = FALSE]
  <2>1. ParseExt(r.rest[1] \div 16, Rest(r.rest, 1)) = dx
    BY <1>3, <1>10, <1>12, Zenon DEF dx
  <2>2. ParseExt(r.rest[1] % 16, dx.rest) = lx
    BY <1>3, <1>10, <1>12, Zenon DEF lx
  <2> QED  BY <1>3, <1>10, <1>11, <1>12, <2>1, <2>2, Zenon DEF Round
<1>14. r = [loop |-> TRUE, ok |-> TRUE, rest |-> z, prev |-> p, opts |-> opts]
  BY DEF Running, z
<1>15. /\ [r EXCEPT !.loop = FALSE, !.ok = FALSE].ok = FALSE
       /\ [r EXCEPT !.loop = FALSE, !.ok = FALSE].loop = FALSE
  BY <1>14
<1> QED  BY <1>13, <1>15, Zenon

LEMMA PrefixLonger ==
  ASSUME NEW s \in Seq(Option), NEW t \in Seq(Option), NEW u \in Seq(Option), IsPrefix(s, t)
  PROVE  IsPrefix(s, t \o u) /\ IsPrefix(t, t)
<1>1. Len(s) \in Nat /\ Len(t) \in Nat /\ Len(s) <= Len(t) /\ SubSeq(s, 1, Len(s)) = SubSeq(t, 1, Len(s))
  BY DEF IsPrefix
<1>2. t \o u \in Seq(Option) /\ Len(t \o u) = Len(t) + Len(u) /\ Len(u) \in Nat
  BY BytesConcat
<1>3. Len(s) <= Len(t \o u)
  BY <1>1, <1>2
<1>4. SubSeq(t \o u, 1, Len(s)) = SubSeq(t, 1, Len(s))
  BY <1>1
<1> QED  BY <1>1, <1>3, <1>4 DEF IsPrefix

\* Of a list of options that ends too early the reader keeps what it keeps of the
\* options in front, or refuses it.
LEMMA ParseCut ==
  ASSUME NEW opts \in Seq(Plain), Ordered(opts), NEW n \in 0 .. Len(Chunks(opts)),
         NEW s, s = ParseOptions(SubSeq(Chunks(opts), 1, n)), s.ok
  PROVE  s.rest = <<>> /\ IsPrefix(s.opts, Kept(opts))
<1> DEFINE Fine(t, k) == t.ok => t.rest = <<>> /\ t.opts \in Seq(Option) /\ IsPrefix(t.opts, k)
           Sound(o) == \A m \in 0 .. Len(Chunks(o)) : Fine(ParseOptions(SubSeq(Chunks(o), 1, m)), Kept(o))
           Good == {o \in Seq(Plain) : Ordered(o) => Sound(o)}
<1>w. ASSUME NEW o \in Seq(Plain), Ordered(o)
      PROVE  Fine(ParseOptions(Chunks(o)), Kept(o))
  <2>1. ParseOptions(Chunks(o)).rest = <<>> /\ ParseOptions(Chunks(o)).opts = Kept(o)
    BY <1>w, ParseToEnd
  <2>2. Kept(o) \in Seq(Option)
    BY PlainIs, KeptFacts
  <2>3. IsPrefix(Kept(o), Kept(o))
    <3> DEFINE k == Kept(o)
    <3> HIDE DEF k
    <3>1. k \in Seq(Option)
      BY <2>2 DEF k
    <3>2. IsPrefix(k, k)
      BY <3>1 DEF IsPrefix
    <3> QED  BY <3>2 DEF k
  <2> QED  BY <2>1, <2>2, <2>3, Zenon
<1> HIDE DEF Fine
<1>1. <<>> \in Good
  <2>1. <<>> \in Seq(Plain) /\ Ordered(<<>>)
    BY DEF Ordered
  <2>2. ASSUME NEW m \in 0 .. Len(Chunks(<<>>))
        PROVE  Fine(ParseOptions(SubSeq(Chunks(<<>>), 1, m)), Kept(<<>>))
    <3> DEFINE e == <<>>
    <3>0. e \in Seq(Byte) /\ Len(e) = 0 /\ Chunks(<<>>) = e
      BY ChunksEmpty
    <3> HIDE DEF e
    <3>1. SubSeq(Chunks(<<>>), 1, m) = Chunks(<<>>)
      <4>1. m \in 0 .. Len(e)
        BY <3>0, Zenon
      <4>2. SubSeq(e, 1, m) = e
        BY <3>0, <4>1
      <4> QED  BY <3>0, <4>2, Zenon
    <3> QED  BY <1>w, <2>1, <3>1, Zenon
  <2> QED  BY <2>1, <2>2
<1>2. ASSUME NEW o \in Good, NEW e \in Plain PROVE Append(o, e) \in Good
  <2>1. o \in Seq(Plain) /\ (Ordered(o) => Sound(o)) /\ Append(o, e) \in Seq(Plain)
    <3> HIDE DEF Sound
    <3> QED  BY AppendFacts
  <2>2. o \in Seq(Option) /\ e \in Option /\ e \in Fitting
    BY <2>1, PlainIs
  <2>3. ASSUME Ordered(Append(o, e)), NEW m \in 0 .. Len(Chunks(Append(o, e)))
        PROVE  Fine(ParseOptions(SubSeq(Chunks(Append(o, e)), 1, m)), Kept(Append(o, e)))
    <3> DEFINE p == LastId(o)
               x == Chunk(e, p)
               c == Chunks(o)
               k == Kept(o)
               more == IF e \in Recognized THEN <<e>> ELSE <<>>
    <3>1. Ordered(o) /\ p <= e.id /\ p \in Nat
      BY <2>2, <2>3, OrderedAppend, LastIdFacts, NumbersAreInt
    <3>2. Chunks(Append(o, e)) = c \o x
      BY <2>2, ChunksAppend
    <3>3. Kept(Append(o, e)) = k \o more /\ k \in Seq(Option) /\ more \in Seq(Option)
      <4>1. Kept(Append(o, e)) = k \o more /\ k \in Seq(Option)
        BY <2>2, KeptFacts
      <4>2. more \in Seq(Option)
        BY <2>2
      <4> QED  BY <4>1, <4>2
    <3> HIDE DEF p, more
    <3>4. x \in Seq(Byte) /\ Len(x) >= 1
      BY <2>2, <3>1, ChunkFacts
    <3> HIDE DEF x
    <3>5. c \in Seq(Byte) /\ Len(o) \in Nat
      BY <2>1, <3>1, <3>4, ChunksWithTail
    <3>6. m \in 0 .. Len(c \o x) /\ Len(c \o x) = Len(c) + Len(x) /\ Len(c) \in Nat /\ Len(x) \in Nat
      <4> HIDE DEF c
      <4>1. Len(c \o x) = Len(c) + Len(x) /\ Len(c) \in Nat /\ Len(x) \in Nat
        BY <3>4, <3>5, BytesConcat
      <4> QED  BY <3>2, <4>1
    <3>7. CASE m <= Len(c)
      <4>1. SubSeq(c \o x, 1, m) = SubSeq(c, 1, m)
        <5> HIDE DEF c
        <5> QED  BY <3>4, <3>5, <3>6, <3>7, PrefixOfConcat
      <4> DEFINE t == ParseOptions(SubSeq(c, 1, m))
      <4>2. Fine(t, k)
        <5>1. m \in 0 .. Len(c)
          BY <3>6, <3>7
        <5> QED  BY <2>1, <3>1, <5>1
      <4> HIDE DEF t, k, c
      <4>3. Fine(t, k \o more)
        <5>1. ASSUME t.ok PROVE t.rest = <<>> /\ t.opts \in Seq(Option) /\ IsPrefix(t.opts, k)
          BY <4>2, <5>1 DEF Fine
        <5> DEFINE v == t.opts
        <5> HIDE DEF v
        <5>2. ASSUME t.ok PROVE IsPrefix(v, k \o more)
          <6>1. v \in Seq(Option) /\ IsPrefix(v, k)
            BY <5>1, <5>2 DEF v
          <6> QED  BY <3>3, <6>1, PrefixLonger
        <5> QED  BY <5>1, <5>2, Zenon DEF Fine, v
      <4> QED  BY <3>2, <3>3, <4>1, <4>3, Zenon DEF t, k, c
    <3>8. CASE m > Len(c) /\ m < Len(c \o x)
      <4> DEFINE i == m - Len(c)
                 z == SubSeq(x, 1, i)
      <4>1. i \in 1 .. Len(x) - 1 /\ i \in 0 .. Len(x)
        BY <3>6, <3>8
      <4>2. SubSeq(c \o x, 1, m) = c \o z
        <5> HIDE DEF c
        <5>1. Len(c) <= m
          BY <3>6, <3>8
        <5> QED  BY <3>4, <3>5, <3>6, <5>1, PrefixOfConcat
      <4> HIDE DEF i
      <4>3. z \in Seq(Byte) /\ Len(z) = i
        BY <3>4, <4>1, PrefixFacts
      <4> HIDE DEF z
      <4>4. z # <<>>
        BY <4>1, <4>3
      <4> DEFINE b == c \o z
                 r == Reading(o, z)
                 q == p % 256
      <4>5. b \in Seq(Byte) /\ Len(o) + 1 \in 1 .. Len(b) /\ (Len(o) + 1) - 1 = Len(o)
        <5>1. b \in Seq(Byte) /\ Len(o) + 1 \in 1 .. Len(b) /\ Len(o) \in Nat
          BY <2>1, <3>1, <4>3, <4>4, ChunksWithTail
        <5> QED  BY <5>1
      <4>6. Rounds(b)[Len(o)] = r
        BY <2>1, <3>1, <4>3, RoundsOfChunks
      <4> HIDE DEF b, q
      <4>7. ~Round(r).ok /\ ~Round(r).loop
        <5>1. r = Running(SubSeq(Chunk(e, p), 1, i), q, k)
          BY Zenon DEF Reading, z, q, p, x
        <5>2. i \in 1 .. Len(Chunk(e, p)) - 1
          BY <4>1 DEF x
        <5> HIDE DEF r, k
        <5> QED  BY <3>1, <5>1, <5>2, CutChunk
      <4> HIDE DEF r
      <4>8. Rounds(b)[Len(o) + 1] = Round(r)
        <5>1. Rounds(b)[Len(o) + 1] = Round(Rounds(b)[(Len(o) + 1) - 1])
          BY <4>5, RoundsForm
        <5> QED  BY <4>5, <4>6, <5>1, Zenon
      <4>9. ParseOptions(b) = Round(r)
        <5>1. Len(o) + 1 \in 0 .. Len(b)
          BY <4>5
        <5>2. Ended(Rounds(b)[Len(o) + 1])
          BY <4>7, <4>8, Zenon DEF Ended
        <5> QED  BY <4>5, <4>8, <5>1, <5>2, ParseAt
      <4> QED  BY <3>2, <4>2, <4>7, <4>9, Zenon DEF Fine, b
    <3>9. CASE m = Len(c \o x)
      <4> DEFINE a == Append(o, e)
      <4>1. SubSeq(c \o x, 1, m) = c \o x
        <5> DEFINE w == c \o x
        <5>1. w \in Seq(Byte) /\ m = Len(w)
          BY <3>4, <3>5, <3>9, BytesConcat
        <5> HIDE DEF w
        <5>2. SubSeq(w, 1, m) = w
          BY <5>1
        <5> QED  BY <5>2 DEF w
      <4>2. Fine(ParseOptions(Chunks(a)), Kept(a))
        BY <1>w, <2>1, <2>3, Zenon
      <4> QED  BY <3>2, <4>1, <4>2, Zenon
    <3> QED
      <4>1. m <= Len(c) \/ (m > Len(c) /\ m < Len(c \o x)) \/ m = Len(c \o x)
        BY <3>6
      <4> QED  BY <3>7, <3>8, <3>9, <4>1, Zenon
  <2> QED  BY <2>1, <2>3
<1>3. Good = Seq(Plain)
  <2>1. Good \in SUBSET Seq(Plain)
    OBVIOUS
  <2> HIDE DEF Good
  <2> QED  BY <1>1, <1>2, <2>1, AppendInduction
<1> HIDE DEF Sound
<1>4. Sound(opts)
  BY <1>3
<1>5. Fine(s, Kept(opts))
  BY <1>4, Zenon DEF Sound
<1> QED  BY <1>5, Zenon DEF Fine

-----------------------------------------------------------------------------
(* unmarshalBinary *)

LEMMA FirstByte ==
  ASSUME NEW t \in 0 .. 3, NEW n \in 0 .. 15
  PROVE  LET f == 64 + (16 * t) + (n % 16)
         IN  f % 16 = n /\ f \div 64 = 1 /\ (f \div 16) % 4 = t
OBVIOUS

LEMMA FixedBytes ==
  ASSUME NEW m \in Composed, Len(m.token) < 16
  PROVE  /\ Four(m)[1] % 16 = Len(m.token) /\ Four(m)[1] \div 64 = 1
         /\ (Four(m)[1] \div 16) % 4 = m.type /\ Four(m)[2] = m.code
         /\ 256 * Four(m)[3] + Four(m)[4] = m.mid
<1>1. m.type \in 0 .. 3 /\ m.mid \in Nat
  BY ComposedFields, FixedFacts
<1>2. Len(m.token) \in 0 .. 15
  <2> DEFINE n == Len(m.token)
  <2>1. n \in Nat /\ n < 16
    BY FixedFacts
  <2> HIDE DEF n
  <2>2. n \in 0 .. 15
    BY <2>1
  <2> QED  BY <2>2 DEF n
<1> DEFINE f == First(m)
           c == m.mid \div 256
           d == m.mid % 256
<1>3. f % 16 = Len(m.token) /\ f \div 64 = 1 /\ (f \div 16) % 4 = m.type
  <2> DEFINE t == m.type
             n == Len(m.token)
  <2>1. t \in 0 .. 3 /\ n \in 0 .. 15
    BY <1>1, <1>2
  <2>2. f = 64 + (16 * t) + (n % 16)
    BY DEF First
  <2> HIDE DEF t, n, f
  <2>3. LET g == 64 + (16 * t) + (n % 16)
        IN  g % 16 = n /\ g \div 64 = 1 /\ (g \div 16) % 4 = t
    BY <2>1, FirstByte
  <2> QED  BY <2>2, <2>3, Zenon DEF t, n
<1>4. 256 * c + d = m.mid
  <2>1. \A n \in Nat : 256 * (n \div 256) + (n % 256) = n
    OBVIOUS
  <2> QED  BY <1>1, <2>1, Zenon
<1> HIDE DEF f, c, d
<1>5. Four(m) = <<f, m.code, c, d>>
  BY Zenon DEF Four, f, c, d
<1>6. Four(m)[1] = f /\ Four(m)[2] = m.code /\ Four(m)[3] = c /\ Four(m)[4] = d
  BY <1>5
<1> QED  BY <1>3, <1>4, <1>6, Zenon

\* The three pieces of a sequence.
LEMMA ThreePieces ==
  ASSUME NEW a \in Seq(Byte), NEW b \in Seq(Byte), NEW c \in Seq(Byte)
  PROVE  SubSeq((a \o b) \o c, Len(a) + 1, Len(a) + Len(b)) = b
<1> DEFINE w == (a \o b) \o c
           s == SubSeq(w, Len(a) + 1, Len(a) + Len(b))
<1>1. /\ w \in Seq(Byte) /\ Len(w) = (Len(a) + Len(b)) + Len(c)
      /\ Len(a) \in Nat /\ Len(b) \in Nat /\ Len(c) \in Nat
  <2> DEFINE u == a \o b
  <2>1. u \in Seq(Byte) /\ Len(u) = Len(a) + Len(b) /\ Len(a) \in Nat /\ Len(b) \in Nat
    BY BytesConcat
  <2> HIDE DEF u
  <2>2. u \o c \in Seq(Byte) /\ Len(u \o c) = Len(u) + Len(c) /\ Len(c) \in Nat
    BY <2>1, BytesConcat
  <2> QED  BY <2>1, <2>2, Zenon DEF u
<1>2. ASSUME NEW i \in 1 .. Len(b) PROVE w[i + Len(a)] = b[i]
  BY <1>1
<1> HIDE DEF w
<1>3. /\ s \in Seq(Byte) /\ Len(s) = Len(b)
      /\ \A i \in 1 .. Len(b) : s[i] = w[i + Len(a)]
  BY <1>1
<1> HIDE DEF s
<1>4. s = b
  BY <1>2, <1>3
<1> QED  BY <1>4 DEF s, w

\* What is read behind the fixed part and the token.
LEMMA UnmarshalFixed ==
  ASSUME NEW m \in Composed, Len(m.token) < 16, NEW y \in Seq(Byte),
         NEW u, u = Unmarshal(Fixed(m) \o y), NEW s, s = ParseOptions(y)
  PROVE  /\ u.ok <=> Len(m.token) <= 8 /\ s.ok
         /\ u.ok => /\ u.type = m.type /\ u.code = m.code /\ u.mid = m.mid /\ u.token = m.token
                    /\ u.opts = s.opts /\ u.payload = s.rest
<1> DEFINE f == Four(m)
           t == m.token
           b == (f \o t) \o y
<1>1. f \in Seq(Byte) /\ Len(f) = 4 /\ Fixed(m) = f \o t /\ Fixed(m) \in Seq(Byte) /\ Len(Fixed(m)) = 4 + Len(t)
      /\ Len(t) \in Nat
  BY FixedFacts
<1>2. t \in Seq(Byte)
  BY ComposedFields
<1>3. f[1] % 16 = Len(t) /\ f[1] \div 64 = 1 /\ (f[1] \div 16) % 4 = m.type /\ f[2] = m.code
      /\ 256 * f[3] + f[4] = m.mid
  BY FixedBytes
<1>t. Len(t) < 16
  OBVIOUS
<1> HIDE DEF f, t
<1>4. SubSeq(b, 5, 4 + Len(t)) = t
  <2>1. SubSeq(b, Len(f) + 1, Len(f) + Len(t)) = t
    BY <1>1, <1>2, ThreePieces
  <2>2. Len(f) + 1 = 5 /\ Len(f) + Len(t) = 4 + Len(t)
    BY <1>1
  <2> QED  BY <2>1, <2>2, Zenon
<1>5. Rest(b, 4 + Len(t)) = y /\ Len(b) = (4 + Len(t)) + Len(y) /\ Len(y) \in Nat
  <2> DEFINE w == f \o t
  <2>1. w \in Seq(Byte) /\ Len(w) = 4 + Len(t)
    BY <1>1, Zenon
  <2> HIDE DEF w
  <2>2. Rest(w \o y, Len(w)) = y /\ Len(w \o y) = Len(w) + Len(y) /\ Len(y) \in Nat
    BY <2>1, TakeApart
  <2> QED  BY <2>1, <2>2, Zenon DEF w
<1>6. b[1] = f[1] /\ b[2] = f[2] /\ b[3] = f[3] /\ b[4] = f[4]
  <2>1. ASSUME NEW i \in 1 .. 4 PROVE b[i] = f[i]
    <3> DEFINE w == f \o t
    <3>1. w \in Seq(Byte) /\ Len(w) = 4 + Len(t)
      BY <1>1, Zenon
    <3>2. w[i] = f[i]
      BY <1>1, <1>2
    <3> HIDE DEF w
    <3>3. i \in 1 .. Len(w)
      BY <1>1, <3>1
    <3>4. (w \o y)[i] = w[i]
      BY <3>1, <3>3
    <3> QED  BY <3>2, <3>4, Zenon DEF w
  <2> HIDE DEF b
  <2>2. 1 \in 1 .. 4 /\ 2 \in 1 .. 4 /\ 3 \in 1 .. 4 /\ 4 \in 1 .. 4
    OBVIOUS
  <2> QED  BY <2>1, <2>2, Zenon
<1>7. u = Unmarshal(b)
  BY <1>1, Zenon
<1> HIDE DEF b
<1>8. ~(Len(b) < 4) /\ ~(Len(b) < 4 + Len(t))
  BY <1>1, <1>5
<1>9. b[1] % 16 = Len(t) /\ b[1] \div 64 = 1 /\ (b[1] \div 16) % 4 = m.type /\ b[2] = m.code
      /\ 256 * b[3] + b[4] = m.mid
  BY <1>3, <1>6, Zenon
<1> DEFINE v == [ok |-> TRUE, type |-> m.type, code |-> m.code, mid |-> m.mid, token |-> t,
                 opts |-> s.opts, payload |-> s.rest]
<1>10. u = IF Len(t) > 8 \/ ~s.ok THEN Failed ELSE v
  <2> DEFINE n == b[1] % 16
             q == ParseOptions(Rest(b, 4 + n))
  <2>1. u = IF Len(b) < 4 THEN Failed
            ELSE IF b[1] \div 64 # 1 \/ n > 8 \/ Len(b) < 4 + n \/ ~q.ok THEN Failed
            ELSE [ok |-> TRUE, type |-> (b[1] \div 16) % 4, code |-> b[2],
                  mid |-> 256 * b[3] + b[4], token |-> SubSeq(b, 5, 4 + n),
                  opts |-> q.opts, payload |-> q.rest]
    BY <1>7, Zenon DEF Unmarshal
  <2>2. n = Len(t)
    BY <1>9
  <2> HIDE DEF n
  <2>3. q = s
    BY <1>5, <2>2, Zenon DEF b
  <2> HIDE DEF q
  <2>4. SubSeq(b, 5, 4 + n) = t
    BY <1>4, <2>2, Zenon DEF b
  <2>5. CASE Len(t) > 8 \/ ~s.ok
    BY <1>8, <2>1, <2>2, <2>3, <2>5, Zenon
  <2>6. CASE ~(Len(t) > 8 \/ ~s.ok)
    <3>1. u = [ok |-> TRUE, type |-> (b[1] \div 16) % 4, code |-> b[2],
               mid |-> 256 * b[3] + b[4], token |-> SubSeq(b, 5, 4 + n),
               opts |-> q.opts, payload |-> q.rest]
      BY <1>8, <1>9, <2>1, <2>2, <2>3, <2>6, Zenon
    <3> QED  BY <1>9, <2>3, <2>4, <2>6, <3>1, Zenon
  <2> QED  BY <2>5, <2>6
<1>11. /\ v.ok /\ v.type = m.type /\ v.code = m.code /\ v.mid = m.mid /\ v.token = t
       /\ v.opts = s.opts /\ v.payload = s.rest /\ ~Failed.ok
  BY DEF Failed
<1> HIDE DEF v
<1>12. Len(t) > 8 <=> ~(Len(t) <= 8)
  BY <1>1
<1>13. u.ok <=> Len(t) <= 8 /\ s.ok
  BY <1>10, <1>11, <1>12, Zenon
<1>14. u.ok => u = v
  BY <1>10, <1>11, Zenon
<1> QED  BY <1>11, <1>13, <1>14, Zenon DEF t

\* Nor the fixed part nor the token may be cut.
LEMMA CutFixed ==
  ASSUME NEW m \in Composed, Len(m.token) < 16, NEW y \in Seq(Byte), NEW j \in 0 .. Len(Fixed(m)) - 1
  PROVE  ~Unmarshal(SubSeq(Fixed(m) \o y, 1, j)).ok
<1> DEFINE f == Four(m)
           t == m.token
           w == Fixed(m)
           b == SubSeq(w \o y, 1, j)
<1>1. f \in Seq(Byte) /\ Len(f) = 4 /\ w = f \o t /\ w \in Seq(Byte) /\ Len(w) = 4 + Len(t)
      /\ Len(t) \in Nat
  BY FixedFacts
<1>2. t \in Seq(Byte) /\ f[1] % 16 = Len(t)
  BY ComposedFields, FixedBytes
<1> HIDE DEF f, t, w
<1>3. j \in Nat /\ j < 4 + Len(t) /\ j \in 0 .. Len(w \o y)
  <2>1. w \o y \in Seq(Byte) /\ Len(w \o y) = Len(w) + Len(y) /\ Len(y) \in Nat
    BY <1>1, BytesConcat
  <2>2. j \in 0 .. Len(w) - 1
    BY DEF w
  <2> QED  BY <1>1, <2>1, <2>2
<1>4. Len(b) = j
  <2> DEFINE x == w \o y
  <2>1. x \in Seq(Byte)
    BY <1>1, BytesConcat
  <2> HIDE DEF x
  <2>2. Len(SubSeq(x, 1, j)) = j
    BY <1>3, <2>1, PrefixFacts DEF x
  <2> QED  BY <2>2 DEF x
<1>5. j >= 4 => b[1] = f[1]
  <2> SUFFICES ASSUME j >= 4 PROVE b[1] = f[1]
    OBVIOUS
  <2>1. w[1] = f[1]
    BY <1>1, <1>2
  <2>2. (w \o y)[1] = w[1]
    BY <1>1
  <2> DEFINE x == w \o y
  <2>3. x \in Seq(Byte)
    BY <1>1, BytesConcat
  <2> HIDE DEF x
  <2>4. SubSeq(x, 1, j)[1] = x[1]
    BY <1>3, <2>3 DEF x
  <2> QED  BY <2>1, <2>2, <2>4, Zenon DEF x
<1> HIDE DEF b
<1>6. Unmarshal(b) = Failed
  <2>1. CASE Len(b) < 4
    BY <2>1, Zenon DEF Unmarshal
  <2>2. CASE ~(Len(b) < 4)
    <3>1. b[1] % 16 = Len(t) /\ Len(b) < 4 + Len(t)
      BY <1>2, <1>3, <1>4, <1>5, <2>2
    <3> QED  BY <2>2, <3>1, Zenon DEF Unmarshal
  <2> QED  BY <2>1, <2>2
<1> QED  BY <1>6 DEF Failed, b, w

-----------------------------------------------------------------------------
(* What the reader makes of what was written *)

LEMMA UsedPlain ==
  ASSUME WideNumbersStayUnknown
  PROVE  Used \subseteq Plain
<1>1. ASSUME NEW o \in PeerOptions PROVE o.id > 255 => OptionDef(o.id % 256).format = "unknown"
  BY DEF WideNumbersStayUnknown
<1>2. ASSUME NEW o \in Options PROVE ~(o.id > 255)
  <2>1. o.id \in Byte
    BY CodecAssumption, Zenon DEF CodecAssumption
  <2> QED  BY <2>1 DEF Byte
<1>3. ASSUME NEW bm \in Blocks PROVE ~(BlockOption(bm).id > 255)
  <2>1. BlockOption(bm).id = OptBlock1
    BY BlockOptionFits
  <2> QED  BY <2>1 DEF OptBlock1
<1>4. ASSUME NEW o \in Used PROVE o \in Plain
  <2>1. o \in Fitting
    BY UsedFits
  <2>2. o.id > 255 => OptionDef(o.id % 256).format = "unknown"
    BY <1>1, <1>2, <1>3 DEF Used
  <2> QED  BY <2>1, <2>2 DEF Plain
<1> QED  BY <1>4

\* The datagram, and where it comes from.
LEMMA Written ==
  ASSUME Inductive, WideNumbersStayUnknown, got # None
  PROVE  /\ msg \in Composed /\ msg.opts \in Seq(Plain) /\ Ordered(msg.opts)
         /\ wire = Fixed(msg) \o (Chunks(msg.opts) \o End(msg.payload))
         /\ got = Unmarshal(SubSeq(wire, 1, cut)) /\ cut \in 0 .. Len(wire)
         /\ Fixed(msg) \in Seq(Byte) /\ Chunks(msg.opts) \in Seq(Byte) /\ End(msg.payload) \in Seq(Byte)
         /\ msg.payload \in Seq(Byte)
<1>1. /\ msg \in Composed /\ Ordered(msg.opts) /\ wire = Marshal(msg)
      /\ got = Unmarshal(SubSeq(wire, 1, cut)) /\ cut \in 0 .. Len(wire)
  BY Zenon DEF Inductive, BuiltInv, WrittenInv
<1>2. msg.opts \in Seq(Used) /\ msg.payload \in Seq(Byte)
  BY <1>1, ComposedFields
<1>3. msg.opts \in Seq(Plain)
  BY <1>2, UsedPlain
<1>4. wire = Fixed(msg) \o (Chunks(msg.opts) \o End(msg.payload))
  BY <1>1, Zenon DEF Marshal
<1>5. Fixed(msg) \in Seq(Byte)
  BY <1>1, FixedFacts
<1>6. End(msg.payload) \in Seq(Byte)
  BY <1>2, EndFacts
<1>7. Chunks(msg.opts) \in Seq(Byte)
  <2>1. msg.opts \in Seq(Fitting)
    BY <1>2, UsedFits
  <2> QED  BY <1>1, <2>1, ChunksFacts
<1> QED  BY <1>1, <1>2, <1>3, <1>4, <1>5, <1>6, <1>7, Zenon

LEMMA ReadWhole ==
  ASSUME Inductive, WideNumbersStayUnknown, got # None, cut = Len(wire), TokenLengthFits
  PROVE  /\ got.ok <=> Len(msg.token) <= 8
         /\ got.ok => /\ got.type = msg.type /\ got.code = msg.code /\ got.mid = msg.mid
                      /\ got.token = msg.token /\ got.opts = Kept(msg.opts)
                      /\ got.payload = msg.payload
<1> DEFINE c == Chunks(msg.opts)
           e == End(msg.payload)
           y == c \o e
           s == ParseOptions(y)
<1>1. /\ msg \in Composed /\ msg.opts \in Seq(Plain) /\ Ordered(msg.opts)
      /\ wire = Fixed(msg) \o y
      /\ got = Unmarshal(SubSeq(wire, 1, cut)) /\ Fixed(msg) \in Seq(Byte)
      /\ c \in Seq(Byte) /\ e \in Seq(Byte) /\ msg.payload \in Seq(Byte)
  BY Written, Zenon
<1>2. s.ok /\ s.rest = msg.payload /\ s.opts = Kept(msg.opts)
  <2>1. CASE msg.payload = <<>>
    <3>1. e = <<>>
      BY <2>1, Zenon DEF End
    <3>2. c \o <<>> = c
      <4> HIDE DEF c
      <4> QED  BY <1>1, ConcatFacts
    <3>3. y = c
      BY <3>1, <3>2, Zenon
    <3>4. ParseOptions(c).ok /\ ParseOptions(c).rest = <<>> /\ ParseOptions(c).opts = Kept(msg.opts)
      BY <1>1, ParseToEnd
    <3> QED  BY <2>1, <3>3, <3>4, Zenon
  <2>2. CASE msg.payload # <<>>
    <3> DEFINE marker == <<255>>
    <3>1. e = marker \o msg.payload
      BY <2>2, Zenon DEF End
    <3>2. LET r == ParseOptions(c \o (marker \o msg.payload))
          IN  r.ok /\ r.rest = msg.payload /\ r.opts = Kept(msg.opts)
      BY <1>1, ParseToEnd
    <3> HIDE DEF marker
    <3> QED  BY <3>1, <3>2, Zenon
  <2> QED  BY <2>1, <2>2
<1>3. y \in Seq(Byte)
  <2> HIDE DEF c, e
  <2> QED  BY <1>1, BytesConcat
<1> HIDE DEF y
<1>4. got = Unmarshal(Fixed(msg) \o y)
  <2>1. wire \in Seq(Byte)
    BY WireFacts
  <2>2. SubSeq(wire, 1, Len(wire)) = wire
    BY <2>1
  <2> QED  BY <1>1, <2>2, Zenon
<1>5. Len(msg.token) < 16
  BY DEF TokenLengthFits
<1> HIDE DEF s
<1>6. /\ got.ok <=> Len(msg.token) <= 8 /\ s.ok
      /\ got.ok => /\ got.type = msg.type /\ got.code = msg.code /\ got.mid = msg.mid
                   /\ got.token = msg.token /\ got.opts = s.opts /\ got.payload = s.rest
  <2>1. s = ParseOptions(y)
    BY DEF s
  <2>2. msg \in Composed
    BY <1>1
  <2> DEFINE g == got
             m == msg
  <2>3. g = Unmarshal(Fixed(m) \o y) /\ m \in Composed /\ Len(m.token) < 16
    BY <1>4, <1>5, <2>2
  <2> HIDE DEF g, m
  <2>4. /\ g.ok <=> Len(m.token) <= 8 /\ s.ok
        /\ g.ok => /\ g.type = m.type /\ g.code = m.code /\ g.mid = m.mid /\ g.token = m.token
                   /\ g.opts = s.opts /\ g.payload = s.rest
    BY <1>3, <2>1, <2>3, UnmarshalFixed
  <2> QED  BY <2>4, Zenon DEF g, m
<1> QED  BY <1>2, <1>6, Zenon

\* Among the options that are kept, those of one number are the builder's.
LEMMA KeptOf ==
  ASSUME Inductive, NEW id \in Number
  PROVE  /\ Only(Kept(msg.opts), WithId(id)) = Only(Kept(built), WithId(id))
         /\ Only(Kept(msg.opts), WithId(id)) = Only(Only(built, WithId(id)), Recognized)
<1> DEFINE W == WithId(id)
           R == Recognized
<1>1. msg.opts \in Seq(Option) /\ built \in Seq(Option) /\ SameOptions(msg.opts, built)
  <2>1. msg.opts \in Seq(Used) /\ built \in Seq(Used) /\ SameOptions(msg.opts, built)
    BY ComposedFields DEF Inductive, BuiltInv
  <2> QED  BY <2>1, UsedFits
<1>2. Kept(msg.opts) = Only(msg.opts, R) /\ Kept(built) = Only(built, R)
  BY <1>1, KeptFacts
<1>3. Only(msg.opts, W) = Only(built, W)
  BY <1>1, Zenon DEF SameOptions
<1> HIDE DEF W, R
<1>4. ASSUME NEW s \in Seq(Option)
      PROVE  Only(Only(s, R), W) = Only(Only(s, W), R)
  <2>1. Only(Only(s, R), W) = Only(s, R \cap W) /\ Only(Only(s, W), R) = Only(s, W \cap R)
    BY OnlyOnly
  <2>2. R \cap W = W \cap R
    OBVIOUS
  <2> QED  BY <2>1, <2>2, Zenon
<1> QED  BY <1>1, <1>2, <1>3, <1>4, Zenon DEF W, R

\* What is read in full is what was written: header, token and payload, and of the
\* options those with a name and a legal length, in the order of their numbers and,
\* within one number, of the builder; a longer token is refused. A peer's number
\* beyond a byte must not turn into that of a named option.
THEOREM RoundTripCorrect ==
  ASSUME WideNumbersStayUnknown
  PROVE  Spec => []RoundTrip
<1>1. Inductive => RoundTrip
  <2> SUFFICES ASSUME Inductive, got # None, cut = Len(wire), TokenLengthFits
               PROVE  IF Len(msg.token) <= 8
                      THEN /\ got.ok
                           /\ \A f \in {"type", "code", "mid", "token", "payload"} : got[f] = msg[f]
                           /\ \A i, j \in DOMAIN got.opts : i < j => got.opts[i].id <= got.opts[j].id
                           /\ \A id \in 0 .. 255 : ValuesOf(got, id) = Only(Kept(built), WithId(id))
                      ELSE ~got.ok
    BY Zenon DEF RoundTrip
  <2>1. /\ got.ok <=> Len(msg.token) <= 8
        /\ got.ok => /\ got.type = msg.type /\ got.code = msg.code /\ got.mid = msg.mid
                     /\ got.token = msg.token /\ got.opts = Kept(msg.opts)
                     /\ got.payload = msg.payload
    BY ReadWhole
  <2>2. ASSUME got.ok
        PROVE  \A f \in {"type", "code", "mid", "token", "payload"} : got[f] = msg[f]
    BY <2>1, <2>2
  <2>3. ASSUME got.ok
        PROVE  \A i, j \in DOMAIN got.opts : i < j => got.opts[i].id <= got.opts[j].id
    <3> DEFINE k == got.opts
    <3>1. k = Only(msg.opts, Recognized) /\ k \in Seq(Option) /\ msg.opts \in Seq(Option) /\ Ordered(msg.opts)
      <4>1. msg.opts \in Seq(Plain) /\ Ordered(msg.opts)
        BY Written
      <4>2. msg.opts \in Seq(Option)
        BY <4>1, PlainIs
      <4>3. k = Kept(msg.opts)
        BY <2>1, <2>3, Zenon
      <4>4. Kept(msg.opts) = Only(msg.opts, Recognized) /\ Kept(msg.opts) \in Seq(Option)
        BY <4>2, KeptFacts
      <4> QED  BY <4>1, <4>2, <4>3, <4>4, Zenon
    <3>2. Ordered(k)
      BY <3>1, OnlyOrdered
    <3> HIDE DEF k
    <3>3. ASSUME NEW i \in DOMAIN k, NEW j \in DOMAIN k, i < j PROVE k[i].id <= k[j].id
      <4>1. DOMAIN k \subseteq Int
        BY <3>1
      <4>2. i <= j
        BY <3>3, <4>1
      <4> QED  BY <3>2, <4>2, Zenon DEF Ordered
    <3> QED  BY <3>3, Zenon DEF k
  <2>4. ASSUME got.ok, NEW id \in 0 .. 255
        PROVE  ValuesOf(got, id) = Only(Kept(built), WithId(id))
    <3>1. id \in Number
      <4>1. Word - 1 \in Int /\ 255 <= Word - 1
        BY DEF Word
      <4>2. \A w \in Int : 255 <= w => id \in 0 .. w
        OBVIOUS
      <4> QED  BY <4>1, <4>2 DEF Number
    <3>2. ValuesOf(got, id) = Only(Kept(msg.opts), WithId(id))
      BY <2>1, <2>4, Zenon DEF ValuesOf
    <3>3. Only(Kept(msg.opts), WithId(id)) = Only(Kept(built), WithId(id))
      BY <3>1, KeptOf
    <3> QED  BY <3>2, <3>3, Zenon
  <2> QED  BY <2>1, <2>2, <2>3, <2>4, Zenon
<1> QED  BY <1>1, InductiveCorrect, PTL

\* The Block1 option that the builder gave is read as the block it was given.
LEMMA BlockIsKept ==
  ASSUME NEW bm \in Blocks
  PROVE  LET o == BlockOption(bm)
         IN  /\ o \in Recognized /\ Decodable(o.val.bytes) /\ DecodeBlock(o.val.bytes) = bm
<1> DEFINE o == BlockOption(bm)
           b == EncodeBlock(bm.num, bm.more, bm.size)
           S == {BlockSizes[i] : i \in 1 .. 8}
<1>1. /\ bm.num \in Nat /\ bm.num \in BlockNumber /\ bm.more \in BOOLEAN
      /\ \E i \in 1 .. 8 : bm.size = BlockSizes[i]
  BY BlockFields
<1>2. bm = [num |-> bm.num, more |-> bm.more, size |-> bm.size]
  <2>1. Blocks \subseteq [num : BlockNumber, more : BOOLEAN, size : S]
    BY CodecAssumption, Zenon DEF CodecAssumption
  <2> HIDE DEF S
  <2> QED  BY <2>1
<1>4. Decodable(b) /\ DecodeBlock(b) = bm
  <2>1. PICK i \in 1 .. 8 : bm.size = BlockSizes[i]
    BY <1>1
  <2> DEFINE num == bm.num
             more == bm.more
  <2>2. num \in BlockNumber /\ more \in BOOLEAN
    BY <1>1
  <2> HIDE DEF num, more
  <2>3. /\ Decodable(EncodeBlock(num, more, BlockSizes[i]))
        /\ DecodeBlock(EncodeBlock(num, more, BlockSizes[i])) = [num |-> num, more |-> more, size |-> BlockSizes[i]]
    BY <2>2, BlockRoundTrip
  <2> QED  BY <1>2, <2>1, <2>3, Zenon DEF num, more
<1> HIDE DEF b
<1>5. o = [id |-> OptBlock1, val |-> [bytes |-> b]] /\ o \in Option
  BY BlockOptionFits, UsedFits DEF BlockOption, b
<1> HIDE DEF o
<1>6. o.id = OptBlock1 /\ o.val = [bytes |-> b] /\ o.val.bytes = b
  BY <1>5
<1>7. ToBytes(o.val) = b
  <2>1. "uint" \notin DOMAIN o.val
    BY <1>6
  <2> QED  BY <1>6, <2>1, Zenon DEF ToBytes
<1>8. ParseOptionValue(OptBlock1, b) # <<>>
  <2>1. OptionDef(OptBlock1) = [format |-> "bytes", min |-> 0, max |-> 3]
    BY DEF OptionDef, OptBlock1
  <2>2. Len(b) \in 0 .. 3
    BY <1>4 DEF Decodable
  <2>3. ParseOptionValue(OptBlock1, b) = <<[id |-> OptBlock1, val |-> [bytes |-> b]]>>
    BY <2>1, <2>2 DEF ParseOptionValue
  <2> QED  BY <2>3
<1>9. o \in Recognized
  BY <1>5, <1>6, <1>7, <1>8, Zenon DEF Recognized
<1> QED  BY <1>4, <1>6, <1>9, Zenon DEF o

\* The reader sees the block that the builder set last, whatever options surround
\* it, whatever the peer's numbers and however often the message has carried another.
THEOREM LatestBlockIsReadCorrect ==
  ASSUME WideNumbersStayUnknown
  PROVE  Spec => []LatestBlockIsRead
<1>1. Inductive => LatestBlockIsRead
  <2> SUFFICES ASSUME Inductive, got # None, cut = Len(wire), got.ok, TokenLengthFits
               PROVE  BlockOf(got, OptBlock1) = block
    BY Zenon DEF LatestBlockIsRead
  <2> DEFINE W == WithId(OptBlock1)
             found == ValuesOf(got, OptBlock1)
  <2>1. found = Only(Only(built, W), Recognized)
    <3>1. got.opts = Kept(msg.opts)
      BY ReadWhole
    <3>2. Only(Kept(msg.opts), W) = Only(Only(built, W), Recognized)
      BY BlockNumberIs27, KeptOf
    <3> QED  BY <3>1, <3>2, Zenon DEF ValuesOf
  <2>2. /\ block \in Blocks \cup {None}
        /\ Only(built, W) = IF block = None THEN <<>> ELSE <<BlockOption(block)>>
    BY Zenon DEF Inductive, BuiltInv
  <2> HIDE DEF W, found
  <2>3. CASE block = None
    <3>1. found = <<>>
      BY <2>1, <2>2, <2>3, OnlyEmpty, Zenon
    <3> QED  BY <2>3, <3>1, Zenon DEF BlockOf, found
  <2>4. CASE block # None
    <3> DEFINE o == BlockOption(block)
    <3>1. block \in Blocks
      BY <2>2, <2>4
    <3>2. o \in Recognized /\ Decodable(o.val.bytes) /\ DecodeBlock(o.val.bytes) = block
      BY <3>1, BlockIsKept
    <3>3. found = Only(<<o>>, Recognized)
      BY <2>1, <2>2, <2>4, Zenon
    <3> HIDE DEF o
    <3>4. found = <<o>>
      BY <3>2, <3>3, OnlyOne, Zenon
    <3>5. found # <<>> /\ found[1] = o
      BY <3>4
    <3> QED  BY <3>2, <3>5, Zenon DEF BlockOf, found
  <2> QED  BY <2>3, <2>4
<1> QED  BY <1>1, InductiveCorrect, PTL

LEMMA PrefixOfPayload ==
  ASSUME NEW p \in Seq(Byte), NEW j \in 0 .. Len(p)
  PROVE  IsPrefix(SubSeq(p, 1, j), p)
<1> DEFINE q == SubSeq(p, 1, j)
<1>1. Len(q) = j /\ j <= Len(p) /\ q \in Seq(Byte)
  OBVIOUS
<1>2. SubSeq(q, 1, j) = q
  <2> HIDE DEF q
  <2> QED  BY <1>1
<1> HIDE DEF q
<1>3. SubSeq(q, 1, Len(q)) = SubSeq(p, 1, Len(q)) /\ Len(q) <= Len(p)
  BY <1>1, <1>2, Zenon DEF q
<1> QED  BY <1>3 DEF IsPrefix, q

\* A datagram cut at any byte is refused, or lacks only its end: never an option
\* or a payload that was not there, and no payload without all the options.
THEOREM CutIsPrefixCorrect ==
  ASSUME WideNumbersStayUnknown
  PROVE  Spec => []CutIsPrefix
<1>1. Inductive => CutIsPrefix
  <2> SUFFICES ASSUME Inductive, got # None, got.ok, TokenLengthFits
               PROVE  /\ IsPrefix(got.opts, Kept(msg.opts))
                      /\ IsPrefix(got.payload, msg.payload)
                      /\ got.payload # <<>> => got.opts = Kept(msg.opts)
    BY Zenon DEF CutIsPrefix
  <2> DEFINE f == Fixed(msg)
             c == Chunks(msg.opts)
             e == End(msg.payload)
             x == c \o e
             k == Kept(msg.opts)
             q == msg.payload
             m == msg
  <2>1. /\ m \in Composed /\ msg.opts \in Seq(Plain) /\ Ordered(msg.opts)
        /\ wire = f \o x /\ got = Unmarshal(SubSeq(wire, 1, cut)) /\ cut \in 0 .. Len(wire)
        /\ f \in Seq(Byte) /\ c \in Seq(Byte) /\ e \in Seq(Byte) /\ q \in Seq(Byte)
    BY Written, Zenon
  <2>2. Len(m.token) < 16
    BY DEF TokenLengthFits
  <2>3. k \in Seq(Option) /\ IsPrefix(k, k)
    <3>1. msg.opts \in Seq(Option)
      BY <2>1, PlainIs
    <3>2. k \in Seq(Option)
      BY <3>1, KeptFacts
    <3> HIDE DEF k
    <3>3. IsPrefix(k, k)
      BY <3>2 DEF IsPrefix
    <3> QED  BY <3>2, <3>3
  <2>4. x \in Seq(Byte)
    <3> HIDE DEF c, e
    <3> QED  BY <2>1, BytesConcat
  <2> HIDE DEF x
  <2>5. ~(cut < Len(f))
    <3> SUFFICES ASSUME cut < Len(f) PROVE FALSE
      OBVIOUS
    <3>1. cut \in 0 .. Len(f) - 1
      <4> HIDE DEF f
      <4>1. cut \in Nat
        BY <2>1, WireFacts
      <4>2. Len(f) \in Nat
        BY <2>1
      <4> QED  BY <4>1, <4>2
    <3> HIDE DEF m
    <3>2. ~Unmarshal(SubSeq(f \o x, 1, cut)).ok
      BY <2>1, <2>2, <2>4, <3>1, CutFixed DEF m
    <3> QED  BY <2>1, <3>2, Zenon
  <2> DEFINE j == cut - Len(f)
             y == SubSeq(x, 1, j)
             s == ParseOptions(y)
  <2>6. /\ SubSeq(wire, 1, cut) = f \o y /\ j \in 0 .. Len(x) /\ y \in Seq(Byte)
    <3> HIDE DEF f
    <3>1. cut \in 0 .. Len(f \o x) /\ Len(f) <= cut
      <4>1. cut \in 0 .. Len(f \o x)
        BY <2>1, Zenon
      <4>2. cut \in Nat /\ Len(f) \in Nat
        BY <2>1, WireFacts
      <4> QED  BY <2>5, <4>1, <4>2
    <3>2. SubSeq(f \o x, 1, cut) = f \o SubSeq(x, 1, cut - Len(f)) /\ cut - Len(f) \in 0 .. Len(x)
      BY <2>1, <2>4, <3>1, PrefixOfConcat
    <3> HIDE DEF j
    <3>3. y \in Seq(Byte)
      BY <2>4, <3>2, PrefixFacts DEF j
    <3> QED  BY <2>1, <3>2, <3>3, Zenon DEF j
  <2> HIDE DEF j, y, s
  <2>7. s.ok /\ got.opts = s.opts /\ got.payload = s.rest
    <3> DEFINE g == got
    <3>1. g = Unmarshal(Fixed(m) \o y) /\ m \in Composed /\ Len(m.token) < 16 /\ s = ParseOptions(y)
      BY <2>1, <2>2, <2>6, Zenon DEF s
    <3> HIDE DEF g, m
    <3>2. /\ g.ok <=> Len(m.token) <= 8 /\ s.ok
          /\ g.ok => /\ g.type = m.type /\ g.code = m.code /\ g.mid = m.mid /\ g.token = m.token
                     /\ g.opts = s.opts /\ g.payload = s.rest
      BY <2>6, <3>1, UnmarshalFixed
    <3> QED  BY <3>2, Zenon DEF g
  <2>8. CASE j <= Len(c)
    <3>1. y = SubSeq(c, 1, j) /\ j \in 0 .. Len(c)
      <4> HIDE DEF c, e
      <4>1. j \in 0 .. Len(c \o e)
        BY <2>6, Zenon DEF x
      <4>2. SubSeq(c \o e, 1, j) = SubSeq(c, 1, j)
        BY <2>1, <2>8, <4>1, PrefixOfConcat
      <4>3. j \in Nat /\ Len(c) \in Nat
        BY <2>1, <4>1
      <4>4. j \in 0 .. Len(c)
        BY <2>8, <4>3
      <4> QED  BY <4>2, <4>4, Zenon DEF y, x
    <3>2. s.rest = <<>> /\ IsPrefix(s.opts, k)
      <4> DEFINE o == msg.opts
      <4>1. o \in Seq(Plain) /\ Ordered(o) /\ j \in 0 .. Len(Chunks(o))
        BY <2>1, <3>1
      <4>2. s = ParseOptions(SubSeq(Chunks(o), 1, j))
        BY <3>1, Zenon DEF s
      <4> HIDE DEF o
      <4>3. s.rest = <<>> /\ IsPrefix(s.opts, Kept(o))
        BY <2>7, <4>1, <4>2, ParseCut
      <4> QED  BY <4>3, Zenon DEF o
    <3>3. IsPrefix(<<>>, q)
      <4> HIDE DEF q
      <4>1. Len(<<>>) = 0 /\ 0 <= Len(q) /\ SubSeq(<<>>, 1, 0) = <<>> /\ SubSeq(q, 1, 0) = <<>>
        BY <2>1
      <4> QED  BY <4>1, Zenon DEF IsPrefix
    <3> QED  BY <2>7, <3>2, <3>3, Zenon
  <2>9. CASE ~(j <= Len(c))
    <3> DEFINE i == j - Len(c)
               z == SubSeq(e, 1, i)
    <3>1. y = c \o z /\ i \in 1 .. Len(e)
      <4> HIDE DEF c, e
      <4>1. j \in 0 .. Len(c \o e) /\ Len(c) \in Nat
        BY <2>1, <2>6 DEF x
      <4>2. Len(c) <= j
        BY <2>9, <4>1
      <4>3. SubSeq(c \o e, 1, j) = c \o SubSeq(e, 1, j - Len(c)) /\ j - Len(c) \in 0 .. Len(e)
        BY <2>1, <4>1, <4>2, PrefixOfConcat
      <4>4. i \in 1 .. Len(e)
        BY <2>9, <4>1, <4>3
      <4> QED  BY <4>3, <4>4, Zenon DEF y, x
    <3> HIDE DEF i
    <3>2. q # <<>>
      <4> SUFFICES ASSUME q = <<>> PROVE FALSE
        OBVIOUS
      <4>1. e = <<>>
        BY Zenon DEF End
      <4>2. Len(<<>>) = 0
        OBVIOUS
      <4>3. i \in 1 .. 0
        BY <3>1, <4>1, <4>2, Zenon
      <4> QED  BY <4>3
    <3> DEFINE one == <<255>>
               r == SubSeq(q, 1, i - 1)
    <3>3. one \in Seq(Byte) /\ Len(one) = 1
      BY DEF Byte
    <3>4. e = one \o q
      BY <3>2, Zenon DEF End
    <3> HIDE DEF one, q
    <3>5. z = one \o r /\ i - 1 \in 0 .. Len(q)
      <4>1. i \in 0 .. Len(one \o q) /\ Len(one) <= i /\ i - Len(one) = i - 1
        <5>0. q \in Seq(Byte)
          BY <2>1
        <5>1. Len(one \o q) = Len(one) + Len(q) /\ Len(q) \in Nat
          BY <3>3, <5>0, TakeApart
        <5>2. i \in 1 .. Len(one \o q)
          BY <3>1, <3>4, Zenon
        <5> QED  BY <3>3, <5>1, <5>2
      <4>2. SubSeq(one \o q, 1, i) = one \o SubSeq(q, 1, i - Len(one)) /\ i - Len(one) \in 0 .. Len(q)
        BY <2>1, <3>3, <4>1, PrefixOfConcat
      <4> QED  BY <3>4, <4>1, <4>2, Zenon
    <3>6. r \in Seq(Byte) /\ IsPrefix(r, q)
      <4> DEFINE h == i - 1
      <4>1. h \in 0 .. Len(q)
        BY <3>5
      <4> HIDE DEF h
      <4>2. SubSeq(q, 1, h) \in Seq(Byte)
        BY <2>1, <4>1, PrefixFacts
      <4>3. IsPrefix(SubSeq(q, 1, h), q)
        BY <2>1, <4>1, PrefixOfPayload
      <4> QED  BY <4>2, <4>3 DEF h
    <3> HIDE DEF r
    <3>7. s.rest = r /\ s.opts = k
      <4> DEFINE o == msg.opts
      <4>1. o \in Seq(Plain) /\ Ordered(o)
        BY <2>1
      <4>2. s = ParseOptions(Chunks(o) \o (<<255>> \o r))
        BY <3>1, <3>5, Zenon DEF s, one
      <4> HIDE DEF o
      <4>3. LET t == ParseOptions(Chunks(o) \o (<<255>> \o r)) IN t.ok /\ t.rest = r /\ t.opts = Kept(o)
        BY <3>6, <4>1, ParseToEnd
      <4> QED  BY <4>2, <4>3, Zenon DEF o
    <3> QED  BY <2>3, <2>7, <3>6, <3>7, Zenon DEF q
  <2> QED  BY <2>8, <2>9
<1> QED  BY <1>1, InductiveCorrect, PTL
=============================================================================
