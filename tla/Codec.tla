------------------------------- MODULE Codec -------------------------------
(***************************************************************************)
(* A message from its builder to its reader: WithOption and RemoveOption   *)
(* (message.go), marshalBinary and headerSize (message_parse.go), the      *)
(* datagram on its way through a read buffer (listen_udp.go), and          *)
(* unmarshalBinary with the table of options (message_options.go).         *)
(*                                                                         *)
(* The builder is this library or a peer with another implementation,      *)
(* whose option numbers may be any.                                        *)
(***************************************************************************)
EXTENDS Wire, SequencesExt

CONSTANTS
  Messages,     \* without options: [type, code, mid, token, payload, opts, packetSize]
  Options,      \* what an application passes to WithOption: [id, val]
  PeerOptions,  \* what only a peer writes: options this library does not name
  Blocks,       \* arguments of WithBlock1: [num, more, size]
  Tokens,       \* what randomString(8) may draw
  MessageIDs,   \* what the counter of message IDs may give
  MaxOptions,   \* bound: options in one message
  ReadBuffers,  \* sizes of the read buffer (8192 in the UDP reader)
  None          \* a nil pointer

VARIABLES
  msg,      \* the Message under construction; marshalling sorts its options
  built,    \* its options in the order the builder gave them (history)
  foreign,  \* whether a peer builds it
  block,    \* the last argument of WithBlock1, None before (history)
  estimate, \* headerSize, -1 before it is asked for
  wire,     \* the datagram, <<>> before marshalBinary
  cut,      \* the bytes of it that were read
  got       \* what unmarshalBinary made of those, None before

vars == <<msg, built, foreign, block, estimate, wire, cut, got>>

-----------------------------------------------------------------------------
(* Options *)

Word   == 256 * 256      \* values of 16 bits
Number == 0 .. Word - 1  \* of an option, in any implementation; OptionID holds a Byte
BlockNumber == 0 .. (16 * Word) - 1

\* A value is [uint |-> n], or [bytes |-> s] for a string or a byte slice.
Value  == [uint : Nat] \cup [bytes : Seq(Byte)]
Option == [id : Number, val : Value]

OptBlock1 == 27

\* optionDefs: format, shortest and longest value of the options that have a name.
OptionDef(id) ==
  CASE id = 1                -> [format |-> "bytes", min |-> 0, max |-> 8]
    [] id = 4                -> [format |-> "bytes", min |-> 1, max |-> 8]
    [] id = 5                -> [format |-> "bytes", min |-> 0, max |-> 0]
    [] id \in {23, 27}       -> [format |-> "bytes", min |-> 0, max |-> 3]
    [] id \in {3, 39}        -> [format |-> "bytes", min |-> 1, max |-> 255]
    [] id \in {8, 11, 15, 20} -> [format |-> "bytes", min |-> 0, max |-> 255]
    [] id = 35               -> [format |-> "bytes", min |-> 1, max |-> 1034]
    [] id \in {7, 12, 17}    -> [format |-> "uint", min |-> 0, max |-> 2]
    [] id = 6                -> [format |-> "uint", min |-> 0, max |-> 3]
    [] id \in {14, 28, 60}   -> [format |-> "uint", min |-> 0, max |-> 4]
    [] OTHER                 -> [format |-> "unknown", min |-> 0, max |-> 0]

ToBytes(val) == IF "uint" \in DOMAIN val THEN EncodeInt(val.uint) ELSE val.bytes

\* A value has the type of its option, a number fits 32 bits, and a length the
\* longer extension of a header.
WellFormed(o) ==
  /\ OptionDef(o.id).format = "uint" => o.val \in [uint : Nat]
  /\ OptionDef(o.id).format = "bytes" => o.val \in [bytes : Seq(Byte)]
  /\ IF "uint" \in DOMAIN o.val THEN o.val.uint \div Word < Word
     ELSE Len(o.val.bytes) < Word + 269

ASSUME CodecAssumption ==
  /\ Messages \subseteq [type : 0 .. 3, code : Byte, mid : 0 .. Word - 1,
                         token : Seq(Byte), payload : Seq(Byte), opts : {<<>>},
                         packetSize : Nat]
  /\ Tokens \subseteq {t \in Seq(Byte) : Len(t) = 8} /\ MessageIDs \subseteq 0 .. Word - 1
  /\ Options \cup PeerOptions \subseteq {o \in Option : WellFormed(o)}
  /\ \A o \in Options : o.id \in Byte
  /\ Blocks \subseteq [num : BlockNumber, more : BOOLEAN, size : {BlockSizes[i] : i \in 1 .. 8}]
  /\ MaxOptions \in Nat /\ ReadBuffers \subseteq Nat /\ None \notin Number /\ None \notin Blocks

\* What an OptionID leaves of a peer's number is not the number of a named option.
WideNumbersStayUnknown ==
  \A o \in PeerOptions : o.id > 255 => OptionDef(o.id % 256).format = "unknown"

\* Options without a name and values of the wrong length are skipped.
ParseOptionValue(id, b) ==
  LET def == OptionDef(id) IN
  IF def.format = "unknown" \/ Len(b) \notin def.min .. def.max THEN <<>>
  ELSE IF def.format = "uint" THEN <<[id |-> id, val |-> [uint |-> DecodeInt(b)]]>>
  ELSE <<[id |-> id, val |-> [bytes |-> b]]>>

\* What is in S of a sequence, in the order it has there.
Only(s, S) ==
  LET kept[k \in 0 .. Len(s)] ==
        IF k = 0 THEN <<>> ELSE IF s[k] \in S THEN Append(kept[k - 1], s[k]) ELSE kept[k - 1]
  IN  kept[Len(s)]

WithId(id) == {o \in Option : o.id = id}
UpTo(id)   == {o \in Option : o.id <= id}
Beyond(id) == {o \in Option : o.id > id}

ValuesOf(m, id) == Only(m.opts, WithId(id))
Minus(opts, id) == Only(opts, Option \ WithId(id))

\* Fault: every option keeps its place.
Unsorted(opts) == opts

\* Fault: options of one number come out in reverse.
SortedUnstable(opts) ==
  LET sorted[k \in 0 .. Len(opts)] ==
        IF k = 0 THEN <<>>
        ELSE Only(sorted[k - 1], UpTo(opts[k].id - 1)) \o <<opts[k]>>
             \o Only(sorted[k - 1], Beyond(opts[k].id - 1))
  IN  sorted[Len(opts)]

\* Behind the options of its number and those below.
Insert(opts, o) == Only(opts, UpTo(o.id)) \o <<o>> \o Only(opts, Beyond(o.id))

\* sort.Stable with options.Less: by number, equal numbers in the order they had.
Sorted(opts) ==
  LET sorted[k \in 0 .. Len(opts)] == IF k = 0 THEN <<>> ELSE Insert(sorted[k - 1], opts[k])
  IN  sorted[Len(opts)]

Prev(opts, i) == IF i = 1 THEN 0 ELSE opts[i - 1].id

\* GetBlock1, GetBlock2: the first such option, nil when it cannot be decoded.
BlockOf(m, id) ==
  LET found == ValuesOf(m, id)
  IN  IF found # <<>> /\ Decodable(found[1].val.bytes) THEN DecodeBlock(found[1].val.bytes)
      ELSE None

-----------------------------------------------------------------------------
(* marshalBinary and headerSize *)

Fixed(m) ==
  <<64 + (16 * m.type) + (Len(m.token) % 16), m.code, m.mid \div 256, m.mid % 256>> \o m.token

Chunk(o, prev) == LET b == ToBytes(o.val) IN OptionHeader(o.id - prev, Len(b)) \o b

Chunks(opts) ==
  LET written[k \in 0 .. Len(opts)] ==
        IF k = 0 THEN <<>> ELSE written[k - 1] \o Chunk(opts[k], Prev(opts, k))
  IN  written[Len(opts)]

End(payload) == IF payload = <<>> THEN <<>> ELSE <<255>> \o payload

\* m.opts are sorted here.
Marshal(m) == Fixed(m) \o (Chunks(m.opts) \o End(m.payload))

ExtLength(n) == CASE n < 13 -> 0 [] n >= 13 /\ n < 269 -> 1 [] n >= 269 -> 2

ChunkSize(o, prev) ==
  LET length == Len(ToBytes(o.val))
  IN  1 + ExtLength(o.id - prev) + ExtLength(length) + length

OptionsSize(opts) ==
  LET size[k \in 0 .. Len(opts)] ==
        IF k = 0 THEN 0 ELSE size[k - 1] + ChunkSize(opts[k], Prev(opts, k))
  IN  size[Len(opts)]

\* Fault: the payload marker is not counted.
HeaderSizeNoMarker(m) == 4 + Len(m.token) + OptionsSize(m.opts)

HeaderSize(m) ==
  4 + Len(m.token) + OptionsSize(m.opts) + (IF m.payload = <<>> THEN 0 ELSE 1)

-----------------------------------------------------------------------------
(* unmarshalBinary *)

Failed == [ok |-> FALSE]

\* The loop over options: what is left, the number before, the options so far.
Running(rest, prev, opts) ==
  [loop |-> TRUE, ok |-> TRUE, rest |-> rest, prev |-> prev, opts |-> opts]

Start(b) == Running(b, 0, <<>>)
Ended(s) == ~s.loop \/ s.rest = <<>>

\* One round of it; prev is as narrow as OptionID.
Round(s) ==
  LET first  == s.rest[1]
      delta  == ParseExt(first \div 16, Rest(s.rest, 1))
      length == ParseExt(first % 16, delta.rest)
      id     == (s.prev + delta.n) % 256
  IN  IF Ended(s) THEN s
      ELSE IF first = 255 THEN [s EXCEPT !.loop = FALSE, !.rest = Rest(@, 1)]
      ELSE IF \/ 15 \in {first \div 16, first % 16} \/ ~delta.ok \/ ~length.ok
              \/ Len(length.rest) < length.n
      THEN [s EXCEPT !.loop = FALSE, !.ok = FALSE]
      ELSE Running(Rest(length.rest, length.n), id,
                   s.opts \o ParseOptionValue(id, SubSeq(length.rest, 1, length.n)))

\* Every round but the last takes a byte or more.
Rounds(b) ==
  LET round[k \in 0 .. Len(b)] == IF k = 0 THEN Start(b) ELSE Round(round[k - 1])
  IN  round

ParseOptions(b) == Rounds(b)[CHOOSE k \in 0 .. Len(b) : Ended(Rounds(b)[k])]

\* Fault: a datagram that ends inside an option is taken for its end.
UnmarshalLenient(b) ==
  LET tokenLen == b[1] % 16
      parsed   == ParseOptions(Rest(b, 4 + tokenLen))
  IN  IF Len(b) < 4 + tokenLen THEN Failed
      ELSE [ok |-> TRUE, opts |-> IF parsed.ok THEN parsed.opts ELSE <<>>,
            payload |-> IF parsed.ok THEN parsed.rest ELSE Rest(b, 4 + tokenLen),
            type |-> (b[1] \div 16) % 4, code |-> b[2], mid |-> 256 * b[3] + b[4],
            token |-> SubSeq(b, 5, 4 + tokenLen)]

Unmarshal(b) ==
  IF Len(b) < 4 THEN Failed
  ELSE LET tokenLen == b[1] % 16
           parsed   == ParseOptions(Rest(b, 4 + tokenLen))
       IN  IF b[1] \div 64 # 1 \/ tokenLen > 8 \/ Len(b) < 4 + tokenLen \/ ~parsed.ok THEN Failed
           ELSE [ok |-> TRUE, type |-> (b[1] \div 16) % 4, code |-> b[2],
                 mid |-> 256 * b[3] + b[4], token |-> SubSeq(b, 5, 4 + tokenLen),
                 opts |-> parsed.opts, payload |-> parsed.rest]

-----------------------------------------------------------------------------
Init ==
  /\ msg \in Messages
  /\ built = <<>>
  /\ foreign \in BOOLEAN
  /\ block = None
  /\ estimate = -1
  /\ wire = <<>>
  /\ cut = 0
  /\ got = None

\* A change of the message makes the datagram of the one before obsolete.
Change(without, added) ==
  /\ got = None
  /\ msg'   = [msg EXCEPT !.opts = Minus(@, without) \o added]
  /\ built' = Minus(built, without) \o added
  /\ Len(built') <= MaxOptions
  /\ estimate' = -1 /\ wire' = <<>> /\ cut' = 0
  /\ UNCHANGED <<foreign, got>>

WithOption(o, replace) ==
  /\ o.id # OptBlock1
  /\ Change(IF replace THEN o.id ELSE None, <<o>>)
  /\ UNCHANGED block

BlockOption(bm) ==
  [id |-> OptBlock1, val |-> [bytes |-> EncodeBlock(bm.num, bm.more, bm.size)]]

\* Fault: the option of the block before stays.
WithBlock1Added(bm) == Change(None, <<BlockOption(bm)>>) /\ block' = bm

\* Send's loop gives each block its number in the same message.
WithBlock1(bm) == Change(OptBlock1, <<BlockOption(bm)>>) /\ block' = bm

RemoveOption(id) ==
  /\ ValuesOf(msg, id) # <<>>
  /\ Change(id, <<>>)
  /\ block' = IF id = OptBlock1 THEN None ELSE block

\* RequiresBlockwise: the size the message would have, which sorts the options;
\* of a message that was received, the size of the datagram it came in.
PacketSize ==
  /\ wire = <<>> /\ estimate = -1
  /\ IF msg.packetSize # 0 THEN estimate' = msg.packetSize /\ UNCHANGED msg
     ELSE /\ msg' = [msg EXCEPT !.opts = Sorted(@)]
          /\ estimate' = HeaderSize(msg') + Len(msg.payload)
  /\ UNCHANGED <<built, foreign, block, wire, cut, got>>

\* pendingSave and send: what a message gets between its estimate and its datagram.
Drawn(m, token, mid) ==
  IF m.type = 0 THEN [m EXCEPT !.token = IF @ = <<>> THEN token ELSE @, !.mid = mid]
  ELSE [m EXCEPT !.mid = IF @ = 0 THEN mid ELSE @]

Write(m) ==
  /\ wire = <<>>
  /\ msg' = [m EXCEPT !.opts = Sorted(@)]
  /\ wire' = Marshal(msg')
  /\ UNCHANGED <<built, foreign, block, estimate, cut, got>>

Send(token, mid) == ~foreign /\ Write(Drawn(msg, token, mid))

\* The listener writes what handleMessage returns as it is, and so does a peer.
Reply == Write(msg)

\* What does not fit in the buffer of the reader is lost.
Receive(buffer) ==
  /\ wire # <<>> /\ got = None
  /\ cut' = IF Len(wire) <= buffer THEN Len(wire) ELSE buffer
  /\ got' = Unmarshal(SubSeq(wire, 1, cut'))
  /\ UNCHANGED <<msg, built, foreign, block, estimate, wire>>

Next ==
  \/ \E o \in Options, replace \in BOOLEAN : WithOption(o, replace)
  \/ \E o \in PeerOptions : foreign /\ WithOption(o, FALSE)
  \/ \E bm \in Blocks : WithBlock1(bm)
  \/ \E o \in Options : RemoveOption(o.id)
  \/ RemoveOption(OptBlock1)
  \/ PacketSize
  \/ \E token \in Tokens, mid \in MessageIDs : Send(token, mid)
  \/ Reply
  \/ \E buffer \in ReadBuffers : Receive(buffer)

Spec == Init /\ [][Next]_vars

-----------------------------------------------------------------------------
(* Properties *)

\* The options that a reader keeps.
Kept(opts) == Only(opts, {o \in Option : ParseOptionValue(o.id, ToBytes(o.val)) # <<>>})

\* The length of a longer token overflows its four bits.
TokenLengthFits == Len(msg.token) < 16

\* Every byte that is written is one: no header, extension or value overflows.
TypeOK ==
  /\ \A i \in DOMAIN wire : wire[i] \in Byte
  /\ cut \in 0 .. Len(wire)
  /\ Len(msg.opts) <= MaxOptions
  /\ got # None => got.ok \in BOOLEAN

\* What is read in full is what was written: header, token, payload, and the
\* options with a name and a legal length in the order of their numbers, those
\* of one number in the order of the builder. A token too long is refused, if
\* its length still fits the four bits.
RoundTrip ==
  got # None /\ cut = Len(wire) /\ TokenLengthFits =>
    IF Len(msg.token) <= 8
    THEN /\ got.ok
         /\ \A f \in {"type", "code", "mid", "token", "payload"} : got[f] = msg[f]
         /\ \A i, j \in DOMAIN got.opts : i < j => got.opts[i].id <= got.opts[j].id
         /\ \A id \in 0 .. 255 : ValuesOf(got, id) = Only(Kept(built), WithId(id))
    ELSE ~got.ok

\* A datagram cut short by the read buffer is refused, or lacks only its end: it
\* never yields an option or a payload that was not there.
CutIsPrefix ==
  got # None /\ got.ok /\ TokenLengthFits =>
    /\ IsPrefix(got.opts, Kept(msg.opts))
    /\ IsPrefix(got.payload, msg.payload)
    /\ got.payload # <<>> => got.opts = Kept(msg.opts)

\* headerSize and marshalBinary, two copies of one layout, agree to the byte on a
\* message that was not received. Send takes its estimate before pendingSave draws
\* a token: a datagram is larger than its estimate by these eight bytes, if the
\* message had no token, and by nothing else.
EstimateIsExact ==
  [][wire = <<>> /\ wire' # <<>> /\ estimate # -1 /\ msg.packetSize = 0 =>
       Len(wire') = estimate + (IF msg.token = <<>> /\ msg'.token # <<>> THEN 8 ELSE 0)]_vars

\* The receiver sees the block that Send set last, whatever options surround it
\* and however often the message has carried another.
LatestBlockIsRead ==
  got # None /\ cut = Len(wire) /\ got.ok /\ TokenLengthFits => BlockOf(got, OptBlock1) = block

\* parseOptionValue, on an option without a name: "Skip unrecognized options
\* (RFC7252 section 5.4.1)". The reader keeps only options that the builder wrote.
UnrecognizedSkipped ==
  got # None /\ got.ok =>
    \A i \in DOMAIN got.opts : \E j \in DOMAIN msg.opts : got.opts[i].id = msg.opts[j].id
=============================================================================
