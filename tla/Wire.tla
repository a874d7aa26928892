-------------------------------- MODULE Wire --------------------------------
(***************************************************************************)
(* What the fields of a CoAP message look like in bytes: the integers and  *)
(* headers of options (message_options.go, message_parse.go), the block    *)
(* options and the arithmetic of block numbers (blockwise.go, send.go).    *)
(* Pure operators; Codec builds messages from them, BlockTransfer numbers. *)
(***************************************************************************)
EXTENDS Integers, Sequences

Byte == 0 .. 255

-----------------------------------------------------------------------------
(* Option integers *)

\* Big endian, in as few bytes as hold it, but never in none.
EncodeInt(v) ==
  CASE v < 256                               -> <<v>>
    [] v >= 256 /\ v < 256 * 256             -> <<v \div 256, v % 256>>
    [] v >= 256 * 256 /\ v < 256 * 256 * 256 ->
         <<v \div (256 * 256), (v \div 256) % 256, v % 256>>
    [] v >= 256 * 256 * 256                  ->
         <<v \div (256 * 256 * 256), (v \div (256 * 256)) % 256, (v \div 256) % 256, v % 256>>

\* The bytes are copied to the end of four zeros.
DecodeInt(b) ==
  LET tmp == [i \in 1 .. 4 |-> IF i > 4 - Len(b) THEN b[i - (4 - Len(b))] ELSE 0]
  IN  256 * (256 * (256 * tmp[1] + tmp[2]) + tmp[3]) + tmp[4]

-----------------------------------------------------------------------------
(* Option headers *)

\* A delta or a length: the nibble and its extension (the longer one 16 bits wide).
ExtendOpt(n) ==
  CASE n < 13              -> [nibble |-> n,  ext |-> <<>>]
    [] n >= 13 /\ n < 269  -> [nibble |-> 13, ext |-> <<n - 13>>]
    [] n >= 269            -> [nibble |-> 14, ext |-> <<((n - 269) \div 256) % 256, (n - 269) % 256>>]

OptionHeader(delta, length) ==
  LET d == ExtendOpt(delta)
      l == ExtendOpt(length)
  IN  <<16 * d.nibble + l.nibble>> \o d.ext \o l.ext

Rest(b, n) == SubSeq(b, n + 1, Len(b))

Truncated == [ok |-> FALSE, n |-> -1, rest |-> <<>>]

\* The number a nibble stands for, and the bytes behind its extension.
ParseExt(nibble, b) ==
  CASE nibble = 13 -> IF Len(b) < 1 THEN Truncated
                      ELSE [ok |-> TRUE, n |-> b[1] + 13, rest |-> Rest(b, 1)]
    [] nibble = 14 -> IF Len(b) < 2 THEN Truncated
                      ELSE [ok |-> TRUE, n |-> 256 * b[1] + b[2] + 269, rest |-> Rest(b, 2)]
    [] OTHER       -> [ok |-> TRUE, n |-> nibble, rest |-> b]

-----------------------------------------------------------------------------
(* Block options *)

BlockSizes == <<16, 32, 64, 128, 256, 512, 1024, 2048>>
IsBlockSize(size) == \E i \in 1 .. 8 : BlockSizes[i] = size

\* A size that is not one of the eight is written as the smallest.
Szx(size) == IF IsBlockSize(size) THEN (CHOOSE i \in 1 .. 8 : BlockSizes[i] = size) - 1 ELSE 0

EncodeBlock(num, more, size) ==
  LET low == ((16 * num) % 256) + (IF more THEN 8 ELSE 0) + Szx(size)
  IN  CASE num <= 7                -> <<low>>
        [] num > 7 /\ num < 4096   -> <<(num \div 16) % 256, low>>
        [] num >= 4096             -> <<(num \div 4096) % 256, (num \div 16) % 256, low>>

\* Any other length, the empty option among them, is an error and reads as no option.
Decodable(b) == Len(b) \in 1 .. 3

DecodeBlock(b) ==
  LET low == b[Len(b)]
  IN  [ num  |-> CASE Len(b) = 1 -> low \div 16
                   [] Len(b) = 2 -> 16 * b[1] + low \div 16
                   [] Len(b) = 3 -> 4096 * b[1] + 16 * b[2] + low \div 16,
        more |-> low % 16 >= 8,
        size |-> BlockSizes[1 + (low % 8)] ]

\* Send: the number of the next block, in the size that the response to block
\* (num, size) asks for.
NextBlock(size, rsp) ==
  (IF size > rsp.size THEN (size \div rsp.size) * (rsp.num + 1) - 1 ELSE rsp.num) + 1
=============================================================================
