----------------------------- MODULE BlockCache -----------------------------
(***************************************************************************)
(* The block cache of a server (blockwise.go) under one key: one peer, one *)
(* code, one path and one query.  An entry holds a message that is coming  *)
(* in (a request) or going out (a reply) in blocks.  Bodies are sequences  *)
(* of pieces, one to a block.  Handlers keep pointers to entries, so an    *)
(* entry may be changed after it has left the table.                       *)
(***************************************************************************)
EXTENDS Integers, Sequences

CONSTANT None  \* an absent table entry, an absent option

VARIABLES
  cache,   \* Server.blockCache under the key: an index of entries, or None
  entries  \* every blockCacheEntry ever made: [kind, pieces, last, block1]

cacheVars == <<cache, entries>>

\* Fault: the key is set for an entry that is not there.
PutKeyOnly(kind, pieces, block1) ==
  /\ cache' = Len(entries) + 1
  /\ UNCHANGED entries

\* blockCachePut: a new entry takes the place of any other.
Put(kind, pieces, block1) ==
  /\ entries' = Append(entries, [kind |-> kind, pieces |-> pieces, last |-> 0, block1 |-> block1])
  /\ cache' = Len(entries) + 1

\* Fault: any block is appended.
AppendsUnchecked(num) == cache # None

\* blockCacheAppend: the entry exists and lacks just this block.
Appends(num) == cache # None /\ num = entries[cache].last + 1

\* The append itself, without a lock: the payload read before may be stale when
\* it is extended, and then what was appended in between is lost.
AppendPiece(e, num, read, piece) ==
  /\ \E base \in {read, entries[e].pieces} :
       entries' = [entries EXCEPT ![e].last = num, ![e].pieces = Append(base, piece)]
  /\ UNCHANGED cache

\* blockCacheGet(-1): the body so far with the last piece. The entry stays.
Assembled(piece) == Append(entries[cache].pieces, piece)

\* blockCacheGet: block num of the message, unless it begins beyond the end. Where the
\* next block would begin is beyond the end if the last one is a partial block, and at
\* the end, with an empty block to serve, if it is full: there either may be.
Holds(num) == cache # None /\ num <= Len(entries[cache].pieces)

\* Fault: the last block is beyond the end.
LacksLast(num) == cache # None => num + 1 >= Len(entries[cache].pieces)

Lacks(num) == cache # None => num >= Len(entries[cache].pieces)

\* Fault: a block goes on to the end of the body.
BlockToEnd(num) ==
  LET e == entries[cache]
  IN  [ pieces |-> SubSeq(e.pieces, num + 1, Len(e.pieces)),
        block1 |-> IF num = 0 THEN e.block1 ELSE None,
        block2 |-> [num |-> num, more |-> num + 1 < Len(e.pieces)] ]

Block(num) ==
  LET e == entries[cache]
  IN  [ pieces |-> IF num < Len(e.pieces) THEN <<e.pieces[num + 1]>> ELSE <<>>,
        block1 |-> IF num = 0 THEN e.block1 ELSE None,
        block2 |-> [num |-> num, more |-> num + 1 < Len(e.pieces)] ]

\* expireBlocks collects keys and deletes them afterwards, so it may delete an
\* entry that was refreshed or replaced in between: at any moment, any entry.
Sweep ==
  /\ cache # None
  /\ cache' = None
  /\ UNCHANGED entries
=============================================================================
