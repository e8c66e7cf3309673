------------------------- MODULE BinaryGraphStream -------------------------
(***************************************************************************)
(* The readers of a binary graph stream: a file of a 12-byte header and    *)
(* num_edges records of nine bytes each.  MT_StreamReader threads share    *)
(* one BinaryGraphStream_MT and claim blocks of the file from its atomic   *)
(* offset stream_off; the single-threaded BinaryGraphStream walks the same *)
(* file by itself.                                                         *)
(*                                                                         *)
(* A byte is modelled by its offset in the file: content[r][i] is the file *)
(* offset of the byte in position i of r's buffer, 0 (a byte of the        *)
(* header, never read into a buffer) standing for whatever malloc left.    *)
(* A client calls get_edge until it meets END_OF_FILE (graphcc_bench.cpp), *)
(* of a BinaryGraphStream num_edges times (BCHMK_Graph.cpp).               *)
(* The file is as long as its header says.                                 *)
(***************************************************************************)
EXTENDS Integers

CONSTANTS
  Readers,     \* the MT_StreamReader threads
  NumEdges,    \* num_edges
  B,           \* the buffer size asked for
  ShortReads,  \* whether pread may return less than it could
  Polls        \* whether a client calls get_edge again after END_OF_FILE

EdgeSize == 9
Header == 12
EndOfFile == NumEdges * EdgeSize + Header
Records == {o \in Header .. EndOfFile - 1 : o % EdgeSize = Header % EdgeSize}

(* Faulty: the buffer may end inside a record. *)
BufSizeUncut == B

BufSize == B - (B % EdgeSize)

ASSUME StreamAssumption ==
  /\ Readers # {} /\ NumEdges \in Nat
  /\ B \in Nat /\ B >= EdgeSize
  /\ ShortReads \in BOOLEAN /\ Polls \in BOOLEAN

VARIABLES
  stream_off,   \* the shared offset
  rpc,          \* rpc[r]: outside read_data, or in its loop of preads
  read_off, data_read,        \* locals of read_data
  content, pos, data_in_buf,  \* r's buffer, buf - start_buf, data_in_buf
  ended,        \* the readers that were told END_OF_FILE
  delivered,    \* history: how often get_edge returned each record, and,
                \* at Torn, nine bytes that are no record
  file_pos, seq_content, seq_pos,  \* BinaryGraphStream: file and buffer
  calls, seq_edge  \* history: its calls, and what the last one returned

readVars == <<read_off, data_read>>
bufVars == <<content, pos, data_in_buf>>
mtVars == <<stream_off, rpc, readVars, bufVars, ended, delivered>>
seqVars == <<file_pos, seq_content, seq_pos, calls, seq_edge>>
vars == <<mtVars, seqVars>>

Least(m, n) == IF m <= n THEN m ELSE n

(* A buffer after n bytes from file offset o were read to its start. *)
Filled(buffer, o, n) ==
  [i \in 0 .. BufSize - 1 |-> IF i < n THEN o + i ELSE buffer[i]]
Junk == [i \in 0 .. BufSize - 1 |-> 0]

(* What get_edge decodes at position p: the record whose nine bytes are    *)
(* there, if there is one.                                                 *)
Torn == 0
IsAt(buffer, p, o) ==
  /\ p + EdgeSize <= BufSize
  /\ \A i \in 0 .. EdgeSize - 1 : buffer[p + i] = o + i
Decode(buffer, p) ==
  IF \E o \in Records : IsAt(buffer, p, o)
  THEN CHOOSE o \in Records : IsAt(buffer, p, o) ELSE Torn
-----------------------------------------------------------------------------
(* The constructors.  That of BinaryGraphStream reads its first block. *)
Init ==
  /\ stream_off = Header
  /\ rpc = [r \in Readers |-> "idle"]
  /\ read_off = [r \in Readers |-> 0] /\ data_read = [r \in Readers |-> 0]
  /\ content = [r \in Readers |-> Junk]
  /\ pos = [r \in Readers |-> 0] /\ data_in_buf = [r \in Readers |-> 0]
  /\ ended = {} /\ delivered = [o \in Records \cup {Torn} |-> 0]
  /\ seq_content = Filled(Junk, Header, Least(BufSize, EndOfFile - Header))
  /\ file_pos = Header + Least(BufSize, EndOfFile - Header)
  /\ seq_pos = 0 /\ calls = 0 /\ seq_edge = Torn

(* Faulty: a block that the end of the file cuts short is not claimed. *)
AtEndCutShort == stream_off + BufSize > EndOfFile
AtEnd == stream_off >= EndOfFile

(* get_edge finds its buffer used up and read_data claims the next block.  *)
(* END_OF_FILE leaves buf where it is.                                     *)
Claim(r) ==
  /\ rpc[r] = "idle" /\ pos[r] = data_in_buf[r]
  /\ r \in ended => Polls
  /\ stream_off' = stream_off + BufSize
  /\ IF AtEnd
     THEN /\ data_in_buf' = [data_in_buf EXCEPT ![r] = 0]
          /\ ended' = ended \cup {r}
          /\ UNCHANGED <<rpc, readVars>>
     ELSE /\ read_off' = [read_off EXCEPT ![r] = stream_off]
          /\ data_read' = [data_read EXCEPT ![r] = 0]
          /\ rpc' = [rpc EXCEPT ![r] = "pread"]
          /\ UNCHANGED <<data_in_buf, ended>>
  /\ UNCHANGED <<content, pos, delivered, seqVars>>

(* Faulty: the loop goes on until the buffer is full. *)
LoopOverWhenFull(r) == data_read[r] >= BufSize
LoopOver(r) ==
  data_read[r] >= BufSize \/ read_off[r] + data_read[r] >= EndOfFile

(* What one pread of BufSize bytes at offset o may return. *)
PreadReturns(o) ==
  LET full == Least(BufSize, EndOfFile - o)
  IN  IF ShortReads THEN 1 .. full ELSE {full}

(* One turn of the loop: every pread writes to the start of the buffer. *)
Pread(r) ==
  LET o == read_off[r] + data_read[r]
  IN  /\ rpc[r] = "pread" /\ ~LoopOver(r)
      /\ \E n \in PreadReturns(o) :
           /\ content' = [content EXCEPT ![r] = Filled(@, o, n)]
           /\ data_read' = [data_read EXCEPT ![r] = @ + n]
      /\ UNCHANGED <<stream_off, rpc, read_off, pos, data_in_buf, ended,
                     delivered, seqVars>>

(* The loop ends and buf points back to the beginning of the buffer. *)
Refilled(r) ==
  /\ rpc[r] = "pread" /\ LoopOver(r)
  /\ data_in_buf' = [data_in_buf EXCEPT ![r] = data_read[r]]
  /\ pos' = [pos EXCEPT ![r] = 0]
  /\ rpc' = [rpc EXCEPT ![r] = "idle"]
  /\ UNCHANGED <<stream_off, readVars, content, ended, delivered, seqVars>>

(* get_edge decodes the record that buf points to. *)
GetEdge(r) ==
  /\ rpc[r] = "idle" /\ pos[r] # data_in_buf[r]
  /\ r \in ended => Polls
  /\ delivered' = [delivered EXCEPT ![Decode(content[r], pos[r])] = @ + 1]
  /\ pos' = [pos EXCEPT ![r] = @ + EdgeSize]
  /\ UNCHANGED <<stream_off, rpc, readVars, content, data_in_buf, ended, seqVars>>

(* Faulty: the buffer is refilled one call too late. *)
UsedUpLate == seq_pos + EdgeSize > BufSize
UsedUp == seq_pos + EdgeSize = BufSize

(* BinaryGraphStream::get_edge, which refills a used-up buffer at once. *)
SeqGetEdge ==
  LET n == Least(BufSize, EndOfFile - file_pos)
  IN  /\ calls < NumEdges
      /\ calls' = calls + 1
      /\ seq_edge' = Decode(seq_content, seq_pos)
      /\ seq_pos' = IF UsedUp THEN 0 ELSE seq_pos + EdgeSize
      /\ seq_content' = IF UsedUp THEN Filled(seq_content, file_pos, n)
                        ELSE seq_content
      /\ file_pos' = IF UsedUp THEN file_pos + n ELSE file_pos
      /\ UNCHANGED mtVars

Reader(r) == Claim(r) \/ Pread(r) \/ Refilled(r) \/ GetEdge(r)
Finished ==
  /\ ended = Readers /\ calls = NumEdges
  /\ UNCHANGED vars

Next == (\E r \in Readers : Reader(r)) \/ SeqGetEdge \/ Finished

Spec == Init /\ [][Next]_vars

(* Every reader thread keeps running. *)
FairSpec == Spec /\ \A r \in Readers : WF_vars(Reader(r))
-----------------------------------------------------------------------------
(* What the shared stream and its readers hold. *)
ReaderType ==
  /\ stream_off \in Nat
  /\ rpc \in [Readers -> {"idle", "pread"}]
  /\ read_off \in [Readers -> Nat] /\ data_read \in [Readers -> Nat]
  /\ content \in [Readers -> [0 .. BufSize - 1 -> Nat]]
  /\ pos \in [Readers -> Nat] /\ data_in_buf \in [Readers -> Nat]
  /\ ended \subseteq Readers
  /\ delivered \in [Records \cup {Torn} -> Nat]

(* The block that r has claimed, and the records in it r has yet to return. *)
BlockLen(r) == Least(BufSize, EndOfFile - read_off[r])
HasBlock(r) == rpc[r] = "pread" \/ (r \notin ended /\ data_in_buf[r] > 0)
Owes(r, o) ==
  /\ HasBlock(r)
  /\ read_off[r] + (IF rpc[r] = "idle" THEN pos[r] ELSE 0) <= o
  /\ o < read_off[r] + BlockLen(r)
BlockRead(r) == \A i \in 0 .. BlockLen(r) - 1 : content[r][i] = read_off[r] + i

(* Blocks are whole records below stream_off. *)
BlocksBelow ==
  /\ stream_off >= Header /\ stream_off % EdgeSize = Header % EdgeSize
  /\ ended # {} => stream_off >= EndOfFile
  /\ \A r \in Readers : HasBlock(r) =>
       /\ Header <= read_off[r] /\ read_off[r] < EndOfFile
       /\ read_off[r] % EdgeSize = Header % EdgeSize
       /\ read_off[r] + BufSize <= stream_off

(* No two readers' blocks overlap. *)
BlocksDisjoint ==
  \A r, q \in Readers : r # q /\ HasBlock(r) /\ HasBlock(q) =>
    read_off[r] + BufSize <= read_off[q] \/ read_off[q] + BufSize <= read_off[r]

(* A filled buffer holds its block, and buf points to one of its records.  *)
BuffersHold ==
  \A r \in Readers :
    /\ rpc[r] = "pread" =>
         /\ r \notin ended /\ data_read[r] \in {0, BlockLen(r)}
         /\ data_read[r] # 0 => BlockRead(r)
    /\ rpc[r] = "idle" /\ r \notin ended =>
         /\ pos[r] <= data_in_buf[r] /\ pos[r] % EdgeSize = 0
         /\ data_in_buf[r] # 0 => data_in_buf[r] = BlockLen(r) /\ BlockRead(r)

(* The records below stream_off have been returned once, except those some *)
(* reader owes.                                                            *)
Returned ==
  /\ delivered[Torn] = 0
  /\ \A o \in Records : delivered[o] =
       IF o < stream_off /\ (\A r \in Readers : ~Owes(r, o)) THEN 1 ELSE 0

(* The inductive invariant behind AtMostOnce and NothingLost, on how the   *)
(* readers share the stream: what they claimed and have yet to return.     *)
StreamInv ==
  ReaderType /\ BlocksBelow /\ BlocksDisjoint /\ BuffersHold /\ Returned

(* The single-threaded get_edge returns the records in the order of the    *)
(* file, across the ends of its buffer and the last, partial block.        *)
FileOrder == calls > 0 => seq_edge = Header + (calls - 1) * EdgeSize

(* The sequential buffer holds the file from BlockStart on, and file_pos   *)
(* is where that block ends (the inductive invariant behind FileOrder).    *)
BlockStart == Header + calls * EdgeSize - seq_pos
SeqInv ==
  /\ calls \in 0 .. NumEdges
  /\ seq_pos \in 0 .. BufSize - 1 /\ seq_pos % EdgeSize = 0
  /\ seq_pos <= calls * EdgeSize
  /\ file_pos = Least(BlockStart + BufSize, EndOfFile)
  /\ seq_content \in [0 .. BufSize - 1 -> Nat]
  /\ \A i \in 0 .. BufSize - 1 :
       BlockStart + i < EndOfFile => seq_content[i] = BlockStart + i
  /\ FileOrder

(* get_edge returns whole records of the file, and no record twice,        *)
(* whichever readers claim, read and decode blocks at the same time.       *)
AtMostOnce == delivered[Torn] = 0 /\ \A o \in Records : delivered[o] <= 1

(* When every reader has been told END_OF_FILE, none of the records is     *)
(* missing: a reader is not told so while it still has records itself.     *)
NothingLost ==
  ended = Readers => \A o \in Records : delivered[o] = 1

(* Every reader is eventually told END_OF_FILE: the loop of preads ends.   *)
ReadersEnd == \A r \in Readers : <>(r \in ended)
=============================================================================
