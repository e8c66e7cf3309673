--------------------------- MODULE StreamProofs ---------------------------
(***************************************************************************)
(* The readers of a binary graph stream return every record exactly once,  *)
(* for any number of readers and records and any buffer size, when pread   *)
(* returns all it can and no client reads on after END_OF_FILE.            *)
(***************************************************************************)
EXTENDS BinaryGraphStream, TLAPS

Careful == ~ShortReads /\ ~Polls

(* BufSize is a positive whole number of records, EndOfFile the end of one. *)
LEMMA Sizes ==
  /\ BufSize \in Nat /\ BufSize >= 9 /\ BufSize % 9 = 0
  /\ EndOfFile \in Nat /\ EndOfFile >= 12 /\ EndOfFile % 9 = 3
  /\ Records = {o \in 12 .. EndOfFile - 1 : o % 9 = 3}
<1>1. 12 % 9 = 3
  OBVIOUS
<1>2. BufSize \in Nat /\ BufSize >= 9 /\ BufSize % 9 = 0
  BY StreamAssumption DEF BufSize, EdgeSize
<1>3. EndOfFile \in Nat /\ EndOfFile >= 12 /\ EndOfFile % 9 = 3
  BY StreamAssumption DEF EndOfFile, EdgeSize, Header
<1>4. Records = {o \in 12 .. EndOfFile - 1 : o % 9 = 3}
  BY <1>1, Zenon DEF Records, EdgeSize, Header
<1>5. QED  BY <1>2, <1>3, <1>4, Zenon

(* No block has been claimed. *)
LEMMA InitInv == Init => StreamInv
<1> SUFFICES ASSUME Init PROVE StreamInv  BY Zenon
<1> USE Sizes
<1>0. 12 % 9 = 3 /\ 0 % 9 = 0
  OBVIOUS
<1>1. Junk \in [0 .. BufSize - 1 -> Nat]
  BY Zenon DEF Junk
<1>2. ReaderType
  BY <1>1, Zenon DEF Init, ReaderType, Header
<1>3. \A r \in Readers : /\ ~HasBlock(r) /\ rpc[r] = "idle"
                         /\ pos[r] = 0 /\ data_in_buf[r] = 0
  <2>1. TAKE r \in Readers
  <2>2. rpc[r] = "idle" /\ pos[r] = 0 /\ data_in_buf[r] = 0
    BY <2>1, Zenon DEF Init
  <2>3. QED  BY <2>2 DEF HasBlock
<1>4. stream_off = 12 /\ ended = {}
  BY Zenon DEF Init, Header
<1>5. \A o \in Records \cup {Torn} : delivered[o] = 0
  BY Zenon DEF Init
<1>6. BlocksBelow /\ BlocksDisjoint /\ BuffersHold
  BY <1>0, <1>3, <1>4 DEF BlocksBelow, BlocksDisjoint, BuffersHold, Header, EdgeSize
<1>7. Returned
  BY <1>4, <1>5 DEF Returned, Torn
<1>8. QED
  BY <1>2, <1>6, <1>7, Zenon DEF StreamInv
-----------------------------------------------------------------------------
(* What the other readers have claimed, hold and owe does not change when  *)
(* only r's part of the state does.                                        *)
OthersKeep(r) ==
  \A q \in Readers \ {r} :
    /\ rpc'[q] = rpc[q] /\ read_off'[q] = read_off[q]
    /\ data_read'[q] = data_read[q] /\ content'[q] = content[q]
    /\ pos'[q] = pos[q] /\ data_in_buf'[q] = data_in_buf[q]
    /\ (q \in ended') <=> (q \in ended)

(* A step of one reader leaves the blocks of the others alone. *)
LEMMA Others ==
  ASSUME NEW r \in Readers, NEW q \in Readers \ {r}, OthersKeep(r)
  PROVE  /\ HasBlock(q)' <=> HasBlock(q)
         /\ BlockLen(q)' = BlockLen(q)
         /\ BlockRead(q)' <=> BlockRead(q)
         /\ \A o : Owes(q, o)' <=> Owes(q, o)
<1>1. HasBlock(q)' <=> HasBlock(q)
  BY Zenon DEF OthersKeep, HasBlock
<1>2. BlockLen(q)' = BlockLen(q)
  BY Zenon DEF OthersKeep, BlockLen
<1>3. BlockRead(q)' <=> BlockRead(q)
  BY <1>2, Zenon DEF OthersKeep, BlockRead
<1>4. \A o : Owes(q, o)' <=> Owes(q, o)
  BY <1>1, <1>2, Zenon DEF OthersKeep, Owes
<1>5. QED  BY <1>1, <1>2, <1>3, <1>4, Zenon

(* A block's length, given where it starts. *)
LEMMA Lengths ==
  ASSUME StreamInv, NEW r \in Readers, HasBlock(r)
  PROVE  /\ BlockLen(r) \in Nat /\ BlockLen(r) >= 9 /\ BlockLen(r) % 9 = 0
         /\ BlockLen(r) <= BufSize /\ read_off[r] + BlockLen(r) <= EndOfFile
         /\ BlockLen(r) = BufSize \/ read_off[r] + BlockLen(r) = EndOfFile
<1> DEFINE o == read_off[r]
<1>1. o \in Nat /\ 12 <= o /\ o < EndOfFile /\ o % 9 = 3
  <2>1. 12 % 9 = 3
    OBVIOUS
  <2>2. QED
    BY <2>1, Zenon DEF StreamInv, ReaderType, BlocksBelow, Header, EdgeSize
<1>2. BlockLen(r) = IF BufSize <= EndOfFile - o THEN BufSize ELSE EndOfFile - o
  BY Zenon DEF BlockLen, Least
<1> HIDE DEF o
<1>3. (EndOfFile - o) % 9 = 0 /\ EndOfFile - o >= 9
  BY <1>1, Sizes
<1>4. QED  BY <1>1, <1>2, <1>3, Sizes DEF o

(* The mod facts that the alignment of blocks and records rests on. *)
LEMMA Aligned ==
  /\ 12 % 9 = 3 /\ 0 % 9 = 0
  /\ \A m, n \in Nat : n % 9 = 0 => (m + n) % 9 = m % 9
OBVIOUS

(* Records are nine bytes apart. *)
LEMMA MultiplesApart ==
  \A m, n \in Nat : m % 9 = 0 /\ n % 9 = 0 /\ m < n => m + 9 <= n
OBVIOUS

(* A claimed block lies above all others. *)
LEMMA ClaimStep ==
  ASSUME StreamInv, Careful, NEW r \in Readers, Claim(r)
  PROVE  StreamInv'
<1>12. data_read' \in [Readers -> Nat] /\ data_in_buf' \in [Readers -> Nat]
  <2>1. data_read' = data_read \/ data_read' = [data_read EXCEPT ![r] = 0]
    BY Zenon DEF AtEnd, Claim, readVars
  <2>2. \/ data_in_buf' = data_in_buf
        \/ data_in_buf' = [data_in_buf EXCEPT ![r] = 0]
    BY Zenon DEF AtEnd, Claim
  <2>3. data_read \in [Readers -> Nat] /\ data_in_buf \in [Readers -> Nat]
    BY Zenon DEF StreamInv, ReaderType
  <2>4. QED  BY <2>1, <2>2, <2>3
<1> USE Sizes
<1>1. r \notin ended /\ rpc[r] = "idle" /\ pos[r] = data_in_buf[r]
  BY Zenon DEF Careful, Claim
<1>2. \A o \in Records : ~Owes(r, o)
  <2>1. HasBlock(r) => pos[r] = BlockLen(r)
    BY <1>1 DEF StreamInv, BuffersHold, HasBlock, ReaderType
  <2>2. QED  BY <1>1, <2>1, Lengths DEF Owes, StreamInv, ReaderType
<1>3. stream_off' = stream_off + BufSize /\ stream_off \in Nat
  BY Zenon DEF AtEnd, Claim, StreamInv, ReaderType
<1>4. delivered' = delivered
  BY Zenon DEF AtEnd, Claim
<1>5. OthersKeep(r)
  BY DEF AtEnd, Claim, OthersKeep, StreamInv, ReaderType, readVars
<1>10. stream_off' >= Header /\ stream_off' % EdgeSize = Header % EdgeSize
  BY <1>3, Aligned DEF StreamInv, BlocksBelow, Header, EdgeSize
<1>11. \A q \in Readers \ {r} : HasBlock(q)' =>
         /\ Header <= read_off'[q] /\ read_off'[q] < EndOfFile
         /\ read_off'[q] % EdgeSize = Header % EdgeSize
         /\ read_off'[q] + BufSize <= stream_off'
  <2>1. TAKE q \in Readers \ {r}
  <2>2. read_off'[q] = read_off[q] /\ read_off[q] \in Nat
    BY <1>5, Zenon DEF OthersKeep, StreamInv, ReaderType
  <2>3. HasBlock(q)' <=> HasBlock(q)
    BY <1>5, Others, Zenon
  <2>4. QED  BY <1>3, <2>2, <2>3 DEF StreamInv, BlocksBelow
<1>6. ReaderType'
  <2>1. stream_off' \in Nat
    BY <1>3
  <2>2. read_off' \in [Readers -> Nat]
    BY <1>3, SMTT(30) DEF AtEnd, Claim, StreamInv, ReaderType, readVars
  <2>3. rpc' \in [Readers -> {"idle", "pread"}] /\ ended' \subseteq Readers
    BY <1>3, Zenon DEF AtEnd, Claim, StreamInv, ReaderType, readVars
  <2>4. QED  BY <1>12, <2>1, <2>2, <2>3, Zenon DEF AtEnd, Claim, StreamInv, ReaderType
<1>7. CASE stream_off >= EndOfFile
  <2>1. ended' = ended \cup {r} /\ rpc' = rpc /\ data_in_buf'[r] = 0
    BY <1>7, Zenon DEF AtEnd, Claim, StreamInv, ReaderType
  <2>2. ~HasBlock(r)' /\ \A o : ~Owes(r, o)'
    BY <1>1, <2>1, Zenon DEF HasBlock, Owes
  <2>3. BlocksBelow'
    BY <1>3, <1>7, <1>10, <1>11, <2>2 DEF BlocksBelow
  <2>4. BlocksDisjoint'
    BY <1>5, <2>2, Others, Zenon DEF StreamInv, BlocksDisjoint, OthersKeep
  <2>5. BuffersHold'
    BY <1>1, <1>5, <2>1, Others, SMTT(30) DEF StreamInv, BuffersHold, OthersKeep
  <2>6. Returned'
    <3>1. \A o \in Records, q \in Readers : Owes(q, o)' <=> Owes(q, o)
      BY <1>2, <1>5, <2>2, Others, Zenon
    <3>2. QED
      BY <1>3, <1>4, <1>7, <3>1 DEF StreamInv, Returned
  <2>7. QED  BY <1>6, <2>3, <2>4, <2>5, <2>6, Zenon DEF StreamInv
<1>8. CASE stream_off < EndOfFile
  <2>1. /\ read_off'[r] = stream_off /\ data_read'[r] = 0 /\ rpc'[r] = "pread"
        /\ ended' = ended
    BY <1>3, <1>8 DEF AtEnd, Claim, StreamInv, ReaderType
  <2>2. HasBlock(r)'
    BY <2>1, Zenon DEF HasBlock
  <2>3. ended = {}
    BY <1>3, <1>8 DEF StreamInv, BlocksBelow
  <2>4. BlocksBelow'
    BY <1>3, <1>8, <1>10, <1>11, <2>1, <2>3 DEF StreamInv, BlocksBelow
  <2>5. BlocksDisjoint'
    BY <1>3, <1>5, <2>1, Others, ZenonT(40)
    DEF StreamInv, ReaderType, BlocksBelow, BlocksDisjoint, OthersKeep
  <2>6. BuffersHold'
    BY <1>1, <1>5, <2>1, Others DEF StreamInv, BuffersHold, OthersKeep
  <2>7. Returned'
    <3>1. \A o \in Records, q \in Readers \ {r} : Owes(q, o)' <=> Owes(q, o)
      BY <1>5, Others, Zenon
    <3>2. \A o \in Records : Owes(r, o)' <=> stream_off <= o /\ o < stream_off'
      BY <1>3, <1>8, <2>1, <2>2 DEF Owes, BlockLen, Least
    <3>3. QED
      BY <1>2, <1>3, <1>4, <3>1, <3>2 DEF StreamInv, Returned
  <2>8. QED  BY <1>6, <2>4, <2>5, <2>6, <2>7, Zenon DEF StreamInv
<1>9. QED  BY <1>3, <1>7, <1>8

(* A pread fills the buffer with the block claimed. *)
LEMMA PreadStep ==
  ASSUME StreamInv, Careful, NEW r \in Readers, Pread(r)
  PROVE  StreamInv'
<1> USE Sizes
<1>1. rpc[r] = "pread" /\ HasBlock(r) /\ r \notin ended
  BY Zenon DEF Pread, HasBlock, StreamInv, BuffersHold
<1>2. read_off[r] \in Nat /\ data_read[r] \in Nat
  BY Zenon DEF StreamInv, ReaderType
<1>3. data_read[r] = 0
  BY <1>1, <1>2, Lengths, Zenon DEF Pread, LoopOver, StreamInv, BuffersHold
<1>4. /\ content' = [content EXCEPT ![r] = Filled(@, read_off[r], BlockLen(r))]
      /\ data_read' = [data_read EXCEPT ![r] = BlockLen(r)]
  <2>1. read_off[r] + data_read[r] = read_off[r]
    BY <1>2, <1>3
  <2>2. PreadReturns(read_off[r]) = {BlockLen(r)}
    BY Zenon DEF Careful, PreadReturns, BlockLen
  <2>3. data_read[r] + BlockLen(r) = BlockLen(r)
    BY <1>1, <1>3, Lengths
  <2>4. QED  BY <2>1, <2>2, <2>3, Zenon DEF Pread
<1>5. /\ UNCHANGED <<stream_off, rpc, read_off, pos, data_in_buf, ended, delivered>>
  BY Zenon DEF Pread
<1>6. OthersKeep(r)
  BY <1>4, <1>5, Zenon DEF OthersKeep, StreamInv, ReaderType
<1>7. /\ BlockLen(r)' = BlockLen(r)
      /\ \A q \in Readers : HasBlock(q)' <=> HasBlock(q)
      /\ \A q \in Readers, o \in Records : Owes(q, o)' <=> Owes(q, o)
  BY <1>5, Zenon DEF HasBlock, Owes, BlockLen
<1>8. ReaderType'
  <2>1. Filled(content[r], read_off[r], BlockLen(r)) \in [0 .. BufSize - 1 -> Nat]
    BY <1>2 DEF Filled, StreamInv, ReaderType
  <2>2. QED
    BY <1>1, <1>4, <1>5, <2>1, Lengths, Zenon DEF StreamInv, ReaderType
<1>9. BlocksBelow' /\ BlocksDisjoint'
  BY <1>5, <1>7, Zenon DEF StreamInv, BlocksBelow, BlocksDisjoint
<1>10. BuffersHold'
  <2>1. content'[r] = Filled(content[r], read_off[r], BlockLen(r))
    BY <1>4, Zenon DEF StreamInv, ReaderType
  <2>2. BlockRead(r)'
    BY <1>1, <1>5, <1>7, <2>1, Lengths DEF BlockRead, Filled
  <2>3. data_read'[r] = BlockLen(r)
    BY <1>4, Zenon DEF StreamInv, ReaderType
  <2>4. QED
    BY <1>1, <1>5, <1>6, <1>7, <2>2, <2>3, Others, SMTT(30)
    DEF StreamInv, BuffersHold, OthersKeep
<1>11. Returned'
  BY <1>5, <1>7, Zenon DEF StreamInv, Returned
<1>12. QED  BY <1>8, <1>9, <1>10, <1>11, Zenon DEF StreamInv

(* get_edge starts at the first record of a new block. *)
LEMMA RefilledStep ==
  ASSUME StreamInv, NEW r \in Readers, Refilled(r)
  PROVE  StreamInv'
<1> USE Sizes
<1>1. rpc[r] = "pread" /\ HasBlock(r) /\ r \notin ended
  BY Zenon DEF Refilled, HasBlock, StreamInv, BuffersHold
<1>2. read_off[r] \in Nat /\ read_off[r] < EndOfFile
  BY <1>1, Zenon DEF StreamInv, ReaderType, BlocksBelow
<1>3. data_read[r] = BlockLen(r) /\ BlockLen(r) > 0 /\ BlockRead(r)
  BY <1>1, <1>2, Lengths, SMTT(30) DEF Refilled, LoopOver, StreamInv, BuffersHold
<1>4. /\ data_in_buf'[r] = BlockLen(r) /\ pos'[r] = 0 /\ rpc'[r] = "idle"
      /\ UNCHANGED <<stream_off, read_off, data_read, content, ended, delivered>>
  BY <1>3, Zenon DEF Refilled, StreamInv, ReaderType, readVars
<1>5. OthersKeep(r)
  BY Zenon DEF Refilled, OthersKeep, StreamInv, ReaderType, readVars
<1>6. /\ BlockLen(r)' = BlockLen(r) /\ HasBlock(r)' /\ BlockRead(r)'
      /\ \A o \in Records : Owes(r, o)' <=> Owes(r, o)
  <2>1. BlockLen(r)' = BlockLen(r)
    BY <1>4, Zenon DEF BlockLen
  <2>2. HasBlock(r)'
    BY <1>1, <1>3, <1>4, Zenon DEF HasBlock
  <2>3. BlockRead(r)'
    BY <1>3, <1>4, <2>1, Zenon DEF BlockRead
  <2>4. \A o \in Records : Owes(r, o)' <=> Owes(r, o)
    BY <1>1, <1>4, <2>1, <2>2, Zenon DEF Owes
  <2>5. QED  BY <2>1, <2>2, <2>3, <2>4, Zenon
<1>7. \A q \in Readers : HasBlock(q)' <=> HasBlock(q)
  BY <1>1, <1>5, <1>6, Others, Zenon
<1>8. ReaderType'
  BY <1>3, Zenon DEF Refilled, StreamInv, ReaderType, readVars
<1>9. BlocksBelow' /\ BlocksDisjoint'
  BY <1>4, <1>7, Zenon DEF StreamInv, BlocksBelow, BlocksDisjoint
<1>10. BuffersHold'
  <2>1. pos'[r] <= data_in_buf'[r] /\ pos'[r] % EdgeSize = 0
    BY <1>1, <1>3, <1>4, Aligned, Lengths DEF EdgeSize
  <2>2. QED
    BY <1>1, <1>4, <1>5, <1>6, <2>1, Others, SMTT(30) DEF StreamInv, BuffersHold, OthersKeep
<1>11. Returned'
  <2>1. \A q \in Readers, o \in Records : Owes(q, o)' <=> Owes(q, o)
    BY <1>5, <1>6, Others, Zenon
  <2>2. QED  BY <1>4, <2>1, Zenon DEF StreamInv, Returned
<1>12. QED  BY <1>8, <1>9, <1>10, <1>11, Zenon DEF StreamInv

(* get_edge delivers one record that was owed. *)
LEMMA GetEdgeStep ==
  ASSUME StreamInv, Careful, NEW r \in Readers, GetEdge(r)
  PROVE  StreamInv'
<1> USE Sizes
<1>1. rpc[r] = "idle" /\ r \notin ended
  BY Zenon DEF Careful, GetEdge
<1>2. read_off[r] \in Nat /\ pos[r] \in Nat /\ data_in_buf[r] \in Nat
  BY Zenon DEF StreamInv, ReaderType
<1> PICK e \in Nat : e = read_off[r] + pos[r]
  BY <1>2
<1>3. HasBlock(r) /\ data_in_buf[r] = BlockLen(r) /\ BlockRead(r)
  BY <1>1, <1>2 DEF GetEdge, HasBlock, StreamInv, BuffersHold
<1>4. pos[r] % 9 = 0 /\ pos[r] + 9 <= BlockLen(r)
  <2>1. pos[r] % 9 = 0 /\ pos[r] <= BlockLen(r) /\ pos[r] # BlockLen(r)
    BY <1>1, <1>3, Zenon DEF GetEdge, StreamInv, BuffersHold, EdgeSize
  <2>2. BlockLen(r) \in Nat /\ BlockLen(r) % 9 = 0
    BY <1>3, Lengths, Zenon
  <2>3. QED  BY <1>2, <2>1, <2>2, MultiplesApart, SMTT(30)
<1>5. 12 <= e /\ e < EndOfFile /\ e % 9 = 3 /\ e < stream_off /\ e \in Nat
  <2>1. 12 <= read_off[r] /\ read_off[r] % 9 = 3 /\ read_off[r] + BufSize <= stream_off
    BY <1>3, Aligned, Zenon DEF StreamInv, BlocksBelow, Header, EdgeSize
  <2>2. stream_off \in Nat
    BY Zenon DEF StreamInv, ReaderType
  <2>3. e % 9 = 3
    BY <1>2, <1>4, <2>1, Aligned, Zenon
  <2>4. QED  BY <1>2, <1>3, <1>4, <2>1, <2>2, <2>3, Lengths
<1>6. e \in Records /\ e # Torn
  BY <1>5 DEF Torn
<1>7. Decode(content[r], pos[r]) = e
  <2>1. IsAt(content[r], pos[r], e)
    <3>1. \A i \in 0 .. 8 : pos[r] + i \in 0 .. BlockLen(r) - 1
      BY <1>2, <1>3, <1>4, Lengths
    <3>2. \A i \in 0 .. 8 : content[r][pos[r] + i] = read_off[r] + (pos[r] + i)
      BY <1>3, <3>1, Zenon DEF BlockRead
    <3>3. pos[r] + 9 <= BufSize
      BY <1>2, <1>3, <1>4, Lengths
    <3>4. QED  BY <1>2, <3>2, <3>3 DEF IsAt, EdgeSize
  <2>2. \A o \in Records : IsAt(content[r], pos[r], o) => o = e
    BY <2>1 DEF IsAt, EdgeSize
  <2>3. QED  BY <1>6, <2>1, <2>2, Zenon DEF Decode
<1>8. /\ delivered' = [delivered EXCEPT ![e] = @ + 1]
      /\ pos' = [pos EXCEPT ![r] = @ + 9]
      /\ UNCHANGED <<stream_off, rpc, read_off, data_read, content,
                     data_in_buf, ended>>
  BY <1>7, Zenon DEF GetEdge, readVars, EdgeSize
<1>9. OthersKeep(r)
  BY <1>8, Zenon DEF OthersKeep, StreamInv, ReaderType
<1>10. pos'[r] = pos[r] + 9
  BY <1>8, Zenon DEF StreamInv, ReaderType
<1>11. /\ \A q \in Readers : HasBlock(q)' <=> HasBlock(q)
       /\ BlockLen(r)' = BlockLen(r) /\ BlockRead(r)'
  BY <1>3, <1>8, Zenon DEF HasBlock, BlockLen, BlockRead
<1>12. ReaderType'
  <2>1. pos' \in [Readers -> Nat]
    BY <1>2, <1>8 DEF StreamInv, ReaderType
  <2>2. delivered' \in [Records \cup {Torn} -> Nat]
    BY <1>6, <1>8, SMTT(30) DEF StreamInv, ReaderType
  <2>3. QED  BY <1>8, <2>1, <2>2, Zenon DEF StreamInv, ReaderType
<1>13. BlocksBelow' /\ BlocksDisjoint'
  BY <1>8, <1>11, Zenon DEF StreamInv, BlocksBelow, BlocksDisjoint
<1>14. BuffersHold'
  <2>1. pos'[r] <= data_in_buf'[r] /\ pos'[r] % EdgeSize = 0
    BY <1>2, <1>3, <1>4, <1>8, <1>10, SMTT(30) DEF EdgeSize
  <2>2. QED
    BY <1>1, <1>3, <1>8, <1>9, <1>11, <2>1, Others, SMTT(30)
    DEF StreamInv, BuffersHold, OthersKeep
<1>15. Returned'
  <2>1. \A q \in Readers \ {r}, o \in Records : Owes(q, o)' <=> Owes(q, o)
    BY <1>9, Others, Zenon
  <2>2. \A o \in Records : Owes(r, o)' <=> Owes(r, o) /\ o # e
    <3>1. \A o \in Records : o \in Nat /\ (e <= o /\ o # e => e + 9 <= o)
      BY <1>5
    <3>2. \A o \in Records : Owes(r, o) <=> e <= o /\ o < read_off[r] + BlockLen(r)
      BY <1>1, <1>3, Zenon DEF Owes
    <3>3. \A o \in Records : Owes(r, o)' <=>
            e + 9 <= o /\ o < read_off[r] + BlockLen(r)
      BY <1>1, <1>2, <1>3, <1>8, <1>10, <1>11, SMTT(30) DEF Owes
    <3>4. QED  BY <1>5, <3>1, <3>2, <3>3
  <2>3. Owes(r, e)
    BY <1>1, <1>2, <1>3, <1>4, Lengths, SMTT(30) DEF Owes
  <2>4. \A q \in Readers \ {r} : ~Owes(q, e)
    <3>1. TAKE q \in Readers \ {r}
    <3>2. CASE HasBlock(q)
      <4>1. \/ read_off[r] + BufSize <= read_off[q]
            \/ read_off[q] + BufSize <= read_off[r]
        BY <1>3, <3>2, Zenon DEF StreamInv, BlocksDisjoint
      <4>2. read_off[q] \in Nat /\ pos[q] \in Nat
        BY Zenon DEF StreamInv, ReaderType
      <4>3. BlockLen(q) \in Nat /\ BlockLen(q) <= BufSize /\ BlockLen(r) <= BufSize
        BY <1>3, <3>2, Lengths, Zenon
      <4>4. QED
        BY <1>2, <1>3, <1>4, <4>1, <4>2, <4>3, Lengths, SMTT(30) DEF Owes
    <3>3. QED  BY <3>2, Zenon DEF Owes
  <2>5. delivered[e] = 0 /\ delivered'[e] = 1
    <3>1. delivered[e] = 0
      BY <1>6, <2>3, Zenon DEF StreamInv, Returned
    <3>2. QED  BY <1>6, <1>8, <3>1 DEF StreamInv, ReaderType
  <2>6. \A o \in Records \cup {Torn} : o # e => delivered'[o] = delivered[o]
    BY <1>8, Zenon DEF StreamInv, ReaderType
  <2>7. \A o \in Records : o # e =>
          ((\A q \in Readers : ~Owes(q, o)') <=> (\A q \in Readers : ~Owes(q, o)))
    BY <2>1, <2>2, Zenon
  <2>8. \A q \in Readers : ~Owes(q, e)'
    BY <1>6, <2>1, <2>2, <2>4, Zenon
  <2>9. QED
    BY <1>5, <1>6, <1>8, <2>5, <2>6, <2>7, <2>8 DEF StreamInv, Returned
<1>16. QED  BY <1>12, <1>13, <1>14, <1>15, Zenon DEF StreamInv

(* Every step keeps the invariant. *)
LEMMA StreamStep == Careful /\ StreamInv /\ [Next]_vars => StreamInv'
<1> SUFFICES ASSUME Careful, StreamInv, [Next]_vars PROVE StreamInv'
  BY Zenon
<1>1. ASSUME NEW r \in Readers, Reader(r) PROVE StreamInv'
  BY <1>1, ClaimStep, PreadStep, RefilledStep, GetEdgeStep, Zenon DEF Reader
<1>2. CASE UNCHANGED mtVars
  BY <1>2 DEF mtVars, readVars, bufVars, StreamInv, ReaderType, BlocksBelow,
              BlocksDisjoint, BuffersHold, Returned, HasBlock, Owes, BlockLen,
              BlockRead
<1>3. QED
  BY <1>1, <1>2, Zenon DEF Next, SeqGetEdge, Finished, vars

(* However many readers share the stream, the blocks they have claimed are *)
(* whole records and disjoint, and a record below stream_off has been      *)
(* returned exactly once unless a reader still owes it.                    *)
THEOREM ReadersShareStream == Careful => (Spec => []StreamInv)
<1> SUFFICES ASSUME Careful PROVE Spec => []StreamInv
  BY Zenon
<1>1. StreamInv /\ [Next]_vars => StreamInv'
  BY StreamStep, Zenon
<1>2. QED  BY <1>1, InitInv, PTL DEF Spec

(* So get_edge returns whole records, and no record twice. *)
THEOREM NoDuplicates == Careful => (Spec => []AtMostOnce)
<1>1. StreamInv => AtMostOnce
  BY DEF StreamInv, Returned, AtMostOnce
<1>2. QED  BY <1>1, ReadersShareStream, PTL

(* When all of them have been told END_OF_FILE, every record of the file   *)
(* has been returned.                                                      *)
THEOREM AllDelivered == Careful => (Spec => []NothingLost)
<1>1. StreamInv => NothingLost
  <2> SUFFICES ASSUME StreamInv, ended = Readers, NEW o \in Records
               PROVE  delivered[o] = 1
    BY Zenon DEF NothingLost
  <2>1. stream_off \in Nat /\ stream_off >= EndOfFile /\ o < EndOfFile /\ o \in Nat
    BY StreamAssumption, Sizes, SMTT(30) DEF StreamInv, ReaderType, BlocksBelow
  <2>2. \A r \in Readers : ~Owes(r, o)
    BY Zenon DEF StreamInv, BuffersHold, Owes, HasBlock
  <2>3. QED  BY <2>1, <2>2, Sizes DEF StreamInv, Returned
<1>2. QED  BY <1>1, ReadersShareStream, PTL
-----------------------------------------------------------------------------
(* The constructor reads the first block. *)
LEMMA SeqInit == Init => SeqInv
<1> SUFFICES ASSUME Init PROVE SeqInv  BY Zenon
<1>1. calls = 0 /\ seq_pos = 0 /\ BlockStart = 12
  BY DEF Init, BlockStart, Header, EdgeSize
<1>2. file_pos = Least(BlockStart + BufSize, EndOfFile)
  BY <1>1, Sizes DEF Init, Least, Header
<1>3. Junk \in [0 .. BufSize - 1 -> Nat]
  BY Zenon DEF Junk
<1>4. /\ seq_content \in [0 .. BufSize - 1 -> Nat]
      /\ \A i \in 0 .. BufSize - 1 :
           BlockStart + i < EndOfFile => seq_content[i] = BlockStart + i
  BY <1>1, <1>3, Sizes DEF Init, Filled, Least, Header
<1>5. QED
  BY <1>1, <1>2, <1>4, Sizes, Aligned, StreamAssumption
  DEF SeqInv, FileOrder, EdgeSize

(* The sequential reader keeps its invariant. *)
LEMMA SeqStep == SeqInv /\ [Next]_vars => SeqInv'
<1> SUFFICES ASSUME SeqInv, [Next]_vars PROVE SeqInv'  BY Zenon
<1>1. CASE UNCHANGED seqVars
  BY <1>1, Zenon DEF seqVars, SeqInv, BlockStart, FileOrder
<1>2. CASE SeqGetEdge
  <2> USE Sizes DEF EdgeSize, Header
  <2> PICK e \in Nat : e = 12 + calls * 9
    BY DEF SeqInv
  <2>1. /\ calls \in Nat /\ calls < NumEdges /\ NumEdges \in Nat
        /\ calls' = calls + 1
    BY <1>2, StreamAssumption, SMTT(30) DEF SeqGetEdge, SeqInv
  <2>2. seq_pos \in Nat /\ seq_pos % 9 = 0 /\ seq_pos + 9 <= BufSize
    <3>1. seq_pos \in Nat /\ seq_pos % 9 = 0 /\ seq_pos < BufSize
      BY DEF SeqInv
    <3> HIDE DEF EdgeSize, Header
    <3>2. BufSize \in Nat /\ BufSize % 9 = 0
      BY Sizes, Zenon
    <3> QED  BY ONLY <3>1, <3>2, MultiplesApart, Zenon
  <2>3. e + 9 <= EndOfFile /\ e \in Records
    BY <2>1 DEF EndOfFile
  <2>4. BlockStart = e - seq_pos /\ seq_pos <= e - 12
    BY DEF BlockStart, SeqInv
  <2>5. Decode(seq_content, seq_pos) = e
    <3>1. IsAt(seq_content, seq_pos, e)
      <4>1. \A i \in 0 .. 8 : /\ seq_pos + i \in 0 .. BufSize - 1
                             /\ BlockStart + (seq_pos + i) = e + i
                             /\ e + i < EndOfFile
        BY <2>2, <2>3, <2>4
      <4>2. \A i \in 0 .. 8 : seq_content[seq_pos + i] = e + i
        BY <4>1, Zenon DEF SeqInv
      <4>3. QED  BY <2>2, <4>2 DEF IsAt
    <3>2. \A o \in Records : IsAt(seq_content, seq_pos, o) => o = e
      BY <3>1 DEF IsAt
    <3>3. QED  BY <2>3, <3>1, <3>2, Zenon DEF Decode
  <2>6. FileOrder'
    BY <1>2, <2>1, <2>5 DEF SeqGetEdge, FileOrder
  <2>7. calls' \in 0 .. NumEdges
    BY <2>1
  <2>8. CASE seq_pos + 9 = BufSize
    <3>1. seq_pos' = 0 /\ BlockStart' = e + 9
      BY <1>2, <2>1, <2>8 DEF SeqGetEdge, UsedUp, BlockStart
    <3>2. file_pos = e + 9
      BY <2>2, <2>3, <2>4, <2>8 DEF SeqInv, Least
    <3>3. /\ seq_content' = Filled(seq_content, e + 9, Least(BufSize, EndOfFile - (e + 9)))
          /\ file_pos' = e + 9 + Least(BufSize, EndOfFile - (e + 9))
      BY <1>2, <2>8, <3>2, Zenon DEF SeqGetEdge, UsedUp
    <3>4. file_pos' = Least(BlockStart' + BufSize, EndOfFile)
      BY <2>3, <3>1, <3>3 DEF Least
    <3>5. /\ seq_content' \in [0 .. BufSize - 1 -> Nat]
          /\ \A i \in 0 .. BufSize - 1 :
               BlockStart' + i < EndOfFile => seq_content'[i] = BlockStart' + i
      BY <2>3, <3>1, <3>3 DEF SeqInv, Filled, Least
    <3>6. QED
      BY <2>1, <2>6, <2>7, <3>1, <3>4, <3>5, Aligned, SMTT(30) DEF SeqInv
  <2>9. CASE seq_pos + 9 # BufSize
    <3>1. seq_pos' = seq_pos + 9 /\ UNCHANGED <<seq_content, file_pos>>
      BY <1>2, <2>9, Zenon DEF SeqGetEdge, UsedUp
    <3>2. BlockStart' = BlockStart
      BY <2>1, <2>2, <3>1 DEF BlockStart
    <3>3. seq_pos' \in 0 .. BufSize - 1 /\ seq_pos' % 9 = 0
      BY <2>2, <2>9, <3>1
    <3>4. seq_pos' <= calls' * 9
      BY <2>1, <2>2, <3>1 DEF SeqInv
    <3>5. QED
      BY <2>6, <2>7, <3>1, <3>2, <3>3, <3>4, Zenon DEF SeqInv
  <2>10. QED  BY <2>8, <2>9, Zenon
<1>3. QED
  BY <1>1, <1>2, Zenon DEF Next, Reader, Claim, Pread, Refilled, GetEdge, Finished, vars

(* The buffer of a single-threaded reader holds the file from the block    *)
(* that file_pos is at the end of, whatever its size.                      *)
THEOREM SequentialBuffer == Spec => []SeqInv
  BY SeqInit, SeqStep, PTL DEF Spec

(* So it returns the records of the file in order. *)
THEOREM SequentialOrder == Spec => []FileOrder
<1>1. SeqInv => FileOrder
  BY Zenon DEF SeqInv
<1>2. QED  BY <1>1, SequentialBuffer, PTL
=============================================================================
