------------------------------- MODULE Files -------------------------------
(***************************************************************************)
(* The read-only file system and the descriptors of one process:           *)
(* read_dentry_by_name and read_data over the blocks of the image, and     *)
(* sys_open, sys_read and sys_close with the operations of regular files   *)
(* and of the directory.  Writing to either returns -1 and changes         *)
(* nothing; the terminal and the rtc have their own modules.               *)
(***************************************************************************)
EXTENDS Integers, Sequences, FiniteSetsExt

CONSTANTS
  BYTES_PER_BLOCK,  \* 4096
  MAX_OPEN_FILES,   \* 8
  NUM_DENTRY_NAME,  \* 32, what a name of the directory has room for
  UINT32,           \* what a negative count wraps around at
  Dentry,           \* the boot block: a sequence of [name, type, inode], the
                    \* unused entries at its end having the empty name
  Inode,            \* the inodes, from 0: [length, data_block], the latter a
                    \* sequence that is 0 beyond the blocks of the file
  Data,             \* the data blocks, from 1: sequences of bytes
  Opens,            \* names that programs open, sequences of characters
  Counts            \* the nbytes that programs pass to read

ASSUME FilesAssumption ==
  /\ BYTES_PER_BLOCK \in Nat \ {0}
  /\ MAX_OPEN_FILES \in Nat /\ MAX_OPEN_FILES > 2
  /\ NUM_DENTRY_NAME \in Nat \ {0}
  /\ UINT32 \in Nat
  /\ \A n \in Counts : n \in Int /\ n + UINT32 >= 0

NoName == <<>>

\* The image as it was made: names fill the directory from the front and
\* leave an entry; files have inodes; the blocks of a file are data blocks,
\* and a 0 follows them.
ASSUME ImageAssumption ==
  /\ Dentry = [d \in 1 .. Len(Dentry) |->
                 [name |-> Dentry[d].name, type |-> Dentry[d].type,
                  inode |-> Dentry[d].inode]]
  /\ Len(Dentry) \in Nat
  /\ \E n \in 0 .. Len(Dentry) - 1 :
       \A d \in DOMAIN Dentry : Dentry[d].name = NoName <=> d > n
  /\ \A d \in DOMAIN Dentry :
       /\ Len(Dentry[d].name) <= NUM_DENTRY_NAME
       /\ Dentry[d].type \in {"rtc", "dir", "file"}
       /\ Dentry[d].inode \in DOMAIN Inode
  /\ 0 \in DOMAIN Inode
  /\ \A i \in DOMAIN Inode :
       /\ Inode[i].length \in Nat
       /\ \A k \in 0 .. Inode[i].length \div BYTES_PER_BLOCK :
            IF k * BYTES_PER_BLOCK < Inode[i].length
              THEN Inode[i].data_block[k + 1] \in DOMAIN Data \ {0}
              ELSE Inode[i].data_block[k + 1] = 0
  /\ \A b \in DOMAIN Data :
       Data[b] = [k \in 1 .. BYTES_PER_BLOCK |-> Data[b][k]]

VARIABLES
  file_array,      \* per descriptor: its type ("close" when closed), inode
                   \* and file_position
  got,             \* history: per descriptor, what was read since the open,
                   \* the bytes of a file or the entries of the directory
  last             \* history: the last read of a regular file

vars == <<file_array, got, last>>

Fd == 0 .. MAX_OPEN_FILES - 1
Opened == 2 .. MAX_OPEN_FILES - 1
Terminal == <<"terminal">>
NoRead == [inode |-> 0, at |-> 0, asked |-> 0, bytes |-> <<>>]

\* stdin and stdout, as sys_execute leaves them
Init ==
  /\ file_array = [fd \in Fd |->
       [type |-> IF fd < 2 THEN "term" ELSE "close", inode |-> 0,
        file_position |-> 0]]
  /\ got = [fd \in Fd |-> <<>>]
  /\ last = NoRead

(***************************************************************************)
(* fs.c                                                                    *)
(***************************************************************************)

First(s, n) == SubSeq(s, 1, Min({n, Len(s)}))

\* The first entry of that name, if one comes before the first empty one.
\* strncmp looks at 32 characters, so what a longer name goes on with does
\* not matter.
Matches(name, d) ==
  LET compared == First(name, NUM_DENTRY_NAME)
  IN /\ Dentry[d].name = compared
     /\ \A e \in 1 .. d - 1 : Dentry[e].name \notin {compared, NoName}

read_dentry_by_name(name) ==
  IF name = NoName THEN {} ELSE {d \in DOMAIN Dentry : Matches(name, d)}

Unsigned(nbytes) == IF nbytes < 0 THEN nbytes + UINT32 ELSE nbytes

\* (mutants: the first block is read from its start; a block too few)
FirstByteAtStart(offset, i) == 1
BlocksRoundedDown(length) == length \div BYTES_PER_BLOCK

\* where block i of the loop is read from
FirstByte(offset, i) == IF i = 1 THEN (offset % BYTES_PER_BLOCK) + 1 ELSE 1

\* num_blocks_left
Blocks(length) == (length \div BYTES_PER_BLOCK) + 1

\* Block i of the loop, after what was copied `before': the buffer, and
\* whether the function has returned.
CopyBlock(in, offset, length, before, i) ==
  LET block == in.data_block[(offset \div BYTES_PER_BLOCK) + i]
      bytes == SubSeq(Data[block], FirstByte(offset, i), BYTES_PER_BLOCK)
      room == length - Len(before.buf)
  IN IF before.returned \/ block = 0
       THEN [buf |-> before.buf, returned |-> TRUE]
       ELSE [buf |-> before.buf \o First(bytes, room),
             returned |-> Len(bytes) > room]

\* the loop over the blocks
Copied(in, offset, length) ==
  LET After[i \in 0 .. Blocks(length)] ==
        IF i = 0 THEN [buf |-> <<>>, returned |-> FALSE]
        ELSE CopyBlock(in, offset, length, After[i - 1], i)
  IN After

CopyBlocks(in, offset, length) ==
  Copied(in, offset, length)[Blocks(length)].buf

\* What read_data copies into the buffer; its two errors, an inode that does
\* not exist and an offset beyond the end, cannot come from a descriptor.
read_data(inode, offset, length) ==
  LET in == Inode[inode]
      left == in.length - offset
  IN IF left = 0 \/ length = 0 THEN <<>>
     ELSE CopyBlocks(in, offset, Min({left, length}))

(***************************************************************************)
(* System calls                                                            *)
(***************************************************************************)

\* the first closed descriptor from 2 on
FreeDescriptor(fd) ==
  /\ file_array[fd].type = "close"
  /\ \A e \in 2 .. fd - 1 : file_array[e].type # "close"

\* no descriptor or no such file: -1, nothing changes
sys_open(name) ==
  \E fd \in Opened, d \in read_dentry_by_name(name) :
    LET type == IF First(name, Len(Terminal)) = Terminal THEN "term"
                ELSE Dentry[d].type
    IN
    /\ FreeDescriptor(fd)
    /\ file_array' = [file_array EXCEPT ![fd] =
         [type |-> type,
          inode |-> IF type = "file" THEN Dentry[d].inode ELSE 0,
          file_position |-> 0]]
    /\ got' = [got EXCEPT ![fd] = <<>>]
    /\ UNCHANGED last

sys_close(fd) ==
  /\ file_array[fd].type # "close"
  /\ file_array' = [file_array EXCEPT ![fd].type = "close"]
  /\ got' = [got EXCEPT ![fd] = <<>>]
  /\ UNCHANGED last

\* (mutant: advances by what was asked for)
AdvanceByAsked(fd, nbytes, bytes) ==
  file_array' = [file_array EXCEPT ![fd].file_position = @ + Unsigned(nbytes)]

\* file_position += ret_val
AdvancePosition(fd, nbytes, bytes) ==
  file_array' = [file_array EXCEPT ![fd].file_position = @ + Len(bytes)]

reg_file_read(fd, nbytes) ==
  LET f == file_array[fd]
      bytes == read_data(f.inode, f.file_position, Unsigned(nbytes))
  IN
  /\ f.type = "file"
  /\ AdvancePosition(fd, nbytes, bytes)
  /\ got' = [got EXCEPT ![fd] = @ \o bytes]
  /\ last' = [inode |-> f.inode, at |-> f.file_position,
              asked |-> Unsigned(nbytes), bytes |-> bytes]

\* An empty name is the end: 0 is returned and the position kept.  The
\* history keeps which entry was read; the caller's buffer has the first
\* nbytes characters of it, however few they are, and the rest of the name is
\* not delivered by a later read.  (Given a negative count strncpy would pad
\* the buffer through all of memory; no program passes one.)
dir_read(fd, nbytes) ==
  LET position == file_array[fd].file_position
      name == Dentry[position + 1].name
  IN
  /\ file_array[fd].type = "dir"
  /\ nbytes > 0 /\ name # NoName
  /\ file_array' = [file_array EXCEPT ![fd].file_position = position + 1]
  /\ got' = [got EXCEPT ![fd] = Append(@, name)]
  /\ UNCHANGED last

Next ==
  \/ \E name \in Opens : sys_open(name)
  \/ \E fd \in Opened :
       \/ sys_close(fd)
       \/ \E nbytes \in Counts : reg_file_read(fd, nbytes)
       \/ \E nbytes \in Counts : dir_read(fd, nbytes)

Spec == Init /\ [][Next]_vars

-----------------------------------------------------------------------------
(***************************************************************************)
(* Properties                                                              *)
(***************************************************************************)

\* the bytes of a file: byte k of the file is a byte of its block
\* k / BYTES_PER_BLOCK, both counted from 0
Content ==
  [i \in DOMAIN Inode |->
     [k \in 1 .. Inode[i].length |->
        LET block == Inode[i].data_block[((k - 1) \div BYTES_PER_BLOCK) + 1]
        IN Data[block][((k - 1) % BYTES_PER_BLOCK) + 1]]]

\* what the directory lists: the names up to the first empty one
Named ==
  CHOOSE n \in 0 .. Len(Dentry) - 1 :
    \A d \in DOMAIN Dentry : Dentry[d].name = NoName <=> d > n

Listing == [d \in 1 .. Named |-> Dentry[d].name]

\* Descriptors keep a type, an inode of the image and a position in the file
\* or the directory.
TypeOK ==
  /\ DOMAIN file_array = Fd
  /\ \A fd \in Fd :
       LET f == file_array[fd]
       IN /\ f.type \in {"close", "term", "rtc", "file", "dir"}
          /\ f.inode \in DOMAIN Inode
          /\ f.file_position \in Nat
          /\ f.type = "file" => f.file_position <= Inode[f.inode].length
          /\ f.type = "dir" => f.file_position <= Len(Listing)

\* A read of at least one byte returns 0 only at the end of the file, so a
\* loop like the one of cat, which stops at 0, misses nothing: the loop over
\* the blocks may come up short but not empty.
EmptyMeansEnd ==
  last.asked # 0 /\ last.bytes = <<>> => last.at = Inode[last.inode].length

\* Read from its start with a buffer at least as long, a file that can be
\* opened is delivered whole by one call, such as the one sys_execute makes
\* for the program image.
WholeImageAtOnce ==
  \A fd \in Opened :
    LET i == file_array[fd].inode
    IN file_array[fd].type = "file" =>
         \A more \in {0, BYTES_PER_BLOCK} :
           read_data(i, 0, Inode[i].length + more) = Content[i]

\* the stream behind a descriptor; terminal and rtc are not files
SourceOf(f) ==
  CASE f.type = "close" -> <<>>
    [] f.type = "file" -> <<Content[f.inode]>>
    [] f.type = "dir" -> <<Listing>>
    [] OTHER -> << <<>> >>

AllSources == {<<>>, Listing} \cup {Content[i] : i \in DOMAIN Inode}

Streamed ==
  INSTANCE Streams
    WITH Fds <- Opened, Sources <- AllSources,
         source <- [fd \in Opened |-> SourceOf(file_array[fd])],
         delivered <- [fd \in Opened |-> got[fd]]

\* The file system implements the streams of module Streams: however a
\* program cuts its reads, whatever else it opens, reads and closes
\* meanwhile, a descriptor of sys_open delivers the bytes of its file (the
\* entries of the directory) from the first on, none skipped, none repeated,
\* and no descriptor that is in use is handed out.
ImplementsStreams == Streamed!Spec

\* fs.c:61 says that read_data "reads data of length bytes from the file
\* referred to by inode starting from offset": less only where the file ends.
ReadsLength ==
  LET left == Inode[last.inode].length - last.at
  IN Len(last.bytes) = Min({last.asked, left})
=============================================================================
