------------------------------ MODULE OutFile ------------------------------
(***************************************************************************)
(* out_file_posix: a FILE and the buffer given to it, opened, reopened,    *)
(* closed, moved and destroyed, while the system may refuse any of it.     *)
(***************************************************************************)
EXTENDS FiniteSets, Integers, Sequences

CONSTANTS
  Objects,      \* the out_file_posix objects
  FileHandles,  \* the FILEs the system has
  Buffers,      \* the pieces of memory the resource has
  BufferSizes,  \* the sizes open() is asked for
  MaxBuffer,    \* the largest it asks for, 2147483647 in the code
  Null,
  MaxWrites     \* bound

MinBuffer == 2   \* open() asks for no less

ASSUME OutFileAssumption ==
  /\ Null \notin Buffers \cup FileHandles
  /\ BufferSizes \subseteq Nat /\ MaxBuffer \in Nat /\ MinBuffer <= MaxBuffer

VARIABLES
  object,   \* handle_, buffer_, buffer_size_ and whether memory_resource_ is set
  streams,  \* the open FILEs: the buffer they were given and what is in it
  memory,   \* the buffers that are allocated, with their sizes
  disk,     \* what the file holds
  wrote     \* what has been written since the file was made empty

fileVars == <<object, streams, memory, disk, wrote>>

NoFile(resource)  == [handle |-> Null, buffer |-> Null, size |-> 0, resource |-> resource]
Closed            == [open |-> FALSE, buffer |-> Null, pending |-> <<>>]
Opened(buffer)    == [open |-> TRUE, buffer |-> buffer, pending |-> <<>>]

FileInit ==
  /\ object = [f \in Objects |-> NoFile(TRUE)]
  /\ streams = [h \in FileHandles |-> Closed] /\ memory = [b \in Buffers |-> 0]
  /\ disk = <<>> /\ wrote = <<>>

-----------------------------------------------------------------------------
\* The C library.  A FILE that is closed writes what it holds; a buffer that
\* was freed before holds nothing anyone knows.
Lost == <<0>>   \* writes are numbered from one
Flushed(h) ==
  LET s == streams[h] IN
  IF s.pending # <<>> /\ s.buffer # Null /\ memory[s.buffer] = 0 THEN Lost ELSE s.pending

\* deallocate_buffer() of an object o in memory m
Freed(m, o)     == IF o.buffer = Null THEN m ELSE [m EXCEPT ![o.buffer] = 0]
Unbuffered(o)   == [o EXCEPT !.buffer = Null, !.size = 0]

\* The size of the buffer a size asks for.
Clamp(size) == IF size = 1 THEN MinBuffer ELSE IF size > MaxBuffer THEN MaxBuffer ELSE size

\* A bug: the memory is freed but the object keeps its size, so that the next
\* open() takes the buffer for one it can use again.
FreshBufferStale(o, m, size) ==
  {<<IF b = Null THEN [o EXCEPT !.buffer = Null] ELSE [o EXCEPT !.buffer = b, !.size = size],
     IF b = Null THEN Freed(m, o) ELSE [Freed(m, o) EXCEPT ![b] = size]>> :
     b \in {Null} \cup (IF o.resource THEN {c \in Buffers : Freed(m, o)[c] = 0} ELSE {})}

\* What allocating another buffer leaves of o and m: no buffer if it fails.
FreshBuffer(o, m, size) ==
  {<<IF b = Null THEN Unbuffered(o) ELSE [Unbuffered(o) EXCEPT !.buffer = b, !.size = size],
     IF b = Null THEN Freed(m, o) ELSE [Freed(m, o) EXCEPT ![b] = size]>> :
     b \in {Null} \cup (IF o.resource THEN {c \in Buffers : Freed(m, o)[c] = 0} ELSE {})}

\* The buffer open() has for its FILE: the one there is if it has that size.
WithBuffer(o, m, size) ==
  CASE size = o.size               -> {<<o, m>>}
    [] size # o.size /\ size = 0   -> {<<Unbuffered(o), Freed(m, o)>>}
    [] size # o.size /\ size # 0   -> FreshBuffer(o, m, size)

-----------------------------------------------------------------------------
\* open() of an object that is not open, with a path that can be: fails without
\* memory, without a FILE, or when setvbuf() fails.
Open(f, truncate, size) ==
  /\ object[f].handle = Null /\ \A g \in Objects : object[g].handle = Null
  /\ \E result \in WithBuffer(object[f], memory, Clamp(size)) :
       LET o == result[1] IN
       /\ memory' = result[2]
       /\ \/ \* alloc_fail or path_bad
             /\ object' = [object EXCEPT ![f] = o] /\ UNCHANGED <<streams, disk, wrote>>
          \/ /\ o.size = Clamp(size)
             /\ disk' = IF truncate THEN <<>> ELSE disk
             /\ wrote' = IF truncate THEN <<>> ELSE wrote
             /\ \/ \* extern_err
                   /\ object' = [object EXCEPT ![f] = o] /\ UNCHANGED streams
                \/ \E h \in FileHandles :
                     /\ ~streams[h].open /\ streams' = [streams EXCEPT ![h] = Opened(o.buffer)]
                     /\ object' = [object EXCEPT ![f] = [o EXCEPT !.handle = h]]

\* A bug: the buffer is given up before the old FILE has written from it.
TryReopenEarly(f) ==
  /\ object[f].handle # Null
  /\ \E h \in FileHandles :
       LET old == object[f].handle IN
       /\ ~streams[h].open
       /\ streams' = [streams EXCEPT ![h] = Opened(Null), ![old] = Closed]
       /\ object' = [object EXCEPT ![f] = [Unbuffered(@) EXCEPT !.handle = h]]
       /\ memory' = Freed(memory, object[f])
       /\ disk' = disk \o (IF object[f].buffer # Null /\ streams[old].pending # <<>> THEN Lost
                           ELSE streams[old].pending)
  /\ UNCHANGED wrote

\* try_reopen(): the file is opened to append before the old FILE is closed; a
\* FILE that does not take the buffer has none.
TryReopen(f) ==
  /\ object[f].handle # Null
  /\ \E h \in FileHandles :
       LET old == object[f].handle IN
       /\ ~streams[h].open
       /\ disk' = disk \o Flushed(old)
       /\ \/ /\ streams' = [streams EXCEPT ![h] = Opened(object[f].buffer), ![old] = Closed]
             /\ object' = [object EXCEPT ![f].handle = h] /\ UNCHANGED memory
          \/ /\ streams' = [streams EXCEPT ![h] = Opened(Null), ![old] = Closed]
             /\ object' = [object EXCEPT ![f] = [Unbuffered(@) EXCEPT !.handle = h]]
             /\ memory' = Freed(memory, object[f])
  /\ UNCHANGED wrote

\* What is on the disk and open after close() of f
CloseOf(f) ==
  IF object[f].handle = Null THEN UNCHANGED <<disk, streams>>
  ELSE /\ disk' = disk \o Flushed(object[f].handle)
       /\ streams' = [streams EXCEPT ![object[f].handle] = Closed]

\* close(): the buffer is kept for the next open().
Close(f) ==
  /\ CloseOf(f) /\ object' = [object EXCEPT ![f].handle = Null]
  /\ UNCHANGED <<memory, wrote>>

FlushFile(f) ==
  /\ object[f].handle # Null
  /\ disk' = disk \o Flushed(object[f].handle)
  /\ streams' = [streams EXCEPT ![object[f].handle].pending = <<>>]
  /\ UNCHANGED <<object, memory, wrote>>

\* write(): into the buffer, unless there is none or it is full.
Write(f) ==
  LET h == object[f].handle
      m == Len(wrote) + 1
  IN  /\ h # Null /\ Len(wrote) < MaxWrites
      /\ wrote' = Append(wrote, m)
      /\ \/ /\ streams[h].buffer # Null /\ UNCHANGED disk
            /\ streams' = [streams EXCEPT ![h].pending = Append(@, m)]
         \/ /\ disk' = Append(disk \o Flushed(h), m)
            /\ streams' = [streams EXCEPT ![h].pending = <<>>]
      /\ UNCHANGED <<object, memory>>

\* A bug: what f had is overwritten.
MoveOver(f, g) ==
  /\ f # g
  /\ object' = [object EXCEPT ![f] = object[g], ![g] = NoFile(FALSE)]
  /\ UNCHANGED <<streams, memory, disk, wrote>>

\* The move assignment f = g
Move(f, g) ==
  /\ f # g
  /\ CloseOf(f) /\ memory' = Freed(memory, object[f])
  /\ object' = [object EXCEPT ![f] = object[g], ![g] = NoFile(FALSE)]
  /\ UNCHANGED wrote

\* The destructor, and another object in its place
DestroyFile(f) ==
  /\ CloseOf(f) /\ memory' = Freed(memory, object[f])
  /\ object' = [object EXCEPT ![f] = NoFile(TRUE)]
  /\ UNCHANGED wrote

FileNext ==
  \E f \in Objects :
    \/ \E truncate \in BOOLEAN, size \in BufferSizes : Open(f, truncate, size)
    \/ TryReopen(f) \/ Close(f) \/ FlushFile(f) \/ Write(f) \/ DestroyFile(f)
    \/ \E g \in Objects : Move(f, g)

-----------------------------------------------------------------------------
\* Every FILE and every buffer belongs to one object, which knows the size of
\* the buffer, and no FILE outlives the buffer it writes into.
FilesOwned ==
  /\ \A h \in FileHandles : streams[h].open <=> \E f \in Objects : object[f].handle = h
  /\ \A b \in Buffers :
       IF memory[b] = 0 THEN \A f \in Objects : object[f].buffer # b
       ELSE Cardinality({f \in Objects : object[f].buffer = b /\ object[f].size = memory[b]}) = 1
  /\ \A h \in FileHandles : streams[h].buffer # Null => memory[streams[h].buffer] # 0
  /\ \A f \in Objects : object[f].size = 0 <=> object[f].buffer = Null

\* What was written is in the file or in the buffer of the FILE, once and in
\* order, whatever was closed, opened, moved or refused since.
WritesKept ==
  LET pending == {h \in FileHandles : streams[h].pending # <<>>} IN
  IF pending = {} THEN disk = wrote
  ELSE \E h \in pending : pending = {h} /\ disk \o streams[h].pending = wrote

\* A file is what was written to it, through memory that is there: the two above.
FileIsIntact == FilesOwned /\ WritesKept
=============================================================================
