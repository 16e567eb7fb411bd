---------------------------- MODULE LargeObject ----------------------------
(***************************************************************************)
(* pqxx::blob and pqxx::largeobjectaccess: client objects that hold the    *)
(* number of a descriptor which the server keeps for the length of a       *)
(* transaction, and the functions that create, fill, read and remove large *)
(* objects in one call.                                                    *)
(*                                                                         *)
(* Every successful open has a token of its own; a descriptor is the token *)
(* it was opened with.  Of contents and buffers only lengths are kept.     *)
(***************************************************************************)
EXTENDS Integers, FiniteSets, FiniteSetsExt

CONSTANTS
    Blobs,          \* storage for blob and largeobjectaccess objects
    Oids,           \* a set of positive numbers
    MaxOpens,       \* opens per behaviour, the bound of the model
    MaxSize,        \* of large objects and buffers
    Outlives,       \* client objects may outlive their transaction
    HugeAnyId,      \* from_buf() with too much data and no id
    ReadFails       \* lo_read may fail where opening and seeking did not

LargeObjectAssumption ==
    /\ Oids \subseteq Nat \ {0}
    /\ {MaxOpens, MaxSize} \subseteq Nat
    /\ {Outlives, HugeAnyId, ReadFails} \subseteq BOOLEAN

VARIABLES
    tx,         \* "none", "open" or "failed"
    size,       \* the large objects of this transaction
    stored,     \* the ones at its start
    known,      \* the objects that a call has told the program of, or removed
    fds,        \* the server's descriptors
    blob,       \* the client objects; kind is "none" outside their life
    opens,      \* tokens used up
    buf,        \* the program's buffer: before and after append_to_buf() last read
    stray       \* a client object used a descriptor that another one opened

vars == <<tx, size, stored, known, fds, blob, opens, buf, stray>>

NoBlob == [kind |-> "none", conn |-> FALSE, fd |-> -1, token |-> 0]
Free(table) == CHOOSE f \in 0 .. MaxOpens : f \notin DOMAIN table /\ \A g \in 0 .. f - 1 : g \in DOMAIN table
Without(f, S) == [x \in DOMAIN f \ S |-> f[x]]
With(f, x, v) == [y \in DOMAIN f \cup {x} |-> IF y = x THEN v ELSE f[y]]
Empty == [x \in {} |-> 0]

Init ==
    /\ tx = "none"
    /\ size = Empty /\ stored = Empty /\ known = {}
    /\ fds = Empty
    /\ blob = [b \in Blobs |-> NoBlob]
    /\ opens = 0
    /\ buf = [was |-> 0, is |-> 0, asked |-> 0, threw |-> FALSE]
    /\ stray = FALSE

-----------------------------------------------------------------------------
(* Descriptors.                                                            *)

\* A use of the descriptor that a client object holds.
Uses(b) == stray' = (stray \/ (tx = "open" /\ blob[b].fd \in DOMAIN fds /\ fds[blob[b].fd] # blob[b].token))

Shuts(b) == IF tx = "open" THEN Without(fds, {blob[b].fd}) ELSE fds

open_internal(b, kind, o) ==
    /\ tx # "none" /\ blob[b].kind = "none" /\ opens < MaxOpens
    /\ IF tx = "open" /\ o \in DOMAIN size
       THEN /\ fds' = With(fds, Free(fds), opens + 1)
            /\ blob' = [blob EXCEPT ![b] = [kind |-> kind, conn |-> TRUE, fd |-> Free(fds),
                                            token |-> opens + 1]]
            /\ opens' = opens + 1
            /\ UNCHANGED tx
       ELSE tx' = "failed" /\ UNCHANGED <<fds, blob, opens>>
    /\ UNCHANGED <<size, stored, known, buf, stray>>

MoveConstruct(b, c) ==
    /\ blob[b].kind = "none" /\ blob[c].kind = "blob"
    /\ blob' = [blob EXCEPT ![b] = blob[c], ![c] = [NoBlob EXCEPT !.kind = "blob"]]
    /\ UNCHANGED <<tx, size, stored, known, fds, opens, buf, stray>>

\* open_r(), open_w() and open_rw(), and the largeobjectaccess constructors.
Open(b, o) == open_internal(b, "blob", o)
OpenAccess(b, o) == open_internal(b, "access", o)

\* Assignment that forgets what the target had open.
MoveAssign_Leaks(b, c) ==
    /\ b # c /\ blob[b].kind = "blob" /\ blob[c].kind = "blob"
    /\ blob' = [blob EXCEPT ![b] = blob[c], ![c] = [NoBlob EXCEPT !.kind = "blob"]]
    /\ UNCHANGED <<tx, size, stored, known, fds, opens, buf, stray>>

MoveAssign(b, c) ==
    /\ b # c /\ blob[b].kind = "blob" /\ blob[c].kind = "blob"
    /\ IF blob[b].fd # -1 THEN fds' = Shuts(b) /\ Uses(b) ELSE UNCHANGED <<fds, stray>>
    /\ blob' = [blob EXCEPT ![b] = blob[c], ![c] = [NoBlob EXCEPT !.kind = "blob"]]
    /\ UNCHANGED <<tx, size, stored, known, opens, buf>>

\* close() that keeps the number.
Close_KeepsNumber(b) ==
    /\ blob[b].kind = "blob"
    /\ IF blob[b].fd # -1 THEN fds' = Shuts(b) /\ Uses(b) ELSE UNCHANGED <<fds, stray>>
    /\ blob' = [blob EXCEPT ![b].conn = FALSE]
    /\ UNCHANGED <<tx, size, stored, known, opens, buf>>

\* close(), whatever lo_close says.
Close(b) ==
    /\ blob[b].kind = "blob"
    /\ IF blob[b].fd # -1 THEN fds' = Shuts(b) /\ Uses(b) ELSE UNCHANGED <<fds, stray>>
    /\ blob' = [blob EXCEPT ![b] = [NoBlob EXCEPT !.kind = "blob"]]
    /\ UNCHANGED <<tx, size, stored, known, opens, buf>>

Destroyed(b) ==
    /\ IF blob[b].fd # -1 THEN fds' = Shuts(b) /\ Uses(b) ELSE UNCHANGED <<fds, stray>>
    /\ blob' = [blob EXCEPT ![b] = NoBlob]
    /\ UNCHANGED <<tx, size, stored, known, opens, buf>>

\* The destructors; that of a largeobjectaccess needs its transaction.
Destroy(b) == blob[b].kind = "blob" /\ Destroyed(b)
DestroyAccess(b) == blob[b].kind = "access" /\ tx # "none" /\ Destroyed(b)

\* An error from the server fails the block.
Calls(b) ==
    /\ Uses(b)
    /\ tx' = IF tx = "open" /\ blob[b].fd \notin DOMAIN fds THEN "failed" ELSE tx
    /\ UNCHANGED <<size, stored, known, fds, blob, opens, buf>>

\* raw_read(), raw_write(), resize(), tell() and seek(), which throw on a
\* closed blob; and read(), write(), seek() and tell() of a largeobjectaccess.
Use(b) == blob[b].kind = "blob" /\ blob[b].conn /\ Calls(b)
UseAccess(b) == blob[b].kind = "access" /\ tx # "none" /\ Calls(b)

-----------------------------------------------------------------------------
(* Whole objects.                                                          *)

\* The ids that lo_create may give; 0 asks for any.
Fresh(id) == {o \in Oids \ DOMAIN size : id = 0 \/ o = id}

Refused == tx' = "failed" /\ UNCHANGED <<size, known>>

create(id) ==
    /\ tx # "none"
    /\ \/ \E o \in Fresh(id) :
             /\ tx = "open"
             /\ size' = With(size, o, 0) /\ known' = known \cup {o}
             /\ UNCHANGED tx
       \/ Refused
    /\ UNCHANGED <<stored, fds, blob, opens, buf, stray>>

remove(o) ==
    /\ tx # "none"
    /\ \/ tx = "open" /\ o \in DOMAIN size
          /\ size' = Without(size, {o}) /\ known' = known \ {o}
          /\ UNCHANGED tx
       \/ Refused
    /\ UNCHANGED <<stored, fds, blob, opens, buf, stray>>

\* from_buf() that leaves an object behind when it cannot be filled.
from_buf_NoCleanup(id, n) ==
    /\ tx # "none"
    /\ n > MaxSize /\ id = 0 => HugeAnyId
    /\ \/ \E o \in Fresh(id) :
             /\ tx = "open"
             /\ size' = With(size, o, IF n > MaxSize THEN 0 ELSE n)
             /\ known' = IF n > MaxSize THEN known ELSE known \cup {o}
             /\ UNCHANGED tx
       \/ Refused
    /\ UNCHANGED <<stored, fds, blob, opens, buf, stray>>

\* More than MaxSize bytes stands for more than chunk_limit, which raw_write()
\* refuses; the cleanup asks for the id that the caller gave.
from_buf(id, n) ==
    /\ tx # "none"
    /\ n > MaxSize /\ id = 0 => HugeAnyId
    /\ \/ \E o \in Fresh(id) :
             /\ tx = "open"
             /\ size' = CASE n <= MaxSize -> With(size, o, n)
                          [] n > MaxSize /\ id = 0 -> With(size, o, 0)
                          [] OTHER -> size
             /\ known' = IF n > MaxSize THEN known ELSE known \cup {o}
             /\ UNCHANGED tx
       \/ Refused
    /\ UNCHANGED <<stored, fds, blob, opens, buf, stray>>

from_file(id, n) ==
    /\ tx # "none" /\ n <= MaxSize
    /\ \/ \E o \in Fresh(id) :
             /\ tx = "open"
             /\ size' = With(size, o, n) /\ known' = known \cup {o}
             /\ UNCHANGED tx
       \/ Refused
    /\ UNCHANGED <<stored, fds, blob, opens, buf, stray>>

\* to_buf() and to_file().
ReadWhole(o) ==
    /\ tx # "none" /\ (tx = "failed" \/ o \notin DOMAIN size)
    /\ Refused
    /\ UNCHANGED <<stored, fds, blob, opens, buf, stray>>

append_from_buf(o, n) ==
    /\ tx # "none" /\ n <= MaxSize
    /\ \/ tx = "open" /\ o \in DOMAIN size /\ size[o] + n <= MaxSize
          /\ size' = [size EXCEPT ![o] = @ + n]
          /\ UNCHANGED <<tx, known>>
       \/ Refused
    /\ UNCHANGED <<stored, fds, blob, opens, buf, stray>>

\* append_to_buf() that forgets to cut the buffer to what was read.
append_to_buf_Padded(o, offset, most) ==
    /\ tx = "open" /\ o \in DOMAIN size
    /\ buf' = [was |-> buf.is, is |-> buf.is + most, asked |-> Max({0, Min({most, size[o] - offset})}), threw |-> FALSE]
    /\ buf.is + most <= MaxSize
    /\ UNCHANGED <<tx, size, stored, known, fds, blob, opens, stray>>

\* A failed lo_read is -1, and as a size_t it is added to the buffer's size:
\* one byte is lost, or resize() throws where there is none to lose.  The
\* buffer is not touched when the object cannot be opened or positioned.
append_to_buf(o, offset, most) ==
    /\ tx # "none"
    /\ \/ /\ tx = "open" /\ o \in DOMAIN size
          /\ LET chunk == Max({0, Min({most, size[o] - offset})})
             IN  /\ buf.is + chunk <= MaxSize
                 /\ buf' = [was |-> buf.is, is |-> buf.is + chunk, asked |-> chunk,
                            threw |-> FALSE]
          /\ UNCHANGED tx
       \/ /\ ReadFails /\ tx = "open" /\ o \in DOMAIN size
          /\ buf' = [was |-> buf.is, is |-> Max({0, buf.is - 1}), asked |-> 0,
                     threw |-> buf.is = 0]
          /\ tx' = "failed"
       \/ tx' = "failed" /\ UNCHANGED buf
    /\ UNCHANGED <<size, stored, known, fds, blob, opens, stray>>

\* The same with a largeobject, whose id the server always chooses.
Create == create(0)
Import(n) == from_file(0, n)
Remove(o) == remove(o)

-----------------------------------------------------------------------------
Begin ==
    /\ tx = "none"
    /\ tx' = "open" /\ stored' = size
    /\ UNCHANGED <<size, known, fds, blob, opens, buf, stray>>

\* The server closes all descriptors; the client objects keep their numbers.
End(commit) ==
    /\ tx # "none"
    /\ \A b \in Blobs : ~Outlives \/ blob[b].kind = "access" => blob[b].fd = -1
    /\ LET done == commit /\ tx = "open"
       IN  /\ size' = IF done THEN size ELSE stored
           /\ known' = IF done THEN known ELSE DOMAIN stored
    /\ tx' = "none" /\ fds' = Empty
    /\ UNCHANGED <<stored, blob, opens, buf, stray>>

Next ==
    \/ \E b \in Blobs, o \in Oids : Open(b, o)
    \/ \E b \in Blobs, o \in Oids : OpenAccess(b, o)
    \/ \E b, c \in Blobs : MoveConstruct(b, c)
    \/ \E b, c \in Blobs : MoveAssign(b, c)
    \/ \E b \in Blobs : Close(b)
    \/ \E b \in Blobs : Destroy(b)
    \/ \E b \in Blobs : DestroyAccess(b)
    \/ \E b \in Blobs : Use(b)
    \/ \E b \in Blobs : UseAccess(b)
    \/ Create
    \/ \E n \in 1 .. MaxSize : Import(n)
    \/ \E o \in Oids : Remove(o)
    \/ \E id \in Oids \cup {0} : create(id)
    \/ \E o \in Oids : remove(o)
    \/ \E id \in Oids \cup {0}, n \in 1 .. MaxSize + 1 : from_buf(id, n)
    \/ \E id \in Oids \cup {0}, n \in 1 .. MaxSize : from_file(id, n)
    \/ \E o \in Oids : ReadWhole(o)
    \/ \E o \in Oids, n \in 1 .. MaxSize : append_from_buf(o, n)
    \/ \E o \in Oids, offset \in 0 .. MaxSize, most \in 1 .. MaxSize : append_to_buf(o, offset, most)
    \/ Begin
    \/ \E commit \in BOOLEAN : End(commit)

Spec == Init /\ [][Next]_vars

-----------------------------------------------------------------------------
(* Properties.                                                             *)

\* What a client object reads, writes or closes is what it has opened itself,
\* never a descriptor with the same number: close() "only terminates your
\* local object for accessing the blob".
OwnDescriptor == ~stray

\* Each descriptor of a good transaction belongs to exactly one client object:
\* moving blobs around neither leaks nor shares them.
DescriptorsOwned ==
    tx = "open" => \A f \in DOMAIN fds : Cardinality({b \in Blobs : blob[b].fd = f /\ blob[b].token = fds[f]}) = 1

\* The large objects are those that some call has reported: one that fails
\* leaves nothing behind.
NoLeftovers == DOMAIN size = known

\* append_to_buf() adds to the buffer exactly what it read.
BufferExact == ~buf.threw => buf.is = buf.was + buf.asked
=============================================================================
