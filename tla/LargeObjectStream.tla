-------------------------- MODULE LargeObjectStream --------------------------
(***************************************************************************)
(* largeobject_streambuf, the buffer between a standard stream and a large *)
(* object, next to the stream it should be: one sequence of bytes with one *)
(* position, as for any file.                                              *)
(*                                                                         *)
(* Positions count the bytes before them.                                  *)
(***************************************************************************)
EXTENDS Integers, Sequences, SequencesExt

CONSTANTS
    Bytes,
    Start,          \* what the large object holds at first
    BufSize,        \* m_bufsize
    MaxLength,      \* of the object, the bound of the model
    Modes,          \* a subset of {"in", "out"}: ilostream, olostream
    Seeks           \* the program seeks

LargeObjectStreamAssumption ==
    /\ Start \in Seq(Bytes)
    /\ BufSize \in Nat \ {0} /\ MaxLength \in Nat
    /\ Modes \subseteq {"in", "out"}
    /\ Seeks \in BOOLEAN

VARIABLES
    mode,
    obj, pos,       \* the large object and the position of its descriptor
    get, gptr,      \* the get area, and how much of it has been read
    put,            \* the put area
    data, at,       \* the file that the stream stands for, and the position in it
    last,           \* the last byte read, with what it should have been
    state           \* "good", "bad" after a failed write, "closed"

vars == <<mode, obj, pos, get, gptr, put, data, at, last, state>>

Eof == "eof"

Init ==
    /\ mode \in Modes
    /\ obj = Start /\ pos = 0 /\ get = <<>> /\ gptr = 0 /\ put = <<>>
    /\ data = Start /\ at = 0
    /\ last = [got |-> Eof, want |-> Eof]
    /\ state = "good"

Reads == mode = "in"
Writes == mode = "out"

\* lo_write: overwrites, and appends at the end.
Overwrite(seq, p, bytes) ==
    SubSeq(seq, 1, p) \o bytes \o SubSeq(seq, p + Len(bytes) + 1, Len(seq))

-----------------------------------------------------------------------------
(* Writing.                                                                *)

\* overflow() that leaves the byte out.
overflow_Drops(c) ==
    \/ /\ obj' = Overwrite(obj, pos, put) /\ pos' = pos + Len(put)
       /\ put' = <<>>
       /\ UNCHANGED state
    \/ /\ put # <<>>
       /\ state' = "bad"
       /\ UNCHANGED <<obj, pos, put>>

\* The put area goes out; c is the byte that had no room in it.
overflow(c) ==
    \/ /\ obj' = Overwrite(obj, pos, put) /\ pos' = pos + Len(put)
       /\ put' = c
       /\ UNCHANGED state
    \/ /\ put # <<>>
       /\ state' = "bad"
       /\ UNCHANGED <<obj, pos, put>>

Put(b) ==
    /\ state = "good" /\ Writes /\ at < MaxLength
    /\ IF Len(put) < BufSize
       THEN put' = Append(put, b) /\ UNCHANGED <<obj, pos, state>>
       ELSE overflow(<<b>>)
    /\ data' = Overwrite(data, at, <<b>>) /\ at' = at + 1
    /\ UNCHANGED <<mode, get, gptr, last>>

\* sync() starts the get area over, and without a put area it fails.
Sync ==
    /\ state = "good"
    /\ gptr' = 0
    /\ IF Writes THEN overflow(<<>>) ELSE state' = "bad" /\ UNCHANGED <<obj, pos, put>>
    /\ UNCHANGED <<mode, get, data, at, last>>

\* The destructors of the streams that write.
Close ==
    /\ state = "good"
    /\ IF Writes
       THEN \/ /\ obj' = Overwrite(obj, pos, put) /\ pos' = pos + Len(put)
               /\ put' = <<>> /\ state' = "closed"
            \/ /\ put # <<>>
               /\ state' = "bad"
               /\ UNCHANGED <<obj, pos, put>>
       ELSE state' = "closed" /\ UNCHANGED <<obj, pos, put>>
    /\ UNCHANGED <<mode, get, gptr, data, at, last>>

-----------------------------------------------------------------------------
(* Reading and seeking.                                                    *)

\* underflow() that counts on a full area.
underflow_Skips == SubSeq(obj, pos + 2, Min({pos + BufSize, Len(obj)}))

\* The next bytes of the object, at most m_bufsize.
underflow == SubSeq(obj, pos + 1, Min({pos + BufSize, Len(obj)}))

Get ==
    LET fresh == gptr = Len(get)
        bytes == IF fresh THEN underflow ELSE get
        next  == IF fresh THEN 1 ELSE gptr + 1
    IN  /\ state = "good" /\ Reads
        /\ get' = bytes
        /\ gptr' = IF next <= Len(bytes) THEN next ELSE Len(bytes)
        /\ pos' = IF fresh THEN pos + Len(bytes) ELSE pos
        /\ last' = [got |-> IF next <= Len(bytes) THEN bytes[next] ELSE Eof,
                    want |-> IF at < Len(data) THEN data[at + 1] ELSE Eof]
        /\ at' = IF at < Len(data) THEN at + 1 ELSE at
        /\ UNCHANGED <<mode, obj, put, data, state>>

\* seekoff() and seekpos() move the descriptor and nothing else.
Seek(p) ==
    /\ state = "good" /\ Seeks /\ p <= Len(obj)
    /\ pos' = p /\ at' = p
    /\ UNCHANGED <<mode, obj, get, gptr, put, data, last, state>>

Next ==
    \/ \E b \in Bytes : Put(b)
    \/ Sync
    \/ Close
    \/ Get
    \/ \E p \in 0 .. MaxLength : Seek(p)

Spec == Init /\ [][Next]_vars

-----------------------------------------------------------------------------
(* Properties.                                                             *)

\* Once a stream is closed without an error, the object holds what was written
\* to it, byte for byte.
WrittenExact == state = "closed" => obj = data

\* What is read is what the file has at the stream's position.
ReadExact == last.got = last.want
=============================================================================
