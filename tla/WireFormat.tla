----------------------------- MODULE WireFormat -----------------------------
(* The buffers of the CG stream.  A value is written as the bytes of its     *)
(* type, without a tag; what can be skipped is a block: an identifier, a     *)
(* length and a body.  Integers and floating point numbers of n bytes stand  *)
(* as those n bytes, lowest first; only lengths are read as numbers.         *)
(*                                                                           *)
(* A type is a record: pod(size), arrays of fixed size, vectors (strings are *)
(* vectors of characters), sets, maps, and classes with their members.       *)
EXTENDS Integers, SequencesExt, TLC

Pod(size) == [is |-> "pod", size |-> size]
Char == Pod(1)
Bool == Pod(1)
UInt8 == Pod(1)
Int16 == Pod(2)
UInt16 == Pod(2)
UInt32 == Pod(4)
Enum == Pod(4)
UInt64 == Pod(8)
Int64 == Pod(8)
Float == Pod(4)
Double == Pod(8)

Array(type, size) == [is |-> "array", of |-> type, size |-> size]
Vector(type) == [is |-> "vector", of |-> type]
String == Vector(Char)
Set(type) == [is |-> "set", of |-> type]
Map(key, value) == [is |-> "map", key |-> key, of |-> value]
Class(members) == [is |-> "class", members |-> members]

-----------------------------------------------------------------------------
(* Writing *)

UInt32Bytes(n) == <<n % 256, (n \div 256) % 256, (n \div 65536) % 256, n \div 16777216>>
NumberOf(bytes) == bytes[1] + 256 * bytes[2] + 65536 * bytes[3] + 16777216 * bytes[4]

\* Sets and maps are written in the order of their keys: any order will do, as
\* they are read back into sets and maps.
Listing(set) == FoldSet(LAMBDA x, seq : Append(seq, x), <<>>, set)

RECURSIVE WriteValue(_, _)
WriteValue(type, value) ==
    CASE type.is = "pod" -> value
      [] type.is = "array" -> FlattenSeq([i \in DOMAIN value |-> WriteValue(type.of, value[i])])
      [] type.is = "vector" ->
           UInt32Bytes(Len(value)) \o
           FlattenSeq([i \in DOMAIN value |-> WriteValue(type.of, value[i])])
      [] type.is = "set" ->
           LET all == Listing(value)
           IN UInt32Bytes(Len(all)) \o
              FlattenSeq([i \in DOMAIN all |-> WriteValue(type.of, all[i])])
      [] type.is = "map" ->
           LET keys == Listing(DOMAIN value)
           IN UInt32Bytes(Len(keys)) \o
              FlattenSeq([i \in DOMAIN keys |-> WriteValue(type.key, keys[i]) \o
                                                WriteValue(type.of, value[keys[i]])])
      [] type.is = "class" ->
           FlattenSeq([i \in DOMAIN type.members |-> WriteValue(type.members[i], value[i])])

\* VScopedWriter: the length is filled in when the body is written.
Block(enum, body) == UInt32Bytes(enum) \o UInt32Bytes(Len(body)) \o body

-----------------------------------------------------------------------------
(* Reading from an offset.  Nothing but the end of the buffer stops a read.  *)

ReadNothing(offset) == [ok |-> FALSE, value |-> <<>>, offset |-> offset]

ReadPod(size, buffer, offset) ==
    IF offset + size > Len(buffer) THEN ReadNothing(offset)
    ELSE [ok |-> TRUE, value |-> SubSeq(buffer, offset + 1, offset + size), offset |-> offset + size]

ReadPodArray(size, n, buffer, offset) ==
    IF n > (Len(buffer) - offset) \div size THEN ReadNothing(offset)
    ELSE [ ok |-> TRUE, offset |-> offset + size * n,
           value |-> [i \in 1 .. n |-> SubSeq(buffer, offset + size * (i - 1) + 1, offset + size * i)] ]

RECURSIVE ReadValue(_, _, _)
RECURSIVE ReadMembers(_, _, _, _)
RECURSIVE ReadCount(_, _, _, _)

\* Values of the given types, one after another.
ReadMembers(types, done, buffer, offset) ==
    IF Len(done) = Len(types) THEN [ok |-> TRUE, value |-> done, offset |-> offset]
    ELSE LET next == ReadValue(types[Len(done) + 1], buffer, offset)
         IN IF next.ok THEN ReadMembers(types, Append(done, next.value), buffer, next.offset)
            ELSE next

\* A vector, a set or a map, with its count in front.
ReadCount(type, n, done, buffer) ==
    IF n = 0 THEN done
    ELSE LET next == ReadValue(type, buffer, done.offset)
         IN IF next.ok
            THEN ReadCount(type, n - 1, [next EXCEPT !.value = Append(done.value, @)], buffer)
            ELSE next

\* The sum of offset and length is taken exactly.  The code adds the length of a
\* string in 32 bits (BufferDetail.h:191), and a sum of 2^32 or more would pass
\* the check; the packets here are far shorter, and so are the lengths in them.
ReadCounted(type, buffer, offset) ==
    LET n == ReadPod(4, buffer, offset)
    IN IF ~n.ok THEN n
       ELSE IF type.is = "pod" THEN ReadPodArray(type.size, NumberOf(n.value), buffer, n.offset)
       ELSE ReadCount(type, NumberOf(n.value), [n EXCEPT !.value = <<>>], buffer)

ReadValue(type, buffer, offset) ==
    CASE type.is = "pod" -> ReadPod(type.size, buffer, offset)
      [] type.is = "array" /\ type.of.is = "pod" ->
           ReadPodArray(type.of.size, type.size, buffer, offset)
      [] type.is = "array" /\ type.of.is # "pod" ->
           ReadMembers([i \in 1 .. type.size |-> type.of], <<>>, buffer, offset)
      [] type.is = "vector" -> ReadCounted(type.of, buffer, offset)
      [] type.is = "set" ->
           LET all == ReadCounted(type.of, buffer, offset)
           IN IF all.ok THEN [all EXCEPT !.value = {@[i] : i \in DOMAIN @}] ELSE all
      [] type.is = "map" ->
           LET all == ReadCounted(Class(<<type.key, type.of>>), buffer, offset)
               keys == {all.value[i][1] : i \in DOMAIN all.value}
           IN IF all.ok
              THEN [all EXCEPT !.value = [k \in keys |->
                       @[CHOOSE i \in DOMAIN @ : @[i][1] = k /\ \A j \in 1 .. i - 1 : @[j][1] # k][2]]]
              ELSE all
      [] type.is = "class" -> ReadMembers(type.members, <<>>, buffer, offset)

\* VScopedReader: the head of a block; without one it starts and ends at 0.
ReadHead(buffer, offset) ==
    LET enum == ReadPod(4, buffer, offset)
        size == ReadPod(4, buffer, enum.offset)
    IN IF ~enum.ok THEN [enum |-> 0, start |-> 0, end |-> 0, offset |-> enum.offset]
       ELSE IF ~size.ok
            THEN [enum |-> NumberOf(enum.value), start |-> 0, end |-> 0, offset |-> size.offset]
       ELSE [enum |-> NumberOf(enum.value), start |-> size.offset,
             end |-> size.offset + NumberOf(size.value), offset |-> size.offset]

BlockOk(head, offset) == head.start <= offset /\ offset < head.end

\* Variant for mutation testing: the reader goes on behind what was read.
LeaveBlock_NoSkip(head, offset) == offset

\* The destructor: to the end of the block, unless it is empty.
LeaveBlock(head, offset) == IF head.start < head.end THEN head.end ELSE offset
=============================================================================
