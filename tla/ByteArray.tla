------------------------------ MODULE ByteArray ------------------------------
(* CMByteArray of kv_store: strings that share a buffer until one of them       *)
(* changes.  ref is the text each would have if nothing were shared; careless   *)
(* becomes TRUE with the first call that the code does not carry out (what it   *)
(* leaves is mostly not described, and no call follows):                        *)
(*   - insert before the end, unless the text is as long as what lies behind;   *)
(*   - a part of the array itself inserted in front of its own end, or when the *)
(*     array has to grow: it is read from a buffer that is gone, or written on; *)
(*   - find, also in split, of a text that begins like the bytes from some      *)
(*     place to the end of the buffer: the comparison goes on behind it;        *)
(*   - remove of fewer bytes than lie behind them (memcpy on overlapping bytes);*)
(*   - a write through operator[], which does not detach a shared buffer;       *)
(*   - reserve, which keeps the size at 0.                                      *)
(* Texts may hold a 0, like the buffers behind their size, but are not empty:   *)
(* split by an empty text does not end.                                         *)
EXTENDS SequenceHelpers, FiniteSets

CONSTANTS
  Arrays, Chars, Texts,
  Nul,                  \* the byte 0
  Null,
  _defInitcapacity,
  MaxLength             \* bound on the texts the callers build

VARIABLES
  bytes,    \* bytes[a]: [_data, _size, _capacity]
  buffers,  \* buffers[b]: the bytes of buffer b, for every buffer that is owned
  ref, careless,
  ub        \* a byte outside of its buffer, or of one that was freed, was touched

byteVars == <<bytes, buffers, ref, careless, ub>>

Zeroed(s, n) == [i \in 1 .. n |-> IF i \in DOMAIN s THEN s[i] ELSE Nul]
Fresh == CHOOSE b \in 1 .. Cardinality(Arrays) + 1 : b \notin DOMAIN buffers

BytesInit ==
  LET name == CHOOSE f \in [Arrays -> 1 .. Cardinality(Arrays)] :
                \A a, b \in Arrays : f[a] = f[b] => a = b
  IN  /\ bytes = [a \in Arrays |-> [_data |-> name[a], _size |-> 0, _capacity |-> _defInitcapacity]]
      /\ buffers = [b \in 1 .. Cardinality(Arrays) |-> Zeroed(<<>>, _defInitcapacity)]
      /\ ref = [a \in Arrays |-> <<>>] /\ careless = FALSE /\ ub = FALSE

Callable == ~careless /\ ~ub
Text(a) == IF bytes[a]._data = Null THEN <<>> ELSE SubSeq(buffers[bytes[a]._data], 1, bytes[a]._size)
unique(a) == bytes[a]._data # Null /\ \A b \in Arrays \ {a} : bytes[b]._data # bytes[a]._data

\* a owns buffer b with bytes s; shared_ptr frees every buffer without an owner.
Hold(a, b, s, size, capacity) ==
  /\ bytes' = [bytes EXCEPT ![a] = [_data |-> b, _size |-> size, _capacity |-> capacity]]
  /\ LET owned == {bytes'[x]._data : x \in Arrays} \ {Null} IN
       buffers' = [x \in owned |-> IF x = b THEN s ELSE buffers[x]]

resetBuffer(a, size, capacity) ==
  Hold(a, Fresh, Zeroed(SubSeq(Text(a), 1, size), capacity), size, capacity)

\* Construction from a text.
construct(a, text, spare) ==
  /\ Callable
  /\ Hold(a, Fresh, Zeroed(text, Len(text) + spare), Len(text), Len(text) + spare)
  /\ ref' = [ref EXCEPT ![a] = text]
  /\ UNCHANGED <<careless, ub>>

\* A char* ends at its first 0; the array has no byte to spare for that 0.
fromString(a, text) == Nul \notin ToSet(text) /\ construct(a, text, 0)
fromBytes(a, text) == construct(a, text, 1)

\* Copies share the buffer.
assign(a, b) ==
  /\ Callable /\ a # b
  /\ Hold(a, bytes[b]._data, IF bytes[b]._data = Null THEN <<>> ELSE buffers[bytes[b]._data],
          bytes[b]._size, bytes[b]._capacity)
  /\ ref' = [ref EXCEPT ![a] = ref[b]]
  /\ UNCHANGED <<careless, ub>>

\* The same buffer, and b is left without one.
move(a, b) ==
  /\ Callable /\ a # b
  /\ bytes' = [bytes EXCEPT ![a] = bytes[b], ![b] = [_data |-> Null, _size |-> 0, _capacity |-> 0]]
  /\ buffers' = [x \in {bytes'[y]._data : y \in Arrays} \ {Null} |-> buffers[x]]
  /\ ref' = [ref EXCEPT ![a] = ref[b], ![b] = <<>>]
  /\ UNCHANGED <<careless, ub>>

\* insertElement puts what lies behind pos at the end, whatever the length of
\* text.  from: where text begins in the array itself, or -1 for another text; it
\* is read after the buffer was replaced, and freed if nobody else has it.
insertElement(a, pos, text, from) ==
  LET size == bytes[a]._size
      len == Len(text)
      grows == size + len > bytes[a]._capacity
      capacity == IF grows THEN ((bytes[a]._capacity + len) * 3) \div 2 ELSE bytes[a]._capacity
      fresh == grows \/ ~unique(a)
      behind == size - pos
      lost == from # -1 /\ len > 0 /\ unique(a) /\ (grows \/ from + len > pos)
      old == IF fresh THEN Zeroed(Text(a), capacity) ELSE buffers[bytes[a]._data]
      moved == [i \in DOMAIN old |-> IF i \in size + 1 .. size + behind THEN old[i - behind] ELSE old[i]]
      new == [i \in DOMAIN old |-> IF i \in pos + 1 .. pos + len THEN text[i - pos] ELSE moved[i]]
  IN  /\ Callable /\ pos <= size /\ size + len <= MaxLength
      /\ careless' = (behind \notin {0, len} \/ lost)
      /\ ub' = (size + behind > capacity \/ lost)
      /\ IF careless' THEN UNCHANGED <<bytes, buffers, ref>>
         ELSE /\ Hold(a, IF fresh THEN Fresh ELSE bytes[a]._data, new, size + len, capacity)
              /\ ref' = [ref EXCEPT ![a] = SubSeq(@, 1, pos) \o text \o SubSeq(@, pos + 1, size)]

insert(a, pos, text) == insertElement(a, pos, text, -1)
append(a, text) == insert(a, bytes[a]._size, text)
prepend(a, text) == insert(a, 0, text)
appendArray(a, b) == insertElement(a, bytes[a]._size, Text(b), IF a = b THEN 0 ELSE -1)

\* insert(pos, data() + from, len)
insertPart(a, pos, from, len) ==
  from + len <= bytes[a]._size /\ insertElement(a, pos, SubSeq(Text(a), from + 1, from + len), from)

\* Mutant: the bytes are removed from a buffer that others share.
removeShared(a, pos, count) ==
  /\ Callable /\ pos <= bytes[a]._size
  /\ LET left == SubSeq(Text(a), 1, pos) \o SubSeq(Text(a), pos + count + 1, bytes[a]._size)
     IN  Hold(a, bytes[a]._data, Zeroed(left, bytes[a]._capacity), Len(left), bytes[a]._capacity)
  /\ ref' = [ref EXCEPT ![a] = SubSeq(@, 1, pos) \o SubSeq(@, pos + count + 1, Len(@))]
  /\ UNCHANGED <<careless, ub>>

reomveElement(a, pos, count) ==
  /\ Callable /\ pos <= bytes[a]._size
  /\ LET size == bytes[a]._size
         len == IF size - pos < count THEN size - pos ELSE count
         left == SubSeq(Text(a), 1, pos) \o SubSeq(Text(a), pos + len + 1, size)
     IN  /\ Hold(a, IF unique(a) THEN bytes[a]._data ELSE Fresh, Zeroed(left, bytes[a]._capacity),
                 Len(left), bytes[a]._capacity)
         /\ careless' = (len # 0 /\ size - pos - len > len)
         /\ ub' = careless'
  /\ ref' = [ref EXCEPT ![a] = SubSeq(@, 1, pos) \o SubSeq(@, pos + count + 1, Len(@))]

detach(a) ==
  /\ Callable /\ ~unique(a)
  /\ resetBuffer(a, bytes[a]._size, bytes[a]._capacity)
  /\ UNCHANGED <<ref, careless, ub>>

squeeze(a) ==
  /\ Callable
  /\ resetBuffer(a, bytes[a]._size, bytes[a]._size)
  /\ UNCHANGED <<ref, careless, ub>>

clear(a) ==
  /\ Callable
  /\ resetBuffer(a, 0, _defInitcapacity)
  /\ ref' = [ref EXCEPT ![a] = <<>>]
  /\ UNCHANGED <<careless, ub>>

reserve(a, capacity) ==
  /\ Callable
  /\ resetBuffer(a, 0, capacity)
  /\ careless' = (bytes[a]._size > 0)
  /\ UNCHANGED <<ref, ub>>

\* operator[] used to write.
write(a, pos, c) ==
  /\ Callable /\ pos < bytes[a]._size
  /\ buffers' = [buffers EXCEPT ![bytes[a]._data][pos + 1] = c]
  /\ ref' = [ref EXCEPT ![a][pos + 1] = c]
  /\ careless' = ~unique(a)
  /\ UNCHANGED <<bytes, ub>>

\* find compares with the bytes of the buffer, those behind the size as well.
Matches(a, i, value) ==
  \A j \in DOMAIN value :
    i + j \in DOMAIN buffers[bytes[a]._data] /\ buffers[bytes[a]._data][i + j] = value[j]
find(a, value, start) ==
  LET hits == {i \in start .. bytes[a]._size - 1 : Matches(a, i, value)}
  IN  IF hits = {} THEN -1 ELSE Min(hits)

\* It goes on behind the buffer where the rest of the buffer is the beginning of
\* value; what it returns then is not known.  In front of a match it does not.
overreads(a, value, start) ==
  /\ find(a, value, start) = -1
  /\ \E i \in start .. bytes[a]._size - 1 :
       LET rest == SubSeq(buffers[bytes[a]._data], i + 1, bytes[a]._capacity)
       IN  Len(rest) < Len(value) /\ IsPrefix(rest, value)

\* A call of find changes nothing; split calls it behind each field.
search(a, value, start) ==
  /\ Callable
  /\ careless' = overreads(a, value, start) /\ ub' = careless'
  /\ UNCHANGED <<bytes, buffers, ref>>

\* The fields in front of a separator; what follows the last one is dropped.
split(a, value) ==
  LET from[n \in 0 .. bytes[a]._size + 1] ==
        IF n = 0 THEN [pos |-> 0, fields |-> <<>>]
        ELSE LET f == from[n - 1]
                 i == find(a, value, f.pos)
             IN  IF i = -1 THEN f
                 ELSE [pos |-> i + Len(value),
                       fields |-> Append(f.fields, SubSeq(Text(a), f.pos + 1, i))]
  IN  from[bytes[a]._size + 1]

BytesNext ==
  \E a \in Arrays :
    \/ \E t \in Texts : fromString(a, t) \/ fromBytes(a, t)
    \/ \E b \in Arrays : assign(a, b) \/ move(a, b) \/ appendArray(a, b)
    \/ \E t \in Texts : append(a, t) \/ prepend(a, t)
    \/ \E t \in Texts, pos \in 0 .. MaxLength : insert(a, pos, t) \/ search(a, t, pos)
    \/ \E pos, from, len \in 0 .. MaxLength : insertPart(a, pos, from, len)
    \/ \E pos, len \in 0 .. MaxLength : reomveElement(a, pos, len)
    \/ detach(a) \/ squeeze(a) \/ clear(a) \/ (\E n \in 0 .. 1 : reserve(a, n))
    \/ \E pos \in 0 .. MaxLength, c \in Chars : write(a, pos, c)

---------------------------------------------------------------------------
\* No array sees what is done to another one it shares a buffer with.  find and
\* split, where they do not read behind the buffer, tell the truth about the text
\* with the zeros behind it, and about the text alone if value does not end in 0.
BytesAsReference ==
  ~careless => \A a \in Arrays :
    /\ Text(a) = ref[a]
    /\ \A t \in Texts :
         LET padded == Zeroed(ref[a], bytes[a]._capacity)
             first == find(a, t, 0)
             s == split(a, t)
         IN  ~overreads(a, t, s.pos) =>
               /\ first # -1 => first < Len(ref[a]) /\ IsPrefix(t, SubSeq(padded, first + 1, Len(padded)))
               /\ FlattenSeq([i \in DOMAIN s.fields |-> s.fields[i] \o t]) = SubSeq(padded, 1, s.pos)
               /\ ~\E i \in s.pos .. Len(ref[a]) - Len(t) : IsPrefix(t, SubSeq(ref[a], i + 1, Len(ref[a])))
               /\ Last(t) # Nul => s.pos <= Len(ref[a])

\* Every buffer is owned, and as long as each owner's capacity; behind the size
\* are only zeros.  Without a 0 inside the text, find goes on behind the buffer
\* only if there is no byte to spare.
BuffersOwned ==
  ~careless =>
    /\ ~ub
    /\ DOMAIN buffers = {bytes[a]._data : a \in Arrays} \ {Null}
    /\ \A a \in Arrays : bytes[a]._data # Null =>
         /\ Len(buffers[bytes[a]._data]) = bytes[a]._capacity
         /\ \A i \in bytes[a]._size + 1 .. bytes[a]._capacity : buffers[bytes[a]._data][i] = Nul
         /\ \A t \in Texts, start \in 0 .. bytes[a]._size :
              overreads(a, t, start) /\ (\A i \in 1 .. Len(t) - 1 : t[i] # Nul)
                => bytes[a]._size = bytes[a]._capacity
=============================================================================
