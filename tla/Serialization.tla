--------------------------- MODULE Serialization ---------------------------
(***************************************************************************)
(* trivialserialize: a generator to which values are pushed, and a parser  *)
(* that pops them from what arrived, which may have been cut short on the  *)
(* way.  An octet is a number below OctetBase (256 in the code): the       *)
(* markers 0xFD, 0xFE, 0xFF are its last three values and the limits       *)
(* 0xFFFF, 0xFFFFFFFF are those of 2 and of 4 octets.                      *)
(***************************************************************************)
EXTENDS Integers, Sequences, SequencesExt

CONSTANTS OctetBase, Numbers, Texts,   \* numbers and strings that are pushed
          SANE_MAX_SIZE_FOR_STRING,    \* 50000000 in the code; a packet or a key file is shorter
          MaxPushed                    \* bound: values pushed

ASSUME SerializationConstants ==
  /\ OctetBase \in Nat /\ OctetBase >= 4 /\ Numbers \subseteq Nat /\ MaxPushed \in Nat
  /\ Texts \subseteq Seq(0 .. OctetBase - 1)
  /\ SANE_MAX_SIZE_FOR_STRING \in Nat /\ \A s \in Texts : Len(s) <= SANE_MAX_SIZE_FOR_STRING

VARIABLES m_str,        \* the generator
          pushed,       \* what it was given
          stage,        \* "push", "refused", "parse", "thrown" or "done"
          cut,          \* the string arrived cut short
          m_data_now,   \* the parser: octets already read
          popped        \* what it returned

serialVars == <<m_str, pushed, stage, cut, m_data_now, popped>>

-----------------------------------------------------------------------------
\* What a push appends, and whether it returns; one that throws may leave octets behind.

Out(octets) == [ok |-> TRUE, octets |-> octets]
TooBig == [ok |-> FALSE, octets |-> <<>>]
Then(p, q) == IF p.ok THEN [ok |-> q.ok, octets |-> p.octets \o q.octets] ELSE p

\* What the first of n + 1 octets counts for; no number has more than eight octets.
Power[n \in 0 .. 8] == IF n = 0 THEN 1 ELSE OctetBase * Power[n - 1]

get_max_value_of_S_octet_uint(S) == Power[S] - 1

push_integer_u(S, value) ==
  IF value >= get_max_value_of_S_octet_uint(S)
  THEN TooBig
  ELSE Out([i \in 1 .. S |-> (value \div Power[S - i]) % OctetBase])

push_integer_uvarint(val) ==
  CASE val < OctetBase - 3 -> push_integer_u(1, val)
    [] val \in (OctetBase - 3) .. (Power[2] - 2) ->
         Then(Out(<<OctetBase - 3>>), push_integer_u(2, val))
    [] val \in (Power[2] - 1) .. (Power[4] - 2) ->
         Then(Out(<<OctetBase - 2>>), push_integer_u(4, val))
    [] OTHER -> Then(Out(<<OctetBase - 1>>), push_integer_u(8, val))

push_bytes_sizeoctets(data) == Then(push_integer_u(1, Len(data)), Out(data))

push_varstring(data) == Then(push_integer_uvarint(Len(data)), Out(data))

\* The size, then one value after the other.
Sized(parts) == FoldLeft(Then, push_integer_uvarint(Len(parts)), parts)

push_vector_string(data) == Sized([i \in DOMAIN data |-> push_varstring(data[i])])

\* A map is the sequence of its pairs in the order of their keys.
push_map_object(data) ==
  Sized([i \in DOMAIN data |-> Then(push_varstring(data[i][1]), push_varstring(data[i][2]))])

-----------------------------------------------------------------------------
\* What a pop returns and where it leaves the parser; v is meaningless when it throws.

Got(v, now) == [ok |-> TRUE, v |-> v, now |-> now]
format_error_read(now) == [ok |-> FALSE, v |-> <<>>, now |-> now]

pop_byte_u(now) ==
  IF now < Len(m_str) THEN Got(m_str[now + 1], now + 1) ELSE format_error_read(now)

\* Octet by octet, so that a short string is used up before it throws.
pop_integer_u(S, now) ==
  IF now + S > Len(m_str)
  THEN format_error_read(Len(m_str))
  ELSE Got(FoldLeft(LAMBDA value, octet : value * OctetBase + octet, 0,
                    SubSeq(m_str, now + 1, now + S)), now + S)

pop_bytes_n(size, now) ==
  CASE size = 0 -> Got(<<>>, now)
    [] size > 0 /\ Len(m_str) - now < size -> format_error_read(now)
    [] OTHER -> Got(SubSeq(m_str, now + 1, now + size), now + size)

\* Mutant: the first marker is taken for a number.
MutMarkerIsNumber(now) ==
  LET first == pop_byte_u(now)
  IN  CASE ~first.ok -> first
        [] first.ok /\ first.v <= OctetBase - 3 -> first
        [] first.ok /\ first.v = OctetBase - 2 -> pop_integer_u(4, first.now)
        [] first.ok /\ first.v = OctetBase - 1 -> pop_integer_u(8, first.now)

pop_integer_uvarint(now) ==
  LET first == pop_byte_u(now)
  IN  CASE ~first.ok -> first
        [] first.ok /\ first.v < OctetBase - 3 -> first
        [] first.ok /\ first.v = OctetBase - 3 -> pop_integer_u(2, first.now)
        [] first.ok /\ first.v = OctetBase - 2 -> pop_integer_u(4, first.now)
        [] first.ok /\ first.v = OctetBase - 1 -> pop_integer_u(8, first.now)

pop_bytes_sizeoctets(now) ==
  LET size == pop_integer_u(1, now) IN IF size.ok THEN pop_bytes_n(size.v, size.now) ELSE size

\* The assertion, which release builds keep (CMakeLists.txt:214), ends the program: it
\* counts as a pop that does not return.
assert_failed(now) == format_error_read(now)

pop_varstring(now) ==
  LET size == pop_integer_uvarint(now)
  IN  CASE ~size.ok -> size
        [] size.ok /\ size.v > SANE_MAX_SIZE_FOR_STRING -> assert_failed(size.now)
        [] OTHER -> pop_bytes_n(size.v, size.now)

\* The next varstring, at the place where the one before ended.
Also(before, p) == IF before.ok THEN [p EXCEPT !.v = Append(before.v, p.v)] ELSE before

\* As many varstrings as size says, each times over.
PopStrings(size, each) ==
  LET after[i \in 0 .. each * size.v] ==
        IF i = 0 THEN Got(<<>>, size.now) ELSE Also(after[i - 1], pop_varstring(after[i - 1].now))
  IN  IF size.ok THEN after[each * size.v] ELSE size

pop_vector_string(now) == PopStrings(pop_integer_uvarint(now), 1)

\* The pairs of key and value, unless a key comes twice.
PopPairs(flat) ==
  LET pairs == [i \in 1 .. Len(flat.v) \div 2 |-> <<flat.v[2 * i - 1], flat.v[2 * i]>>]
      keys == [i \in DOMAIN pairs |-> pairs[i][1]]
  IN  CASE ~flat.ok -> flat
        [] flat.ok /\ IsInjective(keys) -> Got(pairs, flat.now)
        [] OTHER -> format_error_read(flat.now)

pop_map_object(now) == PopPairs(PopStrings(pop_integer_uvarint(now), 2))

-----------------------------------------------------------------------------

Items ==
  [kind : {"u1", "u2", "uvarint"}, v : Numbers]
    \cup [kind : {"varstring", "sizeoctets"}, v : Texts]
    \cup [kind : {"vector"}, v : {<<>>} \cup {<<s, t>> : s, t \in Texts}]
    \cup [kind : {"map"}, v : {<<>>} \cup {<< <<s, t>> >> : s, t \in Texts}]

\* What a peer may send that no map of ours holds.
TwiceTheKey == {[kind |-> "twice", v |-> << <<s, t>>, <<s, s>> >>] : s, t \in Texts}

Pushed(item) ==
  CASE item.kind = "u1" -> push_integer_u(1, item.v)
    [] item.kind = "u2" -> push_integer_u(2, item.v)
    [] item.kind = "uvarint" -> push_integer_uvarint(item.v)
    [] item.kind = "varstring" -> push_varstring(item.v)
    [] item.kind = "sizeoctets" -> push_bytes_sizeoctets(item.v)
    [] item.kind = "vector" -> push_vector_string(item.v)
    [] item.kind \in {"map", "twice"} -> push_map_object(item.v)

Popped(kind, now) ==
  CASE kind = "u1" -> pop_integer_u(1, now)
    [] kind = "u2" -> pop_integer_u(2, now)
    [] kind = "uvarint" -> pop_integer_uvarint(now)
    [] kind = "varstring" -> pop_varstring(now)
    [] kind = "sizeoctets" -> pop_bytes_sizeoctets(now)
    [] kind = "vector" -> pop_vector_string(now)
    [] kind \in {"map", "twice"} -> pop_map_object(now)

SerialInit ==
  /\ m_str = <<>> /\ pushed = <<>> /\ stage = "push" /\ cut = FALSE
  /\ m_data_now = 0 /\ popped = <<>>

Push ==
  /\ stage = "push" /\ Len(pushed) < MaxPushed
  /\ \E item \in Items \cup TwiceTheKey :
       /\ m_str' = m_str \o Pushed(item).octets
       /\ pushed' = Append(pushed, item)
       /\ stage' = IF Pushed(item).ok THEN "push" ELSE "refused"
       /\ UNCHANGED <<cut, m_data_now, popped>>

\* What arrives is what was sent or the beginning of it; the parser refuses an empty string.
Arrive ==
  /\ stage = "push" /\ pushed # <<>>
  /\ \E n \in 1 .. Len(m_str) :
       m_str' = SubSeq(m_str, 1, n) /\ cut' = (n < Len(m_str))
  /\ stage' = "parse" /\ UNCHANGED <<pushed, m_data_now, popped>>

\* The reader pops the kinds of value that the writer pushed.
Pop ==
  /\ stage = "parse"
  /\ LET got == Popped(pushed[Len(popped) + 1].kind, m_data_now)
     IN  /\ m_data_now' = got.now
         /\ popped' = IF got.ok THEN Append(popped, got.v) ELSE popped
         /\ stage' = CASE ~got.ok -> "thrown"
                       [] got.ok /\ Len(popped) + 1 = Len(pushed) -> "done"
                       [] OTHER -> "parse"
  /\ UNCHANGED <<m_str, pushed, cut>>

SerialNext == Push \/ Arrive \/ Pop

-----------------------------------------------------------------------------

SerialTypeOK ==
  /\ m_str \in Seq(0 .. OctetBase - 1) /\ Len(pushed) <= MaxPushed
  /\ stage \in {"push", "refused", "parse", "thrown", "done"} /\ cut \in BOOLEAN
  /\ m_data_now \in 0 .. Len(m_str) /\ Len(popped) <= Len(pushed)

\* The numbers and lengths that a push writes, each with the octets of the greatest field
\* that it may take.
SizedFields(v, strings) == {<<8, Len(v)>>} \cup {<<8, Len(s)>> : s \in strings}
StringsOf(v) == {v[i] : i \in DOMAIN v}
PairStringsOf(v) == {v[i][1] : i \in DOMAIN v} \cup {v[i][2] : i \in DOMAIN v}

Fields(item) ==
  CASE item.kind = "u1" -> {<<1, item.v>>}
    [] item.kind = "u2" -> {<<2, item.v>>}
    [] item.kind = "sizeoctets" -> {<<1, Len(item.v)>>}
    [] item.kind = "uvarint" -> {<<8, item.v>>}
    [] item.kind = "varstring" -> {<<8, Len(item.v)>>}
    [] item.kind = "vector" -> SizedFields(item.v, StringsOf(item.v))
    [] item.kind \in {"map", "twice"} -> SizedFields(item.v, PairStringsOf(item.v))

\* What the header promises of a field of S octets: numbers and sizes up to 2^(8*S)-1
\* (trivialserialize.hpp:63,97,99).
Supported(field) == field[2] <= Power[field[1]] - 1

\* The greatest of them, which the code refuses all the same (trivialserialize.hpp:273-276).
Greatest(field) == field[2] = Power[field[1]] - 1

\* A push is refused exactly when a number or a length is not supported, or is the greatest
\* supported one: there the code is not what its header says.  What the parser returns is
\* what was pushed, in order, and it has then read the whole string; it throws exactly when
\* the string was cut short or a map holds a key twice, wherever the lengths and numbers lie
\* with respect to the limits of the encoding (trivialserialize.cpp:58-64 against 164-171).
RoundTrip ==
  /\ stage = "refused" <=>
       \E i \in DOMAIN pushed : \E field \in Fields(pushed[i]) : ~Supported(field) \/ Greatest(field)
  /\ \A i \in 1 .. Len(popped) : popped[i] = pushed[i].v /\ pushed[i].kind # "twice"
  /\ stage = "done" => ~cut /\ m_data_now = Len(m_str)
  /\ stage = "thrown" => cut \/ pushed[Len(popped) + 1].kind = "twice"
=============================================================================
