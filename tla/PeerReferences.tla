--------------------------- MODULE PeerReferences ---------------------------
(***************************************************************************)
(* The peer references of the newloop, VIRTUAL@(CABLE)@(CABLE)..., as they *)
(* are given on the command line: how one is split into its parts and how  *)
(* it becomes a peer.  Of the characters only the separators matter; any   *)
(* other is "x", and the word "anyone" is the one character "a" (it means  *)
(* something as the first part only, so it is typed only there).           *)
(***************************************************************************)
EXTENDS Integers, Sequences, SequencesExt

CONSTANT MaxSegments  \* bound: pieces that a reference is typed of

ASSUME SegmentsAssumption == MaxSegments \in Nat

VARIABLES simple,   \* the text given by the user
          typed,    \* pieces typed so far
          outcome,  \* "none", "added", or the exception that left add_peer_simplestring
          m_peer    \* the references added

referenceVars == <<simple, typed, outcome, m_peer>>

separator == "@"
group_open == "("
group_close == ")"
literal_anyone == <<"a">>

\* Pieces: single characters, and a whole group so that long references are reached.
Segments == {<<"x">>, <<separator>>, <<group_open>>, <<group_close>>,
             <<separator, group_open, "x", group_close>>}

-----------------------------------------------------------------------------
\* parse_peer_reference.  Positions are those of TLA+, from 1.

npos == 0
find(text, c, from) ==
  LET at == { i \in from .. Len(text) : text[i] = c }
  IN IF at = {} THEN npos ELSE CHOOSE i \in at : \A j \in at : i <= j

\* Mutant: parentheses inside a part are let through.
MutGoodPart(text) == text # <<>>

\* Non-empty and without parentheses.
GoodPart(text) ==
  find(text, group_open, 1) = npos /\ find(text, group_close, 1) = npos /\ text # <<>>

Parsed(id, cables) == [ok |-> "parsed", id |-> id, cable |-> cables]
Refused == [ok |-> "err_check_input", id |-> <<>>, cable |-> <<>>]
OutOfRange == [ok |-> "out_of_range", id |-> <<>>, cable |-> <<>>]

\* The groups from posB on, which is behind "@(".  A last group of at most one
\* character is passed over, and the text may end behind "@".
CableGroups(text, id) ==
  LET size == Len(text)
      group[posB \in 1 .. size + 3] ==
        IF posB >= size THEN Parsed(id, <<>>)
        ELSE LET posX == IF find(text, group_close, posB) = npos
                         THEN size ELSE find(text, group_close, posB)
                 partX == SubSeq(text, posB, posX - 1)
                 rest == group[posX + 3]
             IN IF ~GoodPart(partX) \/ text[posX] # group_close THEN Refused
                ELSE IF posX = size THEN Parsed(id, <<partX>>)
                ELSE IF text[posX + 1] # separator THEN Refused
                ELSE IF posX + 1 = size THEN OutOfRange
                ELSE IF text[posX + 2] # group_open THEN Refused
                ELSE [rest EXCEPT !.cable = <<partX>> \o @]
  IN group

parse_peer_reference(text) ==
  LET pos1 == find(text, separator, 1)
      part1 == SubSeq(text, 1, pos1 - 1)
      id == IF part1 = literal_anyone THEN <<>> ELSE <<part1>>
  IN IF Len(text) < 3 THEN Refused
     ELSE IF pos1 = npos THEN IF GoodPart(text) THEN Parsed(<<text>>, <<>>) ELSE Refused
     ELSE IF ~GoodPart(part1) \/ pos1 + 2 > Len(text) \/ text[pos1 + 1] # group_open THEN Refused
     ELSE CableGroups(text, id)[pos1 + 2]

\* An identity or a cable address that the library understands: here the text "x".
Understood(text) == text = <<"x">>

\* Every cable of the reference is made before the peer is added, and throws what
\* parse_peer_reference throws.
cable_make_addr(text) == Understood(text)

parse_peer_simplestring(text) ==
  LET parse == parse_peer_reference(text)
  IN IF parse.ok # "parsed" THEN parse
     ELSE IF /\ \A i \in DOMAIN parse.id : Understood(parse.id[i])
             /\ \A i \in DOMAIN parse.cable : cable_make_addr(parse.cable[i])
          THEN parse ELSE Refused

-----------------------------------------------------------------------------
ReferenceInit == simple = <<>> /\ typed = 0 /\ outcome = "none" /\ m_peer = <<>>

\* The user types one more piece.
Type ==
  /\ outcome = "none" /\ typed < MaxSegments
  /\ \E s \in Segments \cup IF typed = 0 THEN {literal_anyone} ELSE {} :
       simple' = simple \o s
  /\ typed' = typed + 1
  /\ UNCHANGED <<outcome, m_peer>>

add_peer(reference) == m_peer' = Append(m_peer, [id |-> reference.id, cable |-> reference.cable])

add_peer_simplestring ==
  /\ outcome = "none"
  /\ LET reference == parse_peer_simplestring(simple)
     IN IF reference.ok = "parsed" THEN add_peer(reference) /\ outcome' = "added"
        ELSE outcome' = reference.ok /\ UNCHANGED m_peer
  /\ UNCHANGED <<simple, typed>>

ReferenceNext == Type \/ add_peer_simplestring

-----------------------------------------------------------------------------
ReferenceTypeOK ==
  /\ typed \in 0 .. MaxSegments /\ Len(simple) <= 4 * MaxSegments /\ Len(m_peer) <= 1
  /\ outcome \in {"none", "added", "err_check_input", "out_of_range"}

\* What help_peer_ref allows: the first part, then groups that are not empty,
\* and nothing between, before or after them.
WellFormed(text) ==
  LET at == find(text, separator, 1)
      n == Len(text)
  IN /\ n >= 3
     /\ IF at = npos THEN GoodPart(text)
        ELSE /\ at > 1 /\ at + 2 < n /\ text[at + 1] = group_open /\ text[n] = group_close
             /\ \A i \in 1 .. n :
                  /\ text[i] = group_open =>
                       /\ i > at /\ text[i - 1] = separator
                       /\ i - 1 = at \/ text[i - 2] = group_close
                  /\ text[i] = group_close =>
                       /\ i > at /\ text[i - 1] # group_open
                       /\ \/ i = n
                          \/ i + 2 < n /\ text[i + 1] = separator /\ text[i + 2] = group_open

Grouped(text) == <<separator, group_open>> \o text \o <<group_close>>
Rebuilt(parse) ==
  (IF parse.id = <<>> THEN literal_anyone ELSE parse.id[1])
    \o FlattenSeq([i \in DOMAIN parse.cable |-> Grouped(parse.cable[i])])

\* What the splitter may pass over at the end of a text that it accepts.
Tails == {<<>>, <<separator, group_open>>}
           \cup { <<separator, group_open, c>> : c \in {"x", separator, group_open, group_close} }

\* A reference of the documented form is split into exactly its parts; any other
\* text is refused, unless all that is wrong with it is a group of at most one
\* character that was begun at its end; and a text that throws adds no peer.
ReferenceIsExact ==
  LET parse == parse_peer_reference(simple)
  IN /\ WellFormed(simple) => parse.ok = "parsed" /\ Rebuilt(parse) = simple
     /\ parse.ok = "parsed" =>
          \E t \in Tails : simple = Rebuilt(parse) \o t /\ (t = <<>> => WellFormed(simple))
     /\ (m_peer # <<>>) <=> (outcome = "added")
=============================================================================
