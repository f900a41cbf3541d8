--------------------------- MODULE TopicFilterProofs ---------------------------
(***************************************************************************)
(* filter_matches and parse_subscribe_filter are correct for filters and   *)
(* topics of any length over any levels.                                   *)
(*                                                                         *)
(* The two cursors of filter_matches move together, and every level before *)
(* them is covered and is not '#'.  An accepted filter has passed the loop *)
(* of the parser at every level, so a '#' that is met is the last level.   *)
(***************************************************************************)
EXTENDS TopicFilter, TLAPS

\* The obligations are many and large: the provers get more than their usual time.
USE SMTT(60)

Patterns == [any : {TRUE}] \cup [any_path : {TRUE}] \cup [literal : Literals]

\* The levels parsed so far passed, and their patterns give them back.
ParseInv ==
  /\ Len(patterns) <= Len(filter)
  /\ \A i \in 1 .. Len(patterns) : ~ Refusable(i) /\ patterns[i] = Pattern(filter[i])
  /\ patterns # <<>> => filter # <<Empty>> /\ WireLen(filter) <= MaxTopicLen

\* Where filter_matches stands.
MatchInv ==
  /\ f = t
  /\ f <= Len(filter) + 1
  /\ t <= Len(topic) + 1
  /\ \A i \in 1 .. (f - 1) : Covers(i) /\ filter[i] # "#"

IInv ==
  /\ TypeOK
  /\ ParseInv
  /\ phase \in {"matching", "decided"} => Len(patterns) = Len(filter)
  /\ MatchInv
  /\ phase = "refused" => (\/ filter = <<Empty>>
                           \/ WireLen(filter) > MaxTopicLen
                           \/ \E i \in DOMAIN filter : Refusable(i))
  /\ MatchesCorrectly

LEMMA InputType ==
  ASSUME NEW s \in Inputs
  PROVE  s \in Seq(Levels) /\ Len(s) \in Nat /\ Len(s) >= 1 /\ WireLen(s) \in Nat
BY FilterAssumption

LEMMA PatternType ==
  ASSUME NEW l \in Literals \cup {"+", "#"}
  PROVE  Pattern(l) \in Patterns /\ WireLevel(Pattern(l)) = l
BY DEF Pattern, WireLevel, Patterns

LEMMA MatchesType == Matches \in BOOLEAN
BY ZenonT(60) DEF Matches, Covers

LEMMA IInvInit == Init => IInv
<1> SUFFICES ASSUME Init PROVE IInv
  OBVIOUS
<1>1. Len(filter) \in Nat /\ Len(topic) \in Nat
  BY InputType DEF Init
<1>2. TypeOK
  <2>1. patterns \in Seq(Patterns)
    BY DEF Init
  <2>2. f \in Nat \ {0} /\ t \in Nat \ {0}
    BY DEF Init
  <2> QED
    BY <2>1, <2>2, ZenonT(60) DEF Init, TypeOK, Patterns
<1>3. ParseInv /\ MatchInv
  BY <1>1 DEF Init, ParseInv, MatchInv
<1> QED
  BY <1>2, <1>3 DEF Init, IInv, MatchesCorrectly

\* The parser: what it appends is the pattern of a level that passed.
LEMMA ParseKeeps ==
  ASSUME IInv, ParseLevel
  PROVE  IInv'
<1> DEFINE i == Len(patterns) + 1
<1>1. filter \in Seq(Levels) /\ Len(filter) \in Nat /\ WireLen(filter) \in Nat
  BY InputType DEF IInv, TypeOK
<1>2. patterns \in Seq(Patterns) /\ Len(patterns) \in Nat
  BY DEF IInv, TypeOK, Patterns
<1>3. /\ phase = "parsing"
      /\ i <= Len(filter)
      /\ patterns = <<>> => filter # <<Empty>> /\ WireLen(filter) <= MaxTopicLen
      /\ UNCHANGED <<filter, topic, f, t, verdict>>
  BY DEF ParseLevel
<1>4. \A j : Refusable(j)' = Refusable(j) /\ Covers(j)' = Covers(j)
  BY <1>3 DEF Refusable, Covers
<1>5. CASE Refusable(i) /\ phase' = "refused" /\ UNCHANGED patterns
  BY <1>1, <1>2, <1>3, <1>4, <1>5 DEF IInv, TypeOK, ParseInv, MatchInv, MatchesCorrectly
<1>6. CASE ~ Refusable(i) /\ patterns' = Append(patterns, Pattern(filter[i])) /\ UNCHANGED phase
  <2>1. filter[i] \in Literals \cup {"+", "#"}
    BY <1>1, <1>2, <1>3, <1>6 DEF Refusable, Levels
  <2>2. patterns' \in Seq(Patterns) /\ Len(patterns') = i
    BY <1>2, <1>6, <2>1, PatternType
  <2>3. \A j \in 1 .. i : patterns'[j] = IF j = i THEN Pattern(filter[i]) ELSE patterns[j]
    BY <1>2, <1>6, <2>1, PatternType
  <2>4. TypeOK'
    BY ZenonT(60), <1>3, <1>6, <2>2 DEF IInv, TypeOK, Patterns
  <2>5. ParseInv'
    BY <1>1, <1>2, <1>3, <1>4, <1>6, <2>2, <2>3 DEF IInv, ParseInv
  <2>6. MatchInv'
    BY <1>3, <1>4 DEF IInv, MatchInv
  <2> QED
    BY <1>3, <1>6, <2>4, <2>5, <2>6 DEF IInv, MatchesCorrectly
<1> QED
  BY <1>5, <1>6 DEF ParseLevel

\* An accepted filter has '#' as its last level or not at all.
LEMMA HashIsLast ==
  ASSUME IInv, phase = "matching"
  PROVE  \A i \in DOMAIN filter : filter[i] = "#" => i = Len(filter)
BY InputType DEF IInv, TypeOK, ParseInv, Refusable

LEMMA MatchKeeps ==
  ASSUME IInv, MatchHash \/ MatchPlus \/ MatchLiteral \/ MatchEnd
  PROVE  IInv'
<1>1. /\ filter \in Seq(Levels) /\ Len(filter) \in Nat /\ Len(filter) >= 1
      /\ topic \in Seq(Levels) /\ Len(topic) \in Nat /\ f \in Nat \ {0}
      /\ DOMAIN filter = 1 .. Len(filter) /\ DOMAIN topic = 1 .. Len(topic)
  BY InputType DEF IInv, TypeOK
<1>2. phase = "matching" /\ UNCHANGED <<filter, topic, patterns>>
  BY DEF MatchHash, MatchPlus, MatchLiteral, MatchEnd, Decide, Advance
<1>3. \A j : Refusable(j)' = Refusable(j) /\ Covers(j)' = Covers(j)
  BY <1>2 DEF Refusable, Covers
<1>4. ParseInv'
  BY <1>2, <1>3 DEF IInv, ParseInv
<1>5. CASE Advance /\ f <= Len(filter) /\ Covers(f) /\ filter[f] # "#"
  <2>1. MatchInv'
    BY <1>1, <1>3, <1>5 DEF Advance, IInv, MatchInv, Covers
  <2>2. TypeOK'
    BY <1>5 DEF Advance, IInv, TypeOK
  <2> QED
    BY <1>2, <1>4, <1>5, <2>1, <2>2 DEF Advance, IInv, MatchesCorrectly
<1>6. ASSUME NEW answer \in BOOLEAN, Decide(answer), answer = Matches
      PROVE  IInv'
  <2>1. Matches' = Matches
    BY ZenonT(60), <1>2, <1>3 DEF Matches
  <2>2. MatchInv' /\ TypeOK'
    BY <1>3, <1>6 DEF Decide, IInv, MatchInv, TypeOK
  <2> QED
    BY <1>2, <1>4, <1>6, <2>1, <2>2 DEF Decide, IInv, MatchesCorrectly
<1>a. ASSUME f \in DOMAIN filter, ~ Covers(f), filter[f] # "#"
      PROVE  FALSE = Matches
  <2>1. CASE \E i \in DOMAIN filter : filter[i] = "#"
    <3>1. filter[Len(filter)] = "#"
      BY <1>2, <2>1, HashIsLast
    <3>2. f \in 1 .. (Len(filter) - 1)
      BY <1>1, <1>a, <3>1
    <3> QED
      BY <1>a, <2>1, <3>2, MatchesType DEF Matches
  <2>2. CASE ~ \E i \in DOMAIN filter : filter[i] = "#"
    BY <1>a, <2>2, MatchesType DEF Matches
  <2> QED
    BY ZenonT(60), <2>1, <2>2
<1>7. CASE MatchHash
  <2>1. f = Len(filter)
    <3>1. f \in DOMAIN filter /\ filter[f] = "#"
      BY <1>1, <1>7 DEF MatchHash
    <3> QED
      BY <1>2, <3>1, HashIsLast
  <2>2. \E i \in DOMAIN filter : filter[i] = "#"
    BY <1>1, <1>7, <2>1 DEF MatchHash
  <2>3. \A i \in 1 .. (Len(filter) - 1) : Covers(i)
    BY <2>1 DEF IInv, MatchInv
  <2>4. TRUE = Matches
    BY <2>2, <2>3, MatchesType DEF Matches
  <2> QED
    BY ZenonT(60), <1>6, <1>7, <2>4 DEF MatchHash
<1>8. CASE MatchPlus
  <2>1. CASE t > Len(topic)
    <3>1. f \in DOMAIN filter /\ ~ Covers(f) /\ filter[f] # "#"
      BY <1>1, <1>8, <2>1 DEF MatchPlus, IInv, MatchInv, Covers
    <3>2. FALSE = Matches
      BY ZenonT(60), <3>1, <1>a
    <3> QED
      BY ZenonT(60), <1>6, <1>8, <2>1, <3>2 DEF MatchPlus
  <2>2. CASE ~ (t > Len(topic))
    BY <1>1, <1>5, <1>8, <2>2 DEF MatchPlus, IInv, MatchInv, Covers
  <2> QED
    BY <2>1, <2>2
<1>9. CASE MatchLiteral
  <2>1. CASE t > Len(topic) \/ filter[f] # topic[t]
    <3>1. f \in DOMAIN filter /\ ~ Covers(f) /\ filter[f] # "#"
      BY <1>1, <1>9, <2>1 DEF MatchLiteral, IInv, MatchInv, Covers
    <3>2. FALSE = Matches
      BY ZenonT(60), <3>1, <1>a
    <3> QED
      BY ZenonT(60), <1>6, <1>9, <2>1, <3>2 DEF MatchLiteral
  <2>2. CASE ~ (t > Len(topic) \/ filter[f] # topic[t])
    BY <1>1, <1>5, <1>9, <2>2 DEF MatchLiteral, IInv, MatchInv, Covers
  <2> QED
    BY <2>1, <2>2
<1>10. CASE MatchEnd
  <2>1. f = Len(filter) + 1 /\ f = t
    BY <1>1, <1>10 DEF MatchEnd, IInv, MatchInv
  <2>2. \A i \in DOMAIN filter : Covers(i) /\ filter[i] # "#"
    BY <1>1, <2>1 DEF IInv, MatchInv
  <2>3. Matches <=> Len(filter) = Len(topic)
    BY <2>2 DEF Matches
  <2>4. (t = Len(topic) + 1) <=> Len(filter) = Len(topic)
    <3>1. Len(filter) \in Nat /\ Len(topic) \in Nat
      BY <1>1
    <3> QED
      BY <3>1, <2>1
  <2>5. (t = Len(topic) + 1) = Matches
    BY <2>3, <2>4, MatchesType
  <2> QED
    BY ZenonT(60), <1>6, <1>10, <2>5 DEF MatchEnd
<1> QED
  BY <1>7, <1>8, <1>9, <1>10

LEMMA IInvNext == IInv /\ [Next]_vars => IInv'
<1> SUFFICES ASSUME IInv, [Next]_vars PROVE IInv'
  OBVIOUS
<1>1. CASE UNCHANGED vars
  BY ZenonT(60), <1>1 DEF vars, IInv, TypeOK, ParseInv, MatchInv, MatchesCorrectly, Matches, Covers,
              Refusable
<1>2. CASE RefuseWhole \/ Accept
  <2>1. \A j : Refusable(j)' = Refusable(j) /\ Covers(j)' = Covers(j)
    BY <1>2 DEF RefuseWhole, Accept, Refusable, Covers
  <2>2. UNCHANGED <<filter, topic, patterns, f, t, verdict>>
    BY <1>2 DEF RefuseWhole, Accept
  <2>3. ParseInv' /\ MatchInv'
    BY <2>1, <2>2 DEF IInv, ParseInv, MatchInv
  <2>4. TypeOK' /\ MatchesCorrectly'
    BY <1>2, <2>2 DEF RefuseWhole, Accept, IInv, TypeOK, MatchesCorrectly
  <2> QED
    BY <1>2, <2>2, <2>3, <2>4 DEF RefuseWhole, Accept, IInv
<1> QED
  BY <1>1, <1>2, ParseKeeps, MatchKeeps DEF Next

LEMMA IInvAlways == Spec => []IInv
BY IInvInit, IInvNext, PTL DEF Spec

\* Parsing and matching keep every variable's type: what parse_subscribe_filter stores
\* is a pattern per level, and the cursors of filter_matches stay counters.
THEOREM TypeCorrect == Spec => []TypeOK
<1>1. IInv => TypeOK
  BY DEF IInv
<1> QED
  BY <1>1, IInvAlways, PTL

\* filter_matches gives '+' and '#' their meaning (MQTT 3.1.1, 4.7.1), for every accepted
\* filter and every topic.  The rule of 4.7.2 for '$' topics is not part of it: the code
\* does not have it.
THEOREM MatchingCorrect == Spec => []MatchesCorrectly
<1>1. IInv => MatchesCorrectly
  BY DEF IInv
<1> QED
  BY <1>1, IInvAlways, PTL

\* parse_subscribe_filter accepts the legal filters and no others.
THEOREM AcceptanceCorrect == Spec => []AcceptsExactly
<1>1. ASSUME IInv PROVE AcceptsExactly
  <2>1. filter \in Seq(Levels) /\ Len(filter) \in Nat /\ Len(filter) >= 1 /\ WireLen(filter) \in Nat
    BY <1>1, InputType DEF IInv, TypeOK
  <2>2. DOMAIN filter = 1 .. Len(filter)
    BY <2>1
  <2>3. \A i \in DOMAIN filter : Refusable(i) <=> ~ (/\ filter[i] \in Literals \cup {"+", "#"}
                                                     /\ filter[i] = "#" => i = Len(filter))
    BY <2>1, FilterAssumption DEF Refusable, Levels
  <2>4. phase \in {"matching", "decided"} =>
          /\ patterns # <<>>
          /\ \A i \in DOMAIN filter : ~ Refusable(i)
    BY <1>1, <2>1, <2>2 DEF IInv, ParseInv
  <2> QED
    BY <1>1, <2>1, <2>3, <2>4, FilterAssumption DEF AcceptsExactly, IInv, ParseInv
<1> QED
  BY <1>1, IInvAlways, PTL

\* path_to_wire_filter gives an accepted filter back.
THEOREM RoundTripCorrect == Spec => []RoundTrip
<1>1. ASSUME IInv PROVE RoundTrip
  <2> SUFFICES ASSUME Len(patterns) = Len(filter)
               PROVE  path_to_wire_filter(patterns) = filter
    BY <1>1 DEF RoundTrip, IInv
  <2>1. filter \in Seq(Levels) /\ filter = [i \in 1 .. Len(filter) |-> filter[i]]
    BY <1>1, InputType DEF IInv, TypeOK
  <2>2. \A i \in 1 .. Len(filter) : WireLevel(patterns[i]) = filter[i]
    <3> TAKE i \in 1 .. Len(filter)
    <3>1. patterns[i] = Pattern(filter[i]) /\ filter[i] \in Literals \cup {"+", "#"}
      BY <1>1, <2>1 DEF IInv, ParseInv, Refusable, Levels
    <3> QED
      BY <3>1, PatternType
  <2> QED
    BY <2>1, <2>2 DEF path_to_wire_filter
<1> QED
  BY <1>1, IInvAlways, PTL

================================================================================
