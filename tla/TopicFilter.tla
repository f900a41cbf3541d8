------------------------------ MODULE TopicFilter ------------------------------
(***************************************************************************)
(* One topic filter against one topic name: the filter of a SUBSCRIBE is   *)
(* parsed, and what was accepted is matched against the topic of a PUBLISH.*)
(*                                                                         *)
(* Source: src/topic.rs (parse_subscribe_filter, validate_subscribe_filter,*)
(* path_to_wire_filter) and filter_matches of src/broker.rs.               *)
(*                                                                         *)
(* A filter or topic is the sequence of levels that split('/') yields.     *)
(* split never yields nothing: the empty string is one empty level.  The   *)
(* broker does not validate the topics it is sent, so a topic may hold any *)
(* level.                                                                  *)
(***************************************************************************)
EXTENDS Naturals, Sequences

CONSTANTS
  Literals,     \* levels without a wildcard character, the empty one included
  Dollars,      \* those of them that begin with '$'
  Mixed,        \* levels that hold a wildcard next to other characters
  Inputs,       \* the filters and topics of the run
  WireLen(_),   \* the length in bytes of a filter
  MaxTopicLen   \* MAX_TOPIC_LEN

Empty == ""
Levels == Literals \cup Mixed \cup {"+", "#"}

ASSUME FilterAssumption ==
  /\ Empty \in Literals
  /\ Dollars \subseteq Literals
  /\ {"+", "#"} \cap (Literals \cup Mixed) = {}
  /\ Literals \cap Mixed = {}
  /\ Inputs \subseteq Seq(Levels) \ {<<>>}
  /\ MaxTopicLen \in Nat
  /\ \A s \in Inputs : WireLen(s) \in Nat

VARIABLES
  filter,    \* the filter of the SUBSCRIBE
  topic,     \* the topic of the PUBLISH
  phase,     \* parsing, refused, matching or decided
  patterns,  \* the patterns parsed so far; its length is the loop counter
  f,         \* filter_matches: the filter level it looks at
  t,         \* filter_matches: the topic level it looks at
  verdict    \* what filter_matches returned

vars == <<filter, topic, phase, patterns, f, t, verdict>>

--------------------------------------------------------------------------------
(* parse_subscribe_filter; validate_subscribe_filter is the same loop. *)

\* The early returns, before the string is split.
RefuseWhole ==
  /\ phase = "parsing"
  /\ patterns = <<>>
  /\ filter = <<Empty>> \/ WireLen(filter) > MaxTopicLen
  /\ phase' = "refused"
  /\ UNCHANGED <<filter, topic, patterns, f, t, verdict>>

\* Faulty: mixed levels pass.
RefusableHash(i) == filter[i] = "#" /\ i # Len(filter)
\* Faulty: a '#' passes anywhere.
RefusableMixed(i) == filter[i] \in Mixed

\* A level the loop refuses: a '#' that is not the last one, a mixed level.
Refusable(i) == (filter[i] = "#" /\ i # Len(filter)) \/ filter[i] \in Mixed

Pattern(level) ==
  IF level = "+" THEN [any |-> TRUE]
  ELSE IF level = "#" THEN [any_path |-> TRUE]
  ELSE [literal |-> level]

ParseLevel ==
  LET i == Len(patterns) + 1 IN
    /\ phase = "parsing"
    /\ patterns = <<>> => filter # <<Empty>> /\ WireLen(filter) <= MaxTopicLen
    /\ i <= Len(filter)
    /\ IF Refusable(i)
         THEN phase' = "refused" /\ UNCHANGED patterns
         ELSE patterns' = Append(patterns, Pattern(filter[i])) /\ UNCHANGED phase
    /\ UNCHANGED <<filter, topic, f, t, verdict>>

\* The loop is over, Ok: the broker stores the filter, and a publish is matched
\* against it.
Accept ==
  /\ phase = "parsing"
  /\ Len(patterns) = Len(filter)
  /\ phase' = "matching"
  /\ UNCHANGED <<filter, topic, patterns, f, t, verdict>>

\* Faulty: the multi-level wildcard becomes a single-level one.
WireLevelPlus(p) == IF "literal" \in DOMAIN p THEN p.literal ELSE "+"

\* path_to_wire_filter, up to the join.
WireLevel(p) ==
  IF "any" \in DOMAIN p THEN "+" ELSE IF "any_path" \in DOMAIN p THEN "#" ELSE p.literal
path_to_wire_filter(path) == [i \in 1 .. Len(path) |-> WireLevel(path[i])]

--------------------------------------------------------------------------------
(* The loop of filter_matches. *)

Decide(answer) ==
  /\ phase' = "decided"
  /\ verdict' = answer
  /\ UNCHANGED <<filter, topic, patterns, f, t>>

Advance ==
  /\ f' = f + 1
  /\ t' = t + 1
  /\ UNCHANGED <<filter, topic, phase, patterns, verdict>>

MatchHash ==
  /\ phase = "matching"
  /\ f <= Len(filter)
  /\ filter[f] = "#"
  /\ Decide(TRUE)

MatchPlus ==
  /\ phase = "matching"
  /\ f <= Len(filter)
  /\ filter[f] = "+"
  /\ IF t > Len(topic) THEN Decide(FALSE) ELSE Advance

MatchLiteral ==
  /\ phase = "matching"
  /\ f <= Len(filter)
  /\ filter[f] \notin {"#", "+"}
  /\ IF t > Len(topic) \/ filter[f] # topic[t] THEN Decide(FALSE) ELSE Advance

\* Faulty: levels of the topic that are left over do not matter.
MatchEndPrefix ==
  /\ phase = "matching"
  /\ f > Len(filter)
  /\ Decide(TRUE)

MatchEnd ==
  /\ phase = "matching"
  /\ f > Len(filter)
  /\ Decide(t = Len(topic) + 1)

--------------------------------------------------------------------------------
Init ==
  /\ filter \in Inputs
  /\ topic \in Inputs
  /\ phase = "parsing"
  /\ patterns = <<>>
  /\ f = 1
  /\ t = 1
  /\ verdict = FALSE

Next ==
  \/ RefuseWhole
  \/ ParseLevel
  \/ Accept
  \/ MatchHash
  \/ MatchPlus
  \/ MatchLiteral
  \/ MatchEnd

Spec == Init /\ [][Next]_vars

--------------------------------------------------------------------------------
(* Properties. *)

\* Every variable keeps its type.
TypeOK ==
  /\ filter \in Inputs
  /\ topic \in Inputs
  /\ phase \in {"parsing", "refused", "matching", "decided"}
  /\ patterns \in Seq([any : {TRUE}] \cup [any_path : {TRUE}] \cup [literal : Literals])
  /\ f \in Nat \ {0}
  /\ t \in Nat \ {0}
  /\ verdict \in BOOLEAN

\* A level of the filter covers the level of the topic at its place.
Covers(i) == i \in DOMAIN topic /\ (filter[i] = "+" \/ filter[i] = topic[i])

\* What the wildcards of a filter match (MQTT 3.1.1, 4.7.1): the levels before '#'
\* cover as many levels of the topic, the parent level included; without '#', all of
\* them.  The rule of 4.7.2 for topics that begin with '$' is HidesDollarTopics.
Matches ==
  IF \E i \in DOMAIN filter : filter[i] = "#"
    THEN \A i \in 1 .. (Len(filter) - 1) : Covers(i)
    ELSE Len(filter) = Len(topic) /\ \A i \in DOMAIN filter : Covers(i)

\* filter_matches gives the wildcards their meaning of 4.7.1, for every filter the
\* broker accepts and every topic it may be sent, also where one is longer than the
\* other.
MatchesCorrectly == phase = "decided" => verdict = Matches

\* The rest of the 4.7 that filter_matches is said to implement: a filter that begins
\* with a wildcard matches no topic that begins with '$' (4.7.2).  The code has no such
\* rule, and the invariant is violated (TopicFilterDollar.cfg): '#' matches '$SYS'.
HidesDollarTopics ==
  phase = "decided" /\ verdict /\ topic[1] \in Dollars => filter[1] \notin {"+", "#"}

\* An accepted filter has '#' only as its last level and no mixed level, and a
\* refused one breaks a rule: parse_subscribe_filter stores what matching relies
\* on and refuses nothing else.
AcceptsExactly ==
  LET legal == /\ filter # <<Empty>>
               /\ WireLen(filter) <= MaxTopicLen
               /\ \A i \in DOMAIN filter :
                    /\ filter[i] \in Literals \cup {"+", "#"}
                    /\ filter[i] = "#" => i = Len(filter)
  IN /\ phase = "refused" => ~ legal
     /\ phase \in {"matching", "decided"} => legal

\* The filter a client subscribes to for a parsed path is the one it was parsed
\* from (path_to_wire_filter after parse_subscribe_filter).
RoundTrip ==
  phase \in {"matching", "decided"} => path_to_wire_filter(patterns) = filter

================================================================================
