-------------------------------- MODULE MCBroker -------------------------------
(***************************************************************************)
(* Small instances of Broker.                                              *)
(***************************************************************************)
EXTENDS Broker, TLC

\* One topic, and filters that all match it or none of which does.
EveryFilterMatches(f, t) == TRUE
NoFilterMatches(f, t) == FALSE

\* Client identifiers are interchangeable: the publisher's may be fixed.
AnyClients == [Conns -> Clients]
PublisherFixed ==
  {f \in [Conns -> Clients] : \A c \in Publishers : f[c] = CHOOSE k \in Clients : TRUE}

NoWill == {{}}
SomeWill == {Topics}
Clean == {TRUE}
AnyClean == {TRUE, FALSE}

\* Connections are interchangeable, and so are client identifiers.
Symmetry == Permutations(Conns) \cup Permutations(Clients)

================================================================================
