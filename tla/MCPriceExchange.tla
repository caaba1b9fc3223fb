-------------------------- MODULE MCPriceExchange --------------------------
(***************************************************************************)
(* A small instance of PriceExchange: a consumer started with the stale     *)
(* fault or none, a feed of two verdicts, one post by a stranger.           *)
(***************************************************************************)
EXTENDS PriceExchange

CONSTANTS c1, o1

SomeFlags == {"stale", NoOne}

\* Strangers write the feed and read nothing the faults, the flags or the
\* registry decide: they are followed over one cycle of a plain consumer.
StrangersMeetAPlainConsumer ==
    posted > 0 => /\ cycles <= 1
                  /\ faultMode = NoOne /\ \A c \in Consumers : flag[c] = NoOne
                  /\ registered = Consumers \cup {Oracle}
=============================================================================
