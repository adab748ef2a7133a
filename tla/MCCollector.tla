---------------------------- MODULE MCCollector ----------------------------
(* Small instances of Collector.  Packet numbers tell packets apart, but a  *)
(* packet may arrive more than once.                                        *)
EXTENDS Collector

Message(kind, num, net) == [kind |-> kind, num |-> num, net |-> net]

MCFeed == {Message("OK", 1, "home"), Message("OK", 3, "street"),
           Message("SKIP", 2, "none"), Message("WRONG", 0, "none"),
           Message("RAISES", 0, "none")}

MCFiles == {<<>>,
            <<Message("OK", 3, "street"), Message("SKIP", 2, "none"), Message("OK", 1, "home")>>,
            <<Message("OK", 1, "home"), Message("RAISES", 0, "none"), Message("OK", 3, "street")>>}

=============================================================================
