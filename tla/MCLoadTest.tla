----------------------------- MODULE MCLoadTest -----------------------------
(* An instance of LoadTest: sequences of two messages, identifiers that    *)
(* wrap after two sequences, two slots in the transmit queue.              *)
EXTENDS LoadTest

MCSeqN == 2
MCLimit == 3
MCSize == 2
MCByte == 2
MCPrograms == Bursts \cup Retries \cup Single
                \cup {"t10", "t20", "reset", "transmit", "transmit2", "transmit3", "noiser", "lib"}
MCReaders == {"verify", "lib", "poll"}
MCPairs == ((MCPrograms \ {"t10"}) \X {"poll"}) \cup {<<"t10", "verify">>, <<"plain", "lib">>}
MCCounts == {0, 3}
MCRates == {0, 10}
MCLoads == {50, 100}
=============================================================================
