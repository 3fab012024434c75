------------------------------ MODULE MCReseed ------------------------------
EXTENDS Reseed

MCFixtures == <<[id |-> "pair", iso |-> "IE", text |-> "clauses"],
                [id |-> "solo", iso |-> "IE", text |-> "clauses"],
                [id |-> "bare", iso |-> "GB", text |-> "empty"]>>
\* The second file has no v1 beside it.
MCV2Files == <<"pair", "stray">>

Good == [unknownKey |-> FALSE, jurisdictions |-> {"IE", "GB"}, sectors |-> <<"banking">>,
         cadence |-> 24,
         documents |-> <<[id |-> "pair", sector |-> "default", cadence |-> 1]>>]

\* Only one country, one cadence; and a file the schema refuses.
MCCurations == {Good,
                [Good EXCEPT !.jurisdictions = {"IE"}, !.documents = <<>>],
                [Good EXCEPT !.sectors = <<>>]}
=============================================================================
