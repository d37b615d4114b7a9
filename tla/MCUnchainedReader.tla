------------------------- MODULE MCUnchainedReader -------------------------
EXTENDS UnchainedReader, TLC

CONSTANTS q1, q2, k1, k2

Bits == <<{1, 2}, {2, 3}, {1, 3}>>
App(block) == [block |-> block, tx |-> 0]
Rec(address, offset, count) == [address |-> address, offset |-> offset, count |-> count]
Range23 == [first |-> 2, last |-> 3]
Range12 == [first |-> 1, last |-> 2]

\* Address 2 with two appearances behind another's, in the second filter.
WithTwo == [range |-> Range12, bloom |-> <<{1, 2}, {2, 3}>>,
            index |-> [table |-> <<Rec(1, 0, 1), Rec(2, 1, 2)>>,
                       apps |-> <<App(1), App(1), App(2)>>]]
\* Only address 2.
Alone == [range |-> [first |-> 3, last |-> 3], bloom |-> <<{2, 3}>>,
          index |-> [table |-> <<Rec(2, 0, 1)>>, apps |-> <<App(3)>>]]
\* Others, whose bits together are those of address 2.
WithoutTwo == [range |-> [first |-> 3, last |-> 4], bloom |-> <<{1, 2, 3}>>,
               index |-> [table |-> <<Rec(1, 0, 1), Rec(3, 1, 1)>>,
                          apps |-> <<App(3), App(4)>>]]
TwoManifests == {(k1 :> WithTwo @@ k2 :> Alone), (k1 :> WithTwo @@ k2 :> WithoutTwo)}
OneSlotEach == [bloom |-> 1, index |-> 1]
=============================================================================
