---------------------------- MODULE MCPhonePool ----------------------------
\* Two numbers of one seat; the first may be sent back to the regulator, and one
\* request is refused for having no capacity.
EXTENDS PhonePool

CONSTANTS w1, w2, ana, ben, h1, h2, k1, k2

OneSeat(n) == [number |-> n, state |-> "active", capacity |-> 1]
Requests == {OneSeat(1), OneSeat(2),
             [number |-> 1, state |-> "pending_regulatory", capacity |-> 1],
             [number |-> 2, state |-> "active", capacity |-> 0]}
=============================================================================
