----------------------------- MODULE MCInbound -----------------------------
\* Two mails of one contact, an opt-out by a short code, and a bounce.
EXTENDS Inbound, TLC

CONSTANTS s1, s2, c, short, gone, m1, m2, x, b, d1, d2, d3, d4

AllPosts == (d1 :> m1) @@ (d2 :> m2) @@ (d3 :> x) @@ (d4 :> b)
MCPostOf == [d \in Deliveries |-> AllPosts[d]]
MCFrom == (m1 :> c) @@ (m2 :> c) @@ (x :> short) @@ (b :> gone)
MCAddressee == [m \in {m1, m2} |-> s1]
MCWording == (m1 :> "optout") @@ (m2 :> "auto") @@ (x :> "optout")
MCDesk == <<s1, s2>>
=============================================================================
