---------------------------- MODULE MCQuestions ----------------------------
\* Ana may ask Ben twice, in turns that overlap; Ben may answer her
\* first question and ask her one.
EXTENDS Questions, TLC

CONSTANTS ana, ben, ask1, ask2, ask3, reply, t1, t2, t3, c1, c2

Kinds == [k \in Decisions |-> IF k = reply THEN "answer" ELSE "question"]
Senders == [k \in Decisions |-> IF k \in {ask1, ask2} THEN ana ELSE ben]
Recipients == [k \in Decisions |-> IF k \in {ask1, ask2} THEN ben ELSE ana]
About == [k \in Decisions |-> IF k = reply THEN ask1 ELSE None]
Planned == {<<t1, ask1>>, <<t2, ask2>>, <<t3, ask3>>, <<t3, reply>>}
Caps == [s \in Seats |-> 2]
Everyone == (Seats \X Seats) \ {<<s, s>> : s \in Seats}
=============================================================================
