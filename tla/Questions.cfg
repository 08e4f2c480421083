\* Three turns and two replicas of the patience loop, three questions and an answer.
CONSTANTS
  ana = ana  ben = ben  ask1 = ask1  ask2 = ask2  ask3 = ask3  reply = reply
  t1 = t1  t2 = t2  t3 = t3  c1 = c1  c2 = c2
  None = None
  Seats = {ana, ben}
  Decisions = {ask1, ask2, ask3, reply}
  Kind <- Kinds
  Sender <- Senders
  Recipient <- Recipients
  Question <- About
  Turns = {t1, t2, t3}
  Plans <- Planned
  Clocks = {c1, c2}
  Cap <- Caps
  Reaches <- Everyone
  Day = 1
  Batch = 1
  MaxTime = 1
  MaxActs = 1
SPECIFICATION FairSpec
INVARIANTS EveryWakeIsPaid OneOpenQuestionADay
PROPERTIES SilenceIsAnswered
CHECK_DEADLOCK FALSE
