\* Two replicas over two mails of one contact, a text and a bounce.
CONSTANTS
  s1 = s1  s2 = s2  c = c  short = short  gone = gone
  m1 = m1  m2 = m2  x = x  b = b
  d1 = d1  d2 = d2  d3 = d3  d4 = d4
  Workers = {1, 2}
  Seats = {s1, s2}
  Contacts = {c, short, gone}
  Storable = {c, gone}
  Mails = {m1, m2}
  Texts = {x}
  Bounces = {b}
  Deliveries = {d1, d2, d3, d4}
  PostOf <- MCPostOf
  From <- MCFrom
  Addressee <- MCAddressee
  Wording <- MCWording
  Desk <- MCDesk
  Nobody = Nobody
  Batch = 2
  MaxAttempts = 2
  MaxActs = 1
SPECIFICATION FairSpec
INVARIANTS MailLandsOnce DoneMeansLanded OneThreadPerContact
PROPERTIES EveryDeliveryEnds
CHECK_DEADLOCK FALSE
