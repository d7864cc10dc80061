\* One worker, the shipped configuration, with yields after every 1 message.
SPECIFICATION FairSpec
CONSTANTS
  Workers = {w1}
  Senders = {io, main}
  Actors = {a1, a2}
  Msgs = {m1, m2, m3}
  MaxThroughput = 1
  None = None
INVARIANTS
  NoStrandedMessage
PROPERTIES
  ImplementsDelivery
  Delivered
