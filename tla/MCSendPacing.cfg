SPECIFICATION FairSpec
CONSTANTS
  c1 = c1
  c2 = c2
  c3 = c3
  c4 = c4
  group = group
  admin = admin
  Calls = {c1, c2, c3, c4}
  NoCall = NoCall
  Chats = {group, admin}
  ChatOf <- MCChatOf
  Interval = 2
PROPERTIES
  OutboxSpec
  Paced
  CallsReturn
CHECK_DEADLOCK TRUE
