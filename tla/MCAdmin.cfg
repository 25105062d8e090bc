SPECIFICATION MCSpec
CONSTANTS
 Server = {s1, s2}
 Name = {n1, n2}
 Password = {x}
 NoPassword = none
 OnlineServer = {s1}
 Slot = {slot1, slot2}
 MaxOps = 4
 PageOps = 3
INVARIANTS LoginsKnown SubscriptionsMerge TableCurrent
PROPERTIES ServersCatchUp
CHECK_DEADLOCK FALSE
