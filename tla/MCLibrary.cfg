INIT Init
NEXT Next
CONSTANTS
 Page = 8
 Border = 1
 PadTop = 1
 PadBottom = 1
 MinHeight = 2
 MaxHeight = 5
 Height = 3
 Fitted = 4
 Grid = 2
 MaxArray = 4
 MaxHash = 3
 MaxForm = 3
 MaxText = 4
 MaxOnce = 2
 Room = 3
 EventName = {"load", "my:event", "your:event"}
 Handler = {"f"}
 MaxLeft = 2
 Elem = {e1, e2, e3}
 Body = body
 Marked = {e1, e2}
 Named = e1
INVARIANTS Agrees Notified Attached PageAgrees
PROPERTIES DragFollows Restores
CHECK_DEADLOCK FALSE
