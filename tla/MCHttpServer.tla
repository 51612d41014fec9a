---------------------------- MODULE MCHttpServer ----------------------------
(* Small instances of the request handler.  A timestamp of 0 is older than *)
(* the window as soon as the clock has moved past it; 2 is in the future   *)
(* at first and stays valid to the end.  The entry behind the table of two *)
(* doors leads to the second.                                              *)
EXTENDS HttpServer

Genuine(route, stamp, ip) ==
    [body |-> "json", stamp |-> stamp, token |-> TRUE, route |-> route, ip |-> ip]

With(m, field, value) == [m EXCEPT ![field] = value]

MCDoors == {"d1", "d2"}
MCStrayDoors == {"d2"}

Control == Genuine("control", 0, "d1")
SetList == Genuine("setlist", 2, "d1")

MCMessages ==
    {Control, SetList,
     Genuine("other", 2, "d1"),
     Genuine("setlist", 2, "d2"),
     Genuine("control", 2, "unknown"),
     Genuine("setlist", 2, "unknown"),
     With(Control, "token", FALSE),
     With(SetList, "body", "unread"),
     With(SetList, "body", "garbled"),
     With(SetList, "body", "badStamp"),
     With(Control, "body", "badToken"),
     With(Control, "body", "badField")}
=============================================================================
