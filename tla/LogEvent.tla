------------------------------ MODULE LogEvent ------------------------------
(***************************************************************************)
(* The part of a ParsedEvent that later stages read: a record [host,       *)
(* status, level, lat], with "" or 0 for what a line does not tell, and    *)
(* lat in milliseconds; and which events the counter takes for errors.     *)
(***************************************************************************)
EXTENDS Integers

\* The zero value of the type.
NoEvent == [host |-> "", status |-> 0, level |-> "", lat |-> 0]

IsHttp(e) == e.status # 0
IsError(e) ==
  IF IsHttp(e) THEN e.status >= 400 ELSE e.level \in {"error", "fatal"}
=============================================================================
