--------------------------------- MODULE MCAjax ---------------------------------
(***************************************************************************)
(* A small instance of Ajax for TLC: requests as the page makes them, a    *)
(* synchronous one, one that has no transport, and three with jsonp; half  *)
(* of them have a beforeSend.                                              *)
(***************************************************************************)
EXTENDS Ajax

Option(type, crossDomain, async, timeout, beforeSend, fixed) ==
  [type |-> type, crossDomain |-> crossDomain, async |-> async, timeout |-> timeout,
   beforeSend |-> beforeSend, fixed |-> fixed]

MCOptions ==
  {Option("json", FALSE, TRUE, TRUE, FALSE, FALSE), Option("json", FALSE, FALSE, FALSE, TRUE, FALSE),
   Option("json", TRUE, TRUE, FALSE, TRUE, FALSE), Option("jsonp", TRUE, TRUE, TRUE, TRUE, FALSE),
   Option("jsonp", TRUE, TRUE, FALSE, FALSE, TRUE), Option("jsonp", FALSE, TRUE, FALSE, FALSE, FALSE)}

===============================================================================
