--------------------------- MODULE MCRequestReply ---------------------------
(* Instance of RequestReply for TLC. *)
EXTENDS RequestReply

CONSTANTS t1, t2, d1, d2

MCCalls ==
  [by : {t1}, type : {"GET"}, ids : { <<d2>> }, blank : {{}}]
  \cup [by : {t2}, type : {"GET"}, ids : { <<d1>> }, blank : {{}}]
  \cup [by : {t2}, type : {"SET"}, ids : { <<d1, d2>> }, blank : { {}, {d1} }]
=============================================================================
