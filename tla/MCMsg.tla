--------------------------------- MODULE MCMsg ---------------------------------
(***************************************************************************)
(* One client with each configuration that makes a difference: the types   *)
(* of resource over the transports, names that fill the buffers to the     *)
(* last byte and beyond, a client of an older release, a certificate of    *)
(* somebody else.                                                          *)
(***************************************************************************)
EXTENDS Msg

Base == [via |-> "tcp", level |-> LEVEL, goal |-> "lock", type |-> "simple", extra |-> 0,
         mode |-> 5, wait |-> 1, quantity |-> 3, create |-> 1, lifespan |-> 7, flag |-> 0,
         cert |-> "me", check |-> FALSE]

MCConfs ==
  {Base,
   [Base EXCEPT !.create = 0],
   [Base EXCEPT !.create = 0, !.wait = 0],
   [Base EXCEPT !.type = "numeric", !.wait = 0, !.flag = 1],
   [Base EXCEPT !.type = "set", !.create = 0, !.via = "tls"],
   [Base EXCEPT !.type = "hier", !.via = "tls", !.check = TRUE],
   [Base EXCEPT !.type = "sequence", !.flag = 1],
   [Base EXCEPT !.type = "timestamp", !.via = "tls"],
   [Base EXCEPT !.extra = 2],
   [Base EXCEPT !.extra = 3],
   [Base EXCEPT !.extra = 3, !.via = "tls"],
   [Base EXCEPT !.extra = 8],
   [Base EXCEPT !.extra = 9],
   [Base EXCEPT !.level = 2],
   [Base EXCEPT !.via = "tls", !.check = TRUE, !.cert = "other"],
   [Base EXCEPT !.goal = "shutdown"],
   [Base EXCEPT !.goal = "shutdown", !.flag = 1, !.via = "tls"],
   [Base EXCEPT !.via = "udp"],
   [Base EXCEPT !.via = "udp", !.level = 2]}
================================================================================
