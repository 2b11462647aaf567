------------------------------ MODULE OwnFrame ------------------------------
(***************************************************************************)
(* An OpenWebNet frame as the WHO decoders see it: what                    *)
(* OWNMessage.__init__ leaves of it.  Its text is not modelled here (the   *)
(* module Dispatch is about the shapes of the text); a value is the number *)
(* the decoder reads with int(), or Null where nothing is written.         *)
(***************************************************************************)
EXTENDS Integers, Sequences

Null == -9999 \* None, an absent part, or an empty value

Frame(type, who, what, wpar, where, dim, val) ==
  [type |-> type, who |-> who, what |-> what, wpar |-> wpar, where |-> where,
   dim |-> dim, val |-> val]

(* *WHO*WHAT#PARAMS*WHERE## *)
Status(who, what, wpar, where) ==
  Frame("STATUS", who, what, wpar, where, Null, <<>>)

(* *#WHO*WHERE## *)
StatusRequest(who, where) ==
  Frame("STATUS_REQUEST", who, Null, <<>>, where, Null, <<>>)

(* *#WHO*WHERE*DIMENSION## *)
DimensionRequest(who, where, dim) ==
  Frame("DIMENSION_REQUEST", who, Null, <<>>, where, dim, <<>>)

(* *#WHO*WHERE*DIMENSION*VALUES## *)
DimensionReply(who, where, dim, val) ==
  Frame("DIMENSION_REQUEST_REPLY", who, Null, <<>>, where, dim, val)

(* *#WHO*WHERE*#DIMENSION*VALUES## *)
DimensionWriting(who, where, dim, val) ==
  Frame("DIMENSION_WRITING", who, Null, <<>>, where, dim, val)

(* OWNMessage.parse sends these to the event parsers and all others to the *)
(* command parsers.                                                        *)
IsEvent(f) == f.type \in {"STATUS", "DIMENSION_REQUEST_REPLY"}

(* A frame with WHAT 1000 carries the command the actuator was given.      *)
IsTranslation(f) == f.type = "STATUS" /\ f.what = 1000

EffectiveWhat(f) ==
  IF f.what = 1000 /\ f.wpar # <<>> THEN f.wpar[1] ELSE f.what
=============================================================================
