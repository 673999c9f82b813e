---------------------------- MODULE MCConsumer ----------------------------
(***************************************************************************)
(* Instances of Consumer.  Window covers all transmissions of a request    *)
(* whose first RTO is the longest possible, LifeTime: 2 + 4 periods for    *)
(* two transmissions, 2 + 4 + 8 for three, as the 3 minutes of the code    *)
(* cover those of its default lifetime of 2 s.                             *)
(***************************************************************************)
EXTENDS Consumer
=============================================================================
