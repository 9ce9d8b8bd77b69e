--------------------------- MODULE MCKafkaClient ---------------------------
(***************************************************************************)
(* A small instance of KafkaClient. The calls are interchangeable, but the *)
(* run checks a liveness property, so no symmetry is used.                 *)
(***************************************************************************)
EXTENDS KafkaClient
=============================================================================
