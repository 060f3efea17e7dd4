---------------------------- MODULE MCSqsConsumer ----------------------------
(***************************************************************************)
(* The instances of SqsConsumer that TLC checks.                           *)
(***************************************************************************)
EXTENDS SqsConsumer

AllValid == [m \in Msgs |-> "valid"]
\* A message that is accepted, one that is accepted or refused as the database
\* has it, and one that never decodes.
Mixed == [m \in Msgs |-> CASE m = "m1" -> "valid" [] m = "m2" -> "unsure"
                           [] OTHER -> "invalid"]
=============================================================================
