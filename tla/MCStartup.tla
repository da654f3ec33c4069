----------------------------- MODULE MCStartup -----------------------------
(* Instances of Startup for TLC. *)
EXTENDS Startup

CONSTANTS p1, p2, p3, p4, old, new, other

FourReplicas == {p1, p2, p3, p4}

OldNewAndOther == {old, new, other}

\* The client password is being rotated: p1 has the new one.  A fourth replica has
\* the protocol that is not implemented, and a password of its own.
RotatedEnvironment == [p \in Replicas |-> CASE p = p1 -> new [] p = p4 -> other [] OTHER -> old]

MixedProtocols == [p \in Replicas |-> IF p = p4 THEN "mqtt5.0" ELSE "amqp0.9.1"]
=============================================================================
