-------------------------- MODULE MCRabbitMQClient --------------------------
(* RabbitMQClient with a few connections, which are interchangeable. *)
EXTENDS RabbitMQClient, TLC

Symmetry == Permutations(Conns)
=============================================================================
