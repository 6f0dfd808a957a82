---------------------- MODULE MCProducerConsumerQueue -----------------------
(* Instances of ProducerConsumerQueue for TLC.                               *)
EXTENDS ProducerConsumerQueue
=============================================================================
