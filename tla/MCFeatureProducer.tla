------------------------- MODULE MCFeatureProducer -------------------------
(* A small instance of the producer for TLC: two threads publish three     *)
(* events through a buffer of two, and the retries can run out.            *)
EXTENDS FeatureProducer, TLC

CONSTANTS t1, t2

MCThreads == {t1, t2}
MCCalls   == t1 :> 2 @@ t2 :> 1
=============================================================================
