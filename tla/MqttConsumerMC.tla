--------------------------- MODULE MqttConsumerMC ---------------------------
EXTENDS MqttConsumer, TLC

CONSTANTS c1, c2

\* One call of any kind beside one that shares its topic, or the broker with it.
MCKinds == c1 :> {"request", "read", "retained", "fire", "stream"} @@ c2 :> {"request"}

\* One of the two may have to connect again.
MCAttempts == c1 :> 2 @@ c2 :> 1

FairSpec == Spec /\ Fairness
=============================================================================
