------------------------ MODULE MCTopicSubscriptions ------------------------
(* TopicSubscriptions with two clients. *)
EXTENDS TopicSubscriptions

CONSTANTS c1, c2, dispatcher
=============================================================================
