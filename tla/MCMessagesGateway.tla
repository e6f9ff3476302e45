------------------------ MODULE MCMessagesGateway ------------------------
(***************************************************************************)
(* Instances of MessagesGateway for TLC: two request threads, two nodes of *)
(* which the second raises alarms, and ids that do not fit into a byte.    *)
(***************************************************************************)
EXTENDS MessagesGateway, TLC

\* Threads are interchangeable wherever no temporal formula is checked.
Threads == Permutations(Thread)
==========================================================================
