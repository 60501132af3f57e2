--------------------------- MODULE MCMessageQueue ---------------------------
(* Small instances of MessageQueue for TLC. *)
EXTENDS MessageQueue, TLC

CONSTANTS p1, p2, c1, c2, e1, e2

Msg(e, u, b) == [event |-> e, urgent |-> u, big |-> b]

\* Two events; e2 is sometimes declared urgent and its data is in a heap
\* buffer.
MixedMessages == {Msg(e1, FALSE, FALSE), Msg(e2, FALSE, TRUE), Msg(e2, TRUE, TRUE)}
OnlyNormal == {m \in MixedMessages : ~m.urgent}
UrgentAndNormal == {Msg(e1, FALSE, FALSE), Msg(e2, TRUE, FALSE)}

PlainCalls == [slot : {"current"}, events : {{}}, wait : WaitKinds]
OnlyCalls == [slot : {"rx_only"}, events : {{e1}, {e2}}, wait : WaitKinds]
AllCalls == PlainCalls \cup OnlyCalls
BlockingReceive == {k \in PlainCalls : k.wait = "forever"}
BlockingReceiveOnly == {k \in OnlyCalls : k.wait = "forever"}
ReceiveAndTryOnly == BlockingReceive \cup {k \in OnlyCalls : k.wait = "try"}
ReceiveAndReceiveOnly == BlockingReceive \cup BlockingReceiveOnly

NoLists == {}
SelectLists == {{}, {e2}}
AnyList == {{e1}, {e1, e2}}

Symmetry == Permutations(Nodes)
=============================================================================
