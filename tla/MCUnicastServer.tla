-------------------------- MODULE MCUnicastServer --------------------------
(* Instances of UnicastServer for model checking *)
EXTENDS UnicastServer, FiniteSets

CONSTANTS phone, tablet, cisA, cisB, h1, h2

\* The id no ASE has
UnknownAse == 99

SinkOnly == {10}
OneSource == {12}
NoSource == {}

MCAses == SinkAses \cup SourceAses

\* No faulty parameter, or one ASE with a fault of one kind
OneFault == {[a \in MCAses |-> "none"]} \cup
            {[[a \in MCAses |-> "none"] EXCEPT ![b] = k] : b \in MCAses, k \in {"reject", "skip"}}

\* Writes that name up to two ASEs, each once, possibly after or before an unknown one
ShortLists ==
  {<<a>> : a \in MCAses} \cup {l \in MCAses \X MCAses : l[1] # l[2]} \cup
  LET a == CHOOSE b \in MCAses : TRUE IN {<<a, UnknownAse>>, <<UnknownAse, a>>}

\* Receiver Start Ready is for source ASEs only
DirectedOps ==
  [a \in MCAses |-> IF a \in SinkAses THEN Opcodes \ {"receiver_start_ready"} ELSE Opcodes]

\* Sinks and sources on the one bidirectional CIS A
Bidirectional == [c \in Clients |-> {[a \in MCAses |-> cisA]}]

\* The sinks on CIS A, the sources on CIS B
Unidirectional == [c \in Clients |-> {[a \in MCAses |-> IF a \in SinkAses THEN cisA ELSE cisB]}]

\* No faulty parameter, and writes that name one ASE
NoFault == {[a \in MCAses |-> "none"]}
SingleLists == {<<a>> : a \in MCAses}

\* Every CIS has a handle of its own
OwnHandle == [c \in Clients |-> [id \in CisIds |-> IF id = cisA THEN {h1} ELSE {h2}]]

\* Every client's CISes have a handle of their own
HandlePerClient == [c \in Clients |-> [id \in CisIds |-> IF c = phone THEN {h1} ELSE {h2}]]
=============================================================================
