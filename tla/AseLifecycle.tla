---------------------------- MODULE AseLifecycle ----------------------------
(***************************************************************************)
(* What a client may rely on: how the states it has been told of its ASEs  *)
(* move.  Each step is about one client: a connection, a disconnection,    *)
(* one operation the client wrote, the start of one sink, or the loss of   *)
(* one CIS.  CIS handles, data paths, pending requests, control blocks and *)
(* the codec are not part of the promise.                                  *)
(***************************************************************************)
EXTENDS AseTable

CONSTANTS Clients, SinkAses, SourceAses

VARIABLES
  connected, \* the clients with a connection
  view       \* [Clients -> [Ases -> AseStates]]: what each has been told

Ases == SinkAses \cup SourceAses

AllIdle == [a \in Ases |-> "idle"]

Init ==
  /\ connected = {}
  /\ view = [c \in Clients |-> AllIdle]

\* A client starts afresh with every connection
Connect(c) ==
  /\ c \notin connected
  /\ connected' = connected \cup {c}
  /\ view' = [view EXCEPT ![c] = AllIdle]

Disconnect(c) ==
  /\ c \in connected
  /\ connected' = connected \ {c}
  /\ view' = [view EXCEPT ![c] = AllIdle]

\* What an operation may make of an ASE: the entry of the table or, when there
\* is no CIS left to wait for, the state after it
After(a, st, op) ==
  LET next == NextState(a \in SinkAses, st, op)
  IN  {next} \cup (IF next = "releasing" THEN {"idle"} ELSE {})
             \cup (IF next = "disabling" THEN {"qos"} ELSE {})

\* An operation is carried out only if every ASE it names accepts it; it may
\* leave some of them where they are (a QoS value out of range, no data path).
Operate(c, op, named) ==
  /\ c \in connected
  /\ \A a \in named : view[c][a] \in AcceptedIn(op)
  /\ view' \in [Clients -> [Ases -> AseStates]]
  /\ \A d \in Clients \ {c} : view'[d] = view[d]
  /\ \A a \in Ases : view'[c][a] \in
       (IF a \in named THEN After(a, view[c][a], op) ELSE {}) \cup {view[c][a]}
  /\ UNCHANGED connected

\* The data path of an enabled sink is there
StartSink(c, a) ==
  /\ c \in connected
  /\ a \in SinkAses
  /\ view[c][a] = "enabling"
  /\ view' = [view EXCEPT ![c][a] = "streaming"]
  /\ UNCHANGED connected

\* What the loss of its CIS makes of an ASE
Lost(a, st) ==
  CASE st = "releasing" -> "idle"
    [] st = "disabling" -> "qos"
    [] st = "streaming" -> IF a \in SinkAses THEN "qos" ELSE "disabling"
    [] OTHER            -> st

\* A CIS carries at most one sink and one source of one client
LoseCis(c, sinks, sources) ==
  /\ c \in connected
  /\ \A a, b \in sinks : a = b
  /\ \A a, b \in sources : a = b
  /\ view' = [view EXCEPT ![c] =
                [a \in Ases |-> IF a \in sinks \cup sources THEN Lost(a, view[c][a]) ELSE view[c][a]]]
  /\ UNCHANGED connected

Next ==
  \E c \in Clients :
    \/ Connect(c)
    \/ Disconnect(c)
    \/ \E op \in Opcodes, named \in SUBSET Ases : Operate(c, op, named)
    \/ \E a \in SinkAses : StartSink(c, a)
    \/ \E sinks \in SUBSET SinkAses, sources \in SUBSET SourceAses : LoseCis(c, sinks, sources)

Spec == Init /\ [][Next]_<<connected, view>>
=============================================================================
