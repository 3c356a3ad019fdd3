-------------------------------- MODULE Channel --------------------------------
(***************************************************************************)
(* What the two sides of an SCMI shared-memory area promise each other.    *)
(* channel_free says who owns the area: 1 the agent, 0 the platform        *)
(* (scmi.hjson).  Only the owner touches it, ownership is given away and   *)
(* never taken, and a message that was sent comes back answered, once.     *)
(* Before the first message the agent may give the area back unused.       *)
(***************************************************************************)
CONSTANT Channels

VARIABLES owner, message, answered

channel == <<owner, message, answered>>

Init ==
  /\ owner \in [Channels -> {"agent", "platform"}]
  /\ message = [c \in Channels |-> FALSE]
  /\ answered = {}

Give(c, from, to) ==
  /\ owner[c] = from
  /\ owner' = [owner EXCEPT ![c] = to]

Open(c) ==
  /\ Give(c, "platform", "agent")
  /\ ~message[c]
  /\ UNCHANGED <<message, answered>>

GiveBack(c) ==
  /\ Give(c, "agent", "platform")
  /\ ~message[c]
  /\ UNCHANGED <<message, answered>>

Compose(c) ==
  /\ owner[c] = "agent"
  /\ c \notin answered
  /\ message' = [message EXCEPT ![c] = TRUE]
  /\ UNCHANGED <<owner, answered>>

Send(c) ==
  /\ Give(c, "agent", "platform")
  /\ message[c]
  /\ c \notin answered
  /\ UNCHANGED <<message, answered>>

Answer(c) ==
  /\ owner[c] = "platform"
  /\ message[c]
  /\ c \notin answered
  /\ answered' = answered \union {c}
  /\ UNCHANGED <<owner, message>>

Return(c) ==
  /\ Give(c, "platform", "agent")
  /\ c \in answered
  /\ UNCHANGED <<message, answered>>

Next ==
  \E c \in Channels :
    Open(c) \/ GiveBack(c) \/ Compose(c) \/ Send(c) \/ Answer(c) \/ Return(c)

Spec == Init /\ [][Next]_channel
=============================================================================
