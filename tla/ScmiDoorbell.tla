----------------------------- MODULE ScmiDoorbell ------------------------------
(***************************************************************************)
(* The back-to-back SCMI exchange between an external agent                *)
(* (tb_scmi_doorbell_b2b.sv) and the firmware (scmi-ext-agent-b2b.c).      *)
(*                                                                         *)
(* Message number c has a shared-memory area, a doorbell and an interrupt  *)
(* source of its own, all numbered c here.  The agent handles the          *)
(* messages in order: it clears the channel status, polls until the        *)
(* firmware frees the channel, writes the message, sets the channel busy,  *)
(* rings and, 1us later, stops ringing.  irq_mask is never cleared, so     *)
(* every ring also rings the doorbells of the earlier messages.            *)
(*                                                                         *)
(* The firmware is one core: main opens the channels one by one and        *)
(* enables their interrupts; a handler interrupts it between two of its    *)
(* steps.  The doorbells are the registers of tb/doorbell.sv, one clock    *)
(* edge a step; the interrupt controller (PLIC) is external.               *)
(***************************************************************************)
EXTENDS Integers

CONSTANT NUM_SCMI_MSG

\* One enable register of the PLIC holds the sources 1 .. 31.
ASSUME MsgAssumption == NUM_SCMI_MSG \in 1 .. 31

Channels == 0 .. NUM_SCMI_MSG - 1

VARIABLES
  status, header, payload,     \* the shared-memory areas
  agent, msg_cnt,              \* where the agent is, and at which message
  trigger, ring, irq,          \* doorbell.sv: db_trigger_i, irq_state_q, irq_q
  pending, enable, prio,       \* the PLIC: latched sources and its registers
  main, opened,                \* where main is, and at which channel
  handler, serving,            \* where the interrupt handler is, for whom
  answers                      \* history: answers given on each channel

memory  == <<status, header, payload>>
caller  == <<agent, msg_cnt>>
bell    == <<trigger, ring, irq>>
plic    == <<pending, enable, prio>>
callee  == <<main, opened, handler, serving, answers>>
vars    == <<memory, caller, bell, plic, callee>>

-----------------------------------------------------------------------------
(* The agent.                                                               *)

AgentAt(from, to) ==
  /\ agent = from
  /\ msg_cnt \in Channels
  /\ agent' = to

ClearStatus ==
  /\ AgentAt("clear", "poll")
  /\ status' = [status EXCEPT ![msg_cnt] = 0]
  /\ UNCHANGED <<header, payload, msg_cnt, bell, plic, callee>>

\* Mutant: the agent does not wait for the channel.
PollStatus_Once ==
  /\ AgentAt("poll", "compose")
  /\ UNCHANGED <<memory, msg_cnt, bell, plic, callee>>

PollStatus ==
  /\ AgentAt("poll", "compose")
  /\ status[msg_cnt] = 1
  /\ UNCHANGED <<memory, msg_cnt, bell, plic, callee>>

(* The flag and the header.                                                 *)
WriteMessage ==
  /\ AgentAt("compose", "hand_over")
  /\ header' = [header EXCEPT ![msg_cnt] = TRUE]
  /\ UNCHANGED <<status, payload, msg_cnt, bell, plic, callee>>

SetBusy ==
  /\ AgentAt("hand_over", "ring")
  /\ status' = [status EXCEPT ![msg_cnt] = 0]
  /\ UNCHANGED <<header, payload, msg_cnt, bell, plic, callee>>

RingDoorbell ==
  /\ AgentAt("ring", "ringing")
  /\ trigger' = [c \in Channels |-> c <= msg_cnt]
  /\ UNCHANGED <<memory, msg_cnt, ring, irq, plic, callee>>

BeingServed(c) == handler # "none" /\ serving = c

(* The interrupt line is up and the PLIC has had time to latch it.          *)
Seen(c) == irq[c] /\ (pending[c] \/ BeingServed(c))

\* Mutant: the agent keeps ringing.
StopRinging_Never ==
  /\ AgentAt("ringing", "clear")
  /\ \A c \in Channels : trigger[c] => Seen(c)
  /\ msg_cnt' = msg_cnt + 1
  /\ UNCHANGED <<memory, bell, plic, callee>>

(* 1us holds many clock edges of the doorbells and of the PLIC.             *)
StopRinging ==
  /\ AgentAt("ringing", "clear")
  /\ \A c \in Channels : trigger[c] => Seen(c)
  /\ trigger' = [c \in Channels |-> FALSE]
  /\ msg_cnt' = msg_cnt + 1
  /\ UNCHANGED <<memory, ring, irq, plic, callee>>

Agent == ClearStatus \/ PollStatus \/ WriteMessage \/ SetBusy \/ RingDoorbell \/ StopRinging

-----------------------------------------------------------------------------
(* The doorbells, all on one clock: IDLE (ring FALSE) and RING.             *)
Doorbell ==
  /\ ring' = trigger
  /\ irq' = [c \in Channels |-> ring[c] /\ trigger[c]]
  /\ <<ring', irq'>> # <<ring, irq>>
  /\ UNCHANGED <<memory, caller, trigger, plic, callee>>

(* The PLIC latches a level-sensitive source unless it is being served.     *)
Latch(c) ==
  /\ irq[c]
  /\ ~pending[c]
  /\ ~BeingServed(c)
  /\ pending' = [pending EXCEPT ![c] = TRUE]
  /\ UNCHANGED <<memory, caller, bell, enable, prio, callee>>

-----------------------------------------------------------------------------
(* The firmware's main loop, while no handler runs.                         *)

MainAt(from, to) ==
  /\ handler = "none"
  /\ main = from
  /\ main' = to

scmi_channel_init ==
  /\ MainAt("init", "enable")
  /\ status' = [status EXCEPT ![opened] = 1]
  /\ UNCHANGED <<header, payload, caller, bell, plic, opened, handler, serving, answers>>

(* writew of one bit to the enable register, which holds every source.      *)
EnableIrq ==
  /\ MainAt("enable", "prio")
  /\ enable' = {opened}
  /\ UNCHANGED <<memory, caller, bell, pending, prio, opened, handler, serving, answers>>

RaisePriority ==
  /\ MainAt("prio", IF opened + 1 \in Channels THEN "init" ELSE "done")
  /\ prio' = prio \union {opened}
  /\ opened' = opened + 1
  /\ UNCHANGED <<memory, caller, bell, pending, enable, handler, serving, answers>>

(* main returns into exit, whose pos_wait_forever clears every bit of the   *)
(* core's interrupt enable register: the PLIC is not listened to any more.  *)
(* The bench may stop the simulation from here on, or the agent go on.      *)
exit ==
  /\ MainAt("done", "exited")
  /\ UNCHANGED <<memory, caller, bell, plic, opened, handler, serving, answers>>

Main == scmi_channel_init \/ EnableIrq \/ RaisePriority \/ exit

-----------------------------------------------------------------------------
(* The interrupt: claimed at the PLIC, lowest source first, handled by      *)
(* irq<SRC>_handle_callee_resp, completed at the PLIC.                      *)

Claimable == {c \in enable \cap prio : pending[c]}

Claim ==
  /\ handler = "none" /\ main # "exited"
  /\ \E c \in Claimable :
       /\ \A d \in Claimable : c <= d
       /\ serving' = c
       /\ pending' = [pending EXCEPT ![c] = FALSE]
  /\ handler' = "check"
  /\ UNCHANGED <<memory, caller, bell, enable, prio, main, opened, answers>>

HandlerAt(from, to) ==
  /\ handler = from
  /\ handler' = to
  /\ UNCHANGED <<serving, main, opened>>

\* Mutant: every interrupt is taken for a message.
CheckStatus_Always ==
  /\ HandlerAt("check", "respond")
  /\ UNCHANGED <<memory, caller, bell, plic, answers>>

\* Mutant: the status looked at is that of the first area.
CheckStatus_First ==
  /\ HandlerAt("check", IF status[0] = 0 THEN "respond" ELSE "complete")
  /\ UNCHANGED <<memory, caller, bell, plic, answers>>

CheckStatus ==
  /\ HandlerAt("check", IF status[serving] = 0 THEN "respond" ELSE "complete")
  /\ UNCHANGED <<memory, caller, bell, plic, answers>>

(* response is computed from scmi_memory before scmi_memory is assigned:    *)
(* the answer reaches this channel's payload or some place outside it.      *)
base_protocol_response ==
  /\ HandlerAt("respond", "free")
  /\ payload' \in {payload, [payload EXCEPT ![serving] = TRUE]}
  /\ answers' = [answers EXCEPT ![serving] = @ + 1]
  /\ UNCHANGED <<status, header, caller, bell, plic>>

SetFree ==
  /\ HandlerAt("free", "complete")
  /\ status' = [status EXCEPT ![serving] = 1]
  /\ UNCHANGED <<header, payload, caller, bell, plic, answers>>

Complete ==
  /\ HandlerAt("complete", "none")
  /\ UNCHANGED <<memory, caller, bell, plic, answers>>

Handler == CheckStatus \/ base_protocol_response \/ SetFree \/ Complete

-----------------------------------------------------------------------------
(* The shared memory is not initialised.                                    *)
Init ==
  /\ status \in [Channels -> {0, 1}]
  /\ header = [c \in Channels |-> FALSE]
  /\ payload = [c \in Channels |-> FALSE]
  /\ agent = "clear" /\ msg_cnt = 0
  /\ trigger = [c \in Channels |-> FALSE]
  /\ ring = [c \in Channels |-> FALSE]
  /\ irq = [c \in Channels |-> FALSE]
  /\ pending = [c \in Channels |-> FALSE]
  /\ enable = {} /\ prio = {}
  /\ main = "init" /\ opened = 0
  /\ handler = "none" /\ serving = 0
  /\ answers = [c \in Channels |-> 0]

Next ==
  \/ Agent
  \/ Doorbell
  \/ \E c \in Channels : Latch(c)
  \/ Main
  \/ Claim
  \/ Handler

Spec == Init /\ [][Next]_vars

(* The simulated agent, the clock and the PLIC are always running, and the  *)
(* core always executes.  Nothing is fair between main and an interrupt.    *)
(* The 1us of a ring pass whatever the handler does meanwhile (SF).         *)
FairSpec ==
  /\ Spec
  /\ WF_vars(Agent)
  /\ SF_vars(StopRinging)
  /\ WF_vars(Doorbell)
  /\ \A c \in Channels : WF_vars(Latch(c))
  /\ WF_vars(Main)
  /\ WF_vars(Claim)
  /\ WF_vars(Handler)

-----------------------------------------------------------------------------
(* Every variable holds a value of its type.                                *)
TypeOK ==
  /\ status \in [Channels -> {0, 1}]
  /\ header \in [Channels -> BOOLEAN]
  /\ payload \in [Channels -> BOOLEAN]
  /\ agent \in {"clear", "poll", "compose", "hand_over", "ring", "ringing"}
  /\ msg_cnt \in 0 .. NUM_SCMI_MSG
  /\ trigger \in [Channels -> BOOLEAN]
  /\ ring \in [Channels -> BOOLEAN]
  /\ irq \in [Channels -> BOOLEAN]
  /\ pending \in [Channels -> BOOLEAN]
  /\ enable \subseteq Channels
  /\ prio \subseteq Channels
  /\ main \in {"init", "enable", "prio", "done", "exited"}
  /\ opened \in 0 .. NUM_SCMI_MSG
  /\ handler \in {"none", "check", "respond", "free", "complete"}
  /\ serving \in Channels
  /\ answers \in [Channels -> Nat]

Sent(c) == c < msg_cnt \/ (c = msg_cnt /\ agent \in {"ring", "ringing"})

(* The free status the agent polled is not stale when it writes the         *)
(* message: the firmware leaves the channel alone, although main opens      *)
(* channels and the handler frees them at any time.                         *)
OwnedWhileWritten ==
  agent \in {"compose", "hand_over"} => status[msg_cnt] = 1

(* The handler answers only messages that were sent, each once, whatever    *)
(* the repeated rings of old doorbells make the PLIC deliver.               *)
AnsweredOnce ==
  \A c \in Channels : answers[c] <= IF Sent(c) THEN 1 ELSE 0

(* A sent message keeps its channel busy until it is answered: a later      *)
(* scmi_channel_init never frees it.                                        *)
BusyUntilAnswered ==
  \A c \in Channels : Sent(c) /\ status[c] = 1 => answers[c] = 1

(* A message without an answer has its ring on the way, latched or being    *)
(* served.  Neither the end of the 1us, nor a handler that finds nothing to *)
(* do, nor a write of the enable register loses it: only an interrupt that  *)
(* is off, or the firmware's exit, leaves a message unanswered.             *)
NoRingLost ==
  \A c \in Channels : Sent(c) /\ answers[c] = 0 =>
    trigger[c] \/ pending[c] \/ BeingServed(c) \/ (c = msg_cnt /\ agent = "ring")

(* When the handler is past its status check, the message is complete and   *)
(* the agent is done with the channel.                                      *)
HandlerOwnsChannel ==
  handler \in {"respond", "free"} =>
    Sent(serving) /\ header[serving] /\ status[serving] = 0

(* Each shared-memory area follows the ownership protocol of Channel.       *)
OwnerOf == [c \in Channels |-> IF status[c] = 1 THEN "agent" ELSE "platform"]
AnsweredOf == {c \in Channels : answers[c] > 0}

Area == INSTANCE Channel WITH
  owner <- OwnerOf, message <- header, answered <- AnsweredOf

ImplementsChannel == Area!Spec

(* The inductive invariant: rings and interrupts only come from sent        *)
(* messages, sent messages only from opened channels, and a sent message    *)
(* whose channel is busy was either not answered or is about to be freed.   *)
Opened(c) == c < opened \/ (c = opened /\ main \in {"enable", "prio"})

MainPosition ==
  IF main \in {"done", "exited"} THEN opened = NUM_SCMI_MSG ELSE opened \in Channels

RingsAreSent ==
  /\ \A c \in Channels :
       trigger[c] \/ ring[c] \/ irq[c] \/ pending[c] => Sent(c)
  /\ handler # "none" => Sent(serving)

AgentPosition ==
  /\ agent \in {"compose", "hand_over", "ring", "ringing"} =>
       msg_cnt \in Channels /\ Opened(msg_cnt)
  /\ agent = "hand_over" => header[msg_cnt]
  /\ agent = "poll" => msg_cnt \in Channels /\ (status[msg_cnt] = 1 => Opened(msg_cnt))

SentState ==
  \A c \in Channels :
    /\ Sent(c) => Opened(c) /\ header[c]
    /\ header[c] => Sent(c) \/ (c = msg_cnt /\ agent = "hand_over")
    /\ Sent(c) /\ status[c] = 0 /\ answers[c] = 1 => handler = "free" /\ serving = c

HandlerPosition ==
  /\ handler = "respond" => answers[serving] = 0
  /\ handler \in {"free", "complete"} => answers[serving] = 1

IInv ==
  /\ TypeOK
  /\ OwnedWhileWritten
  /\ AnsweredOnce
  /\ BusyUntilAnswered
  /\ NoRingLost
  /\ HandlerOwnsChannel
  /\ MainPosition
  /\ RingsAreSent
  /\ AgentPosition
  /\ SentState
  /\ HandlerPosition

(* Interrupts do not keep main from opening every channel and returning:    *)
(* the doorbells are level-sensitive, but the agent stops ringing.          *)
MainFinishes == <>(main = "exited")

(* Every message is answered (tb_scmi_doorbell_b2b.sv:22, "Caller sends     *)
(* interrupt to callee to notify the change in channel status").  The code  *)
(* does not keep it: EnableIrq turns the earlier interrupts off, and exit   *)
(* all of them.                                                             *)
EveryMessageAnswered ==
  \A c \in Channels : Sent(c) ~> answers[c] = 1

=============================================================================
