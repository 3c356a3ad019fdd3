-------------------------------- MODULE Mailbox --------------------------------
(***************************************************************************)
(* The SCMI mailbox (src/hw/ips/axi_scmi_mailbox): one channel's registers *)
(* of scmi_reg_top.sv, the agent's program (software/agent_sw.c) and the   *)
(* platform's (platform_sw.c, platform_irq_handler.c).  A ring of the      *)
(* doorbell register is the platform's interrupt, a write to the           *)
(* completion register the agent's; both are levels that software clears.  *)
(*                                                                         *)
(* Each side has an interrupt controller (PLIC) of its own, external: it   *)
(* latches the level unless it is being served, gives it to who reads the  *)
(* claim register and looks at it again when it is completed.              *)
(***************************************************************************)
EXTENDS Integers

CONSTANTS Words,     \* how many words of the shared memory the test uses (5)
          MaxRuns    \* bound: times the agent's program is started

MailboxAssumption == MaxRuns \in Nat /\ Words \in Nat \ {0}

VARIABLES
  agent,        \* where main of agent_sw.c is
  platform,     \* where main of platform_sw.c is
  handler,      \* where external_irq_handler is, or "none"
  memory,       \* how many of the words hold the message
  doorbell, completion,   \* the intr bits of the two registers
  prio, enabled, pending, served,   \* PLICs: the sides of which this is true
  runs, rings, answers    \* history: counts

plic   == <<prio, enabled, pending, served>>
counts == <<runs, rings, answers>>
mailboxVars ==
  <<agent, platform, handler, memory, doorbell, completion, plic, counts>>

Sides == {"agent", "platform"}
-----------------------------------------------------------------------------
(* The interrupt controllers.                                              *)

Line(t) == IF t = "agent" THEN completion ELSE doorbell

Latch(t) ==
  /\ Line(t) /\ t \notin pending \union served
  /\ pending' = pending \union {t}
  /\ UNCHANGED <<agent, platform, handler, memory, doorbell, completion, prio, enabled, served,
                 counts>>

Interrupt(t) == t \in pending \intersect enabled \intersect prio

Claim(t) ==
  /\ pending' = pending \ {t} /\ served' = served \union {t}
  /\ UNCHANGED <<prio, enabled>>

Complete(t) == served' = served \ {t} /\ UNCHANGED <<prio, enabled, pending>>

SetPrio(t) == prio' = prio \union {t} /\ UNCHANGED <<enabled, pending, served>>

\* Mutant: the agent's enable bit is that of another source.
EnableOther(t) ==
  enabled' = enabled \union ({t} \ {"agent"}) /\ UNCHANGED <<prio, pending, served>>

Enable(t) == enabled' = enabled \union {t} /\ UNCHANGED <<prio, pending, served>>
-----------------------------------------------------------------------------
(* The agent.                                                              *)

AgentAt(from, to) == agent = from /\ agent' = to

SetUp ==
  /\ \/ AgentAt("prio", "enable") /\ SetPrio("agent")
     \/ AgentAt("enable", "write") /\ Enable("agent")
  /\ UNCHANGED <<platform, handler, memory, doorbell, completion, counts>>

(* The words are written in order; started again, the program writes the    *)
(* same words over themselves.                                              *)
WriteWord ==
  /\ agent = "write"
  /\ memory < Words /\ memory' = memory + 1
  /\ UNCHANGED <<agent, platform, handler, doorbell, completion, plic, counts>>

(* The words are read back, and the doorbell is rung if all are right.      *)
ReadBack ==
  /\ agent = "write" /\ memory = Words
  /\ agent' = "ring"
  /\ UNCHANGED <<platform, handler, memory, doorbell, completion, plic, counts>>

Ring ==
  /\ AgentAt("ring", "claim")
  /\ doorbell' = TRUE /\ rings' = rings + 1
  /\ UNCHANGED <<platform, handler, memory, completion, plic, runs, answers>>

(* while (claim != mbox_id) wfi: the core sleeps until its interrupt line   *)
(* is up, which it may be already.                                          *)
AgentClaim ==
  /\ agent = "claim"
  /\ IF Interrupt("agent") THEN agent' = "clear" /\ Claim("agent")
                           ELSE agent' = "wfi" /\ UNCHANGED plic
  /\ UNCHANGED <<platform, handler, memory, doorbell, completion, counts>>

Wake ==
  /\ Interrupt("agent") /\ AgentAt("wfi", "claim")
  /\ UNCHANGED <<platform, handler, memory, doorbell, completion, plic, counts>>

ClearCompletion ==
  /\ AgentAt("clear", "complete")
  /\ completion' = FALSE
  /\ UNCHANGED <<platform, handler, memory, doorbell, plic, counts>>

AgentComplete ==
  /\ AgentAt("complete", "done")
  /\ Complete("agent")
  /\ UNCHANGED <<platform, handler, memory, doorbell, completion, counts>>

(* The program is started again, on registers that keep what they hold.     *)
Restart ==
  /\ runs < MaxRuns
  /\ AgentAt("done", "prio")
  /\ runs' = runs + 1
  /\ UNCHANGED <<platform, handler, memory, doorbell, completion, plic, rings, answers>>

Agent == SetUp \/ WriteWord \/ ReadBack \/ Ring \/ AgentClaim \/ Wake \/ ClearCompletion
           \/ AgentComplete
-----------------------------------------------------------------------------
(* The platform.                                                           *)

PlatformAt(from, to) == handler = "none" /\ platform = from /\ platform' = to

(* mstatus and mie first, then the PLIC's registers, then wfi for ever.     *)
PlatformMain ==
  /\ \/ PlatformAt("mie", "prio") /\ UNCHANGED plic
     \/ PlatformAt("prio", "enable") /\ SetPrio("platform")
     \/ PlatformAt("enable", "wfi") /\ Enable("platform")
  /\ UNCHANGED <<agent, handler, memory, doorbell, completion, counts>>

EnterHandler ==
  /\ handler = "none" /\ platform # "mie" /\ Interrupt("platform")
  /\ handler' = "claim"
  /\ UNCHANGED <<agent, platform, memory, doorbell, completion, plic, counts>>

\* Mutant: the interrupt is completed before its source is cleared.
AfterCompleteFirst(step) ==
  CASE step = "claim" -> "complete" [] step = "complete" -> "clear" [] step = "clear" -> "read"

(* The order of the handler's three accesses.                               *)
After(step) ==
  CASE step = "claim" -> "clear" [] step = "clear" -> "complete" [] step = "complete" -> "read"

(* The claim register is read until it gives the mailbox.                   *)
PlatformClaim ==
  /\ handler = "claim" /\ Interrupt("platform")
  /\ Claim("platform") /\ handler' = After("claim")
  /\ UNCHANGED <<agent, platform, memory, doorbell, completion, counts>>

ClearDoorbell ==
  /\ handler = "clear"
  /\ doorbell' = FALSE /\ handler' = After("clear")
  /\ UNCHANGED <<agent, platform, memory, completion, plic, counts>>

PlatformComplete ==
  /\ handler = "complete"
  /\ Complete("platform") /\ handler' = After("complete")
  /\ UNCHANGED <<agent, platform, memory, doorbell, completion, counts>>

(* The message is as sent: the agent is told, and the handler returns;      *)
(* otherwise sim_halt.                                                      *)
ReadMessage ==
  /\ handler = "read"
  /\ IF memory = Words
       THEN completion' = TRUE /\ answers' = answers + 1 /\ handler' = "none"
       ELSE handler' = "halted" /\ UNCHANGED <<completion, answers>>
  /\ UNCHANGED <<agent, platform, memory, doorbell, plic, runs, rings>>

Handler == PlatformClaim \/ ClearDoorbell \/ PlatformComplete \/ ReadMessage
-----------------------------------------------------------------------------
MailboxInit ==
  /\ agent = "prio" /\ platform = "mie" /\ handler = "none"
  /\ memory = 0
  /\ doorbell = FALSE /\ completion = FALSE
  /\ prio = {} /\ enabled = {} /\ pending = {} /\ served = {}
  /\ runs = 1 /\ rings = 0 /\ answers = 0

MailboxNext ==
  \/ Agent \/ Restart
  \/ PlatformMain \/ EnterHandler \/ Handler
  \/ \E t \in Sides : Latch(t)

(* Both cores and both PLICs run.                                           *)
MailboxFairness ==
  /\ WF_mailboxVars(Agent) /\ WF_mailboxVars(PlatformMain)
  /\ WF_mailboxVars(EnterHandler) /\ WF_mailboxVars(Handler)
  /\ \A t \in Sides : WF_mailboxVars(Latch(t))
MailboxSpec == MailboxInit /\ [][MailboxNext]_mailboxVars /\ MailboxFairness
-----------------------------------------------------------------------------
(* A ring is answered once: an answer stands for a message of its own ring, *)
(* the platform is through with it when the agent hears of it, and no       *)
(* interrupt of it is left for the agent's next message.                    *)
OneAnswerPerRing ==
  /\ answers \in {rings - 1, rings}
  /\ agent \in {"clear", "complete", "done"} => answers = rings /\ handler = "none"
  /\ agent \notin {"claim", "wfi"} => ~doorbell /\ "platform" \notin pending
  /\ agent \notin {"claim", "wfi", "clear"} => ~completion /\ "agent" \notin pending

(* A ring is answered, though either side may be ready first, and the       *)
(* interrupt may come between the agent's last look and its sleep.          *)
RingAnswered == (agent = "claim") ~> (agent = "done")
-----------------------------------------------------------------------------
(* The inductive invariant: where a ring is, from the agent's to its answer.*)
MailboxTypes ==
  /\ agent \in {"prio", "enable", "write", "ring", "claim", "wfi", "clear", "complete", "done"}
  /\ handler \in {"none", "claim", "clear", "complete", "read"}
  /\ memory \in 0 .. Words
  /\ doorbell \in BOOLEAN /\ completion \in BOOLEAN
  /\ pending \subseteq Sides /\ served \subseteq Sides
  /\ rings \in Nat /\ answers \in Nat

(* The handler never reads a message that is not complete.                  *)
MessageWhole == agent \notin {"prio", "enable", "write"} => memory = Words

Unanswered ==
  /\ agent \in {"claim", "wfi"}
  /\ doorbell <=> handler \in {"none", "claim", "clear"}
  /\ "platform" \in served <=> handler \in {"clear", "complete"}
  /\ "platform" \in pending => handler \in {"none", "claim"}
  /\ ~completion /\ "agent" \notin pending \union served

Answered ==
  /\ handler = "none" /\ ~doorbell /\ "platform" \notin pending \union served
  /\ completion <=> agent \in {"claim", "wfi", "clear"}
  /\ "agent" \in pending => agent \in {"claim", "wfi"}
  /\ "agent" \in served <=> agent \in {"clear", "complete"}

MailboxInv ==
  /\ MailboxTypes /\ MessageWhole
  /\ \/ answers = rings - 1 /\ Unanswered
     \/ answers = rings /\ Answered
=============================================================================
