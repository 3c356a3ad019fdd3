------------------------------ MODULE MCPlatform ------------------------------
(***************************************************************************)
(* What the firmware finds on the platform, for model checking: the        *)
(* watchdog, with a short counter and initial values away from its ends;   *)
(* the SCMI mailbox; the control loop on the cluster; printing over the    *)
(* UART; and the FLLs.  They share no state, so part says which one runs,  *)
(* and the others stay as reset leaves them.  The properties are those of  *)
(* the modules.                                                            *)
(***************************************************************************)
EXTENDS Wdt, Mailbox, ClusterControl, Stdio, Fll

VARIABLE part

ASSUME SaneInit
ASSUME PartsAssumption ==
  MailboxAssumption /\ ClusterAssumption /\ StdioAssumption /\ FllAssumption

PlatformInit ==
  /\ Init
  /\ MailboxInit
  /\ ControlInit
  /\ StdioInit
  /\ FllInit
  /\ \/ part = "wdt" \/ part = "mailbox" \/ part = "cluster" \/ part = "stdio" \/ part = "fll"
  \* What a part chooses at the start it chooses only when it runs.
  /\ part # "stdio" => how = [c \in Printers |-> "printf"]
  /\ part # "cluster" => stacks

PlatformNext ==
  /\ UNCHANGED part
  /\ \/ part = "wdt" /\ Next /\ UNCHANGED <<mailboxVars, controlVars, stdioVars, fllVars>>
     \/ part = "mailbox" /\ MailboxNext /\ UNCHANGED <<vars, controlVars, stdioVars, fllVars>>
     \/ part = "cluster" /\ ControlNext /\ UNCHANGED <<vars, mailboxVars, stdioVars, fllVars>>
     \/ part = "stdio" /\ StdioNext /\ UNCHANGED <<vars, mailboxVars, controlVars, fllVars>>
     \/ part = "fll" /\ FllNext /\ UNCHANGED <<vars, mailboxVars, controlVars, stdioVars>>

\* The fairness each module states, for the part that runs.
PlatformSpec ==
  /\ PlatformInit
  /\ [][PlatformNext]_<<part, vars, mailboxVars, controlVars, stdioVars, fllVars>>
  /\ WF_vars(part = "wdt" /\ Edge)
  /\ WF_mailboxVars(part = "mailbox" /\ Agent)
  /\ WF_mailboxVars(part = "mailbox" /\ PlatformMain)
  /\ WF_mailboxVars(part = "mailbox" /\ EnterHandler)
  /\ WF_mailboxVars(part = "mailbox" /\ Handler)
  /\ \A t \in Sides : WF_mailboxVars(part = "mailbox" /\ Latch(t))
  /\ WF_controlVars(part = "cluster" /\ cluster_start)
  /\ WF_controlVars(part = "cluster" /\ cluster_wait)
  /\ WF_controlVars(part = "cluster" /\ Barrier)
  /\ \A p \in PEs : WF_controlVars(part = "cluster" /\ PE(p))
  /\ \A c \in Printers : WF_stdioVars(part = "stdio" /\ Core(c))
  /\ WF_stdioVars(part = "stdio" /\ Hardware)
=============================================================================
