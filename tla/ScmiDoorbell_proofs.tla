-------------------------- MODULE ScmiDoorbell_proofs --------------------------
(***************************************************************************)
(* For every number of messages: whatever the order in which the agent,    *)
(* the firmware's main loop, its interrupt handler, the doorbells and the  *)
(* PLIC take their steps, a channel is only touched by the side that owns  *)
(* it, and no message is answered twice or before it was sent.             *)
(***************************************************************************)
EXTENDS ScmiDoorbell, TLAPS

(* The initial states satisfy the invariant.                                *)
LEMMA InitOK == Init => IInv
<1> SUFFICES ASSUME Init PROVE IInv
  OBVIOUS
<1> USE MsgAssumption DEF Init, Channels
<1>1. TypeOK
  BY DEF TypeOK
<1>2. OwnedWhileWritten /\ AnsweredOnce /\ BusyUntilAnswered /\ NoRingLost /\ HandlerOwnsChannel
  BY DEF OwnedWhileWritten, AnsweredOnce, BusyUntilAnswered, NoRingLost,
       HandlerOwnsChannel, Sent
<1>3. MainPosition /\ RingsAreSent /\ AgentPosition /\ SentState /\ HandlerPosition
  BY DEF MainPosition, RingsAreSent, AgentPosition, SentState,
       HandlerPosition, Sent
<1> QED BY <1>1, <1>2, <1>3 DEF IInv

(* The agent's steps keep the invariant.                                    *)
LEMMA ClearStatusOK ==
  ASSUME IInv, ClearStatus
  PROVE  IInv'
<1> USE MsgAssumption DEF ClearStatus, AgentAt, bell, plic, callee
<1>1. TypeOK'
  BY DEF IInv, TypeOK
<1>2. MainPosition'
  BY DEF IInv, MainPosition
<1>3. RingsAreSent' /\ AgentPosition'
  BY DEF IInv, TypeOK, Sent, RingsAreSent, AgentPosition
<1>4. OwnedWhileWritten' /\ HandlerOwnsChannel' /\ HandlerPosition'
  BY DEF IInv, Sent, OwnedWhileWritten, HandlerOwnsChannel, HandlerPosition
<1>5. AnsweredOnce' /\ BusyUntilAnswered' /\ SentState'
  BY DEF IInv, TypeOK, Sent, Opened, AnsweredOnce, BusyUntilAnswered, SentState
<1>6. NoRingLost'
  BY DEF IInv, TypeOK, Sent, NoRingLost, BeingServed, HandlerPosition, Channels
<1> QED BY <1>1, <1>2, <1>3, <1>4, <1>5, <1>6 DEF IInv

LEMMA PollStatusOK ==
  ASSUME IInv, PollStatus
  PROVE  IInv'
<1> USE MsgAssumption DEF PollStatus, AgentAt, memory, bell, plic, callee
<1>1. TypeOK'
  BY DEF IInv, TypeOK
<1>2. MainPosition'
  BY DEF IInv, MainPosition
<1>3. RingsAreSent' /\ AgentPosition'
  BY DEF IInv, Sent, Opened, RingsAreSent, AgentPosition
<1>4. OwnedWhileWritten' /\ HandlerOwnsChannel' /\ HandlerPosition'
  BY DEF IInv, Sent, OwnedWhileWritten, HandlerOwnsChannel, HandlerPosition
<1>5. AnsweredOnce' /\ BusyUntilAnswered' /\ SentState'
  BY DEF IInv, Sent, Opened, AnsweredOnce, BusyUntilAnswered, SentState
<1>6. NoRingLost'
  BY DEF IInv, TypeOK, Sent, NoRingLost, BeingServed, HandlerPosition, Channels
<1> QED BY <1>1, <1>2, <1>3, <1>4, <1>5, <1>6 DEF IInv

LEMMA WriteMessageOK ==
  ASSUME IInv, WriteMessage
  PROVE  IInv'
<1> USE MsgAssumption DEF WriteMessage, AgentAt, bell, plic, callee
<1>1. TypeOK'
  BY DEF IInv, TypeOK
<1>2. MainPosition'
  BY DEF IInv, MainPosition
<1>3. RingsAreSent' /\ AgentPosition'
  BY DEF IInv, TypeOK, Sent, Opened, RingsAreSent, AgentPosition
<1>4. OwnedWhileWritten' /\ HandlerOwnsChannel' /\ HandlerPosition'
  BY DEF IInv, Sent, OwnedWhileWritten, HandlerOwnsChannel, HandlerPosition
<1>5. AnsweredOnce' /\ BusyUntilAnswered' /\ SentState'
  BY DEF IInv, Sent, Opened, AnsweredOnce, BusyUntilAnswered, SentState
<1>6. NoRingLost'
  BY DEF IInv, TypeOK, Sent, NoRingLost, BeingServed, HandlerPosition, Channels
<1> QED BY <1>1, <1>2, <1>3, <1>4, <1>5, <1>6 DEF IInv

LEMMA SetBusyOK ==
  ASSUME IInv, SetBusy
  PROVE  IInv'
<1> USE MsgAssumption DEF SetBusy, AgentAt, bell, plic, callee
<1>1. TypeOK'
  BY DEF IInv, TypeOK
<1>2. MainPosition'
  BY DEF IInv, MainPosition
<1>3. RingsAreSent' /\ AgentPosition'
  BY DEF IInv, Sent, Opened, RingsAreSent, AgentPosition
<1>4. OwnedWhileWritten' /\ HandlerOwnsChannel' /\ HandlerPosition'
  BY DEF IInv, Sent, OwnedWhileWritten, HandlerOwnsChannel, HandlerPosition
<1>5. AnsweredOnce' /\ BusyUntilAnswered' /\ SentState'
  <2>1. ~Sent(msg_cnt) /\ answers[msg_cnt] = 0 /\ header[msg_cnt]
    BY DEF IInv, TypeOK, Channels, Sent, AnsweredOnce, AgentPosition
  <2>2. \A c \in Channels : Sent(c)' <=> Sent(c) \/ c = msg_cnt
    BY DEF IInv, TypeOK, Channels, Sent
  <2> QED
    BY <2>1, <2>2 DEF IInv, TypeOK, Channels, Opened, AnsweredOnce,
         BusyUntilAnswered, SentState, AgentPosition, OwnedWhileWritten
<1>6. NoRingLost'
  BY DEF IInv, TypeOK, Sent, NoRingLost, BeingServed, HandlerPosition, Channels
<1> QED BY <1>1, <1>2, <1>3, <1>4, <1>5, <1>6 DEF IInv

LEMMA RingDoorbellOK ==
  ASSUME IInv, RingDoorbell
  PROVE  IInv'
<1> USE MsgAssumption DEF RingDoorbell, AgentAt, memory, plic, callee
<1>1. TypeOK'
  BY DEF IInv, TypeOK
<1>2. MainPosition'
  BY DEF IInv, MainPosition
<1>3. RingsAreSent' /\ AgentPosition'
  BY DEF IInv, TypeOK, Sent, Opened, RingsAreSent, AgentPosition
<1>4. OwnedWhileWritten' /\ HandlerOwnsChannel' /\ HandlerPosition'
  BY DEF IInv, Sent, OwnedWhileWritten, HandlerOwnsChannel, HandlerPosition
<1>5. AnsweredOnce' /\ BusyUntilAnswered' /\ SentState'
  BY DEF IInv, Sent, Opened, AnsweredOnce, BusyUntilAnswered, SentState
<1>6. NoRingLost'
  <2> SUFFICES ASSUME NEW c \in Channels, Sent(c)'
               PROVE  trigger'[c]
    BY DEF NoRingLost
  <2>1. c <= msg_cnt
    BY DEF IInv, TypeOK, Sent, Channels
  <2> QED BY <2>1
<1> QED BY <1>1, <1>2, <1>3, <1>4, <1>5, <1>6 DEF IInv

LEMMA StopRingingOK ==
  ASSUME IInv, StopRinging
  PROVE  IInv'
<1> USE MsgAssumption DEF StopRinging, AgentAt, Seen, memory, plic, callee
<1>1. TypeOK'
  BY DEF IInv, TypeOK, Channels
<1>2. MainPosition'
  BY DEF IInv, MainPosition
<1>3. RingsAreSent' /\ AgentPosition'
  BY DEF IInv, TypeOK, Sent, RingsAreSent, AgentPosition
<1>4. OwnedWhileWritten' /\ HandlerOwnsChannel' /\ HandlerPosition'
  BY DEF IInv, TypeOK, Sent, OwnedWhileWritten, HandlerOwnsChannel,
       HandlerPosition
<1>5. AnsweredOnce' /\ BusyUntilAnswered' /\ SentState'
  BY DEF IInv, TypeOK, Sent, Opened, AnsweredOnce, BusyUntilAnswered,
       SentState, AgentPosition
<1>6. NoRingLost'
  BY DEF IInv, TypeOK, Sent, NoRingLost, BeingServed, HandlerPosition, Channels
<1> QED BY <1>1, <1>2, <1>3, <1>4, <1>5, <1>6 DEF IInv

(* So do the doorbells and the PLIC: they add no ring of their own.         *)
LEMMA DoorbellOK ==
  ASSUME IInv, Doorbell
  PROVE  IInv'
<1> USE MsgAssumption DEF Doorbell, memory, caller, plic, callee
<1>1. TypeOK'
  BY DEF IInv, TypeOK
<1>2. MainPosition'
  BY DEF IInv, MainPosition
<1>3. RingsAreSent' /\ AgentPosition'
  BY DEF IInv, Sent, Opened, RingsAreSent, AgentPosition
<1>4. OwnedWhileWritten' /\ HandlerOwnsChannel' /\ HandlerPosition'
  BY DEF IInv, Sent, OwnedWhileWritten, HandlerOwnsChannel, HandlerPosition
<1>5. AnsweredOnce' /\ BusyUntilAnswered' /\ SentState'
  BY DEF IInv, Sent, Opened, AnsweredOnce, BusyUntilAnswered, SentState
<1>6. NoRingLost'
  BY DEF IInv, TypeOK, Sent, NoRingLost, BeingServed, HandlerPosition, Channels
<1> QED BY <1>1, <1>2, <1>3, <1>4, <1>5, <1>6 DEF IInv

LEMMA LatchOK ==
  ASSUME IInv, NEW d \in Channels, Latch(d)
  PROVE  IInv'
<1> USE MsgAssumption DEF Latch, memory, caller, bell, callee
<1>1. TypeOK'
  BY DEF IInv, TypeOK
<1>2. MainPosition'
  BY DEF IInv, MainPosition
<1>3. RingsAreSent' /\ AgentPosition'
  BY DEF IInv, Sent, Opened, RingsAreSent, AgentPosition
<1>4. OwnedWhileWritten' /\ HandlerOwnsChannel' /\ HandlerPosition'
  BY DEF IInv, Sent, OwnedWhileWritten, HandlerOwnsChannel, HandlerPosition
<1>5. AnsweredOnce' /\ BusyUntilAnswered' /\ SentState'
  BY DEF IInv, Sent, Opened, AnsweredOnce, BusyUntilAnswered, SentState
<1>6. NoRingLost'
  BY DEF IInv, TypeOK, Sent, NoRingLost, BeingServed, HandlerPosition, Channels
<1> QED BY <1>1, <1>2, <1>3, <1>4, <1>5, <1>6 DEF IInv

(* So do the steps of main, always at a channel not yet opened.             *)
LEMMA scmi_channel_initOK ==
  ASSUME IInv, scmi_channel_init
  PROVE  IInv'
<1> USE MsgAssumption DEF scmi_channel_init, MainAt, caller, bell, plic
<1>1. TypeOK'
  BY DEF IInv, TypeOK
<1>2. MainPosition'
  BY DEF IInv, MainPosition
<1>3. RingsAreSent' /\ AgentPosition'
  BY DEF IInv, Sent, Opened, RingsAreSent, AgentPosition
<1>4. OwnedWhileWritten' /\ HandlerOwnsChannel' /\ HandlerPosition'
  BY DEF IInv, OwnedWhileWritten, HandlerOwnsChannel, HandlerPosition
<1>5. AnsweredOnce' /\ BusyUntilAnswered' /\ SentState'
  BY DEF IInv, TypeOK, Sent, Opened, AnsweredOnce, BusyUntilAnswered, SentState
<1>6. NoRingLost'
  BY DEF IInv, TypeOK, Sent, NoRingLost, BeingServed, HandlerPosition, Channels
<1> QED BY <1>1, <1>2, <1>3, <1>4, <1>5, <1>6 DEF IInv

LEMMA EnableIrqOK ==
  ASSUME IInv, EnableIrq
  PROVE  IInv'
<1> USE MsgAssumption DEF EnableIrq, MainAt, memory, caller, bell
<1>1. TypeOK'
  BY DEF IInv, TypeOK, MainPosition
<1>2. MainPosition'
  BY DEF IInv, MainPosition
<1>3. RingsAreSent' /\ AgentPosition'
  BY DEF IInv, Sent, Opened, RingsAreSent, AgentPosition
<1>4. OwnedWhileWritten' /\ HandlerOwnsChannel' /\ HandlerPosition'
  BY DEF IInv, OwnedWhileWritten, HandlerOwnsChannel, HandlerPosition
<1>5. AnsweredOnce' /\ BusyUntilAnswered' /\ SentState'
  BY DEF IInv, Sent, Opened, AnsweredOnce, BusyUntilAnswered, SentState
<1>6. NoRingLost'
  BY DEF IInv, TypeOK, Sent, NoRingLost, BeingServed, HandlerPosition, Channels
<1> QED BY <1>1, <1>2, <1>3, <1>4, <1>5, <1>6 DEF IInv

LEMMA RaisePriorityOK ==
  ASSUME IInv, RaisePriority
  PROVE  IInv'
<1> USE MsgAssumption DEF RaisePriority, MainAt, memory, caller, bell
<1>1. TypeOK'
  BY DEF IInv, TypeOK, Channels, MainPosition
<1>2. MainPosition'
  BY DEF IInv, MainPosition, Channels
<1>3. RingsAreSent' /\ AgentPosition'
  BY DEF IInv, TypeOK, Sent, Opened, RingsAreSent, AgentPosition
<1>4. OwnedWhileWritten' /\ HandlerOwnsChannel' /\ HandlerPosition'
  BY DEF IInv, OwnedWhileWritten, HandlerOwnsChannel, HandlerPosition
<1>5. AnsweredOnce' /\ BusyUntilAnswered' /\ SentState'
  BY DEF IInv, TypeOK, Channels, Sent, Opened, AnsweredOnce,
       BusyUntilAnswered, SentState
<1>6. NoRingLost'
  BY DEF IInv, TypeOK, Sent, NoRingLost, BeingServed, HandlerPosition, Channels
<1> QED BY <1>1, <1>2, <1>3, <1>4, <1>5, <1>6 DEF IInv

LEMMA exitOK ==
  ASSUME IInv, exit
  PROVE  IInv'
<1> USE MsgAssumption DEF exit, MainAt, memory, caller, bell, plic
<1>1. TypeOK'
  BY DEF IInv, TypeOK
<1>2. MainPosition'
  BY DEF IInv, MainPosition
<1>3. RingsAreSent' /\ AgentPosition'
  BY DEF IInv, TypeOK, Sent, Opened, RingsAreSent, AgentPosition
<1>4. OwnedWhileWritten' /\ HandlerOwnsChannel' /\ HandlerPosition'
  BY DEF IInv, OwnedWhileWritten, HandlerOwnsChannel, HandlerPosition
<1>5. AnsweredOnce' /\ BusyUntilAnswered' /\ SentState'
  BY DEF IInv, Sent, Opened, AnsweredOnce, BusyUntilAnswered, SentState
<1>6. NoRingLost'
  BY DEF IInv, Sent, NoRingLost, BeingServed
<1> QED BY <1>1, <1>2, <1>3, <1>4, <1>5, <1>6 DEF IInv

(* So do the claim and the steps of the handler.                            *)
LEMMA ClaimOK ==
  ASSUME IInv, Claim
  PROVE  IInv'
<1> USE MsgAssumption DEF Claim, Claimable, memory, caller, bell
<1>1. TypeOK'
  BY DEF IInv, TypeOK
<1>2. MainPosition'
  BY DEF IInv, MainPosition
<1>3. RingsAreSent' /\ AgentPosition'
  BY DEF IInv, TypeOK, Sent, Opened, RingsAreSent, AgentPosition
<1>4. OwnedWhileWritten' /\ HandlerOwnsChannel' /\ HandlerPosition'
  BY DEF IInv, OwnedWhileWritten, HandlerOwnsChannel, HandlerPosition
<1>5. AnsweredOnce' /\ BusyUntilAnswered' /\ SentState'
  BY DEF IInv, Sent, Opened, AnsweredOnce, BusyUntilAnswered, SentState
<1>6. NoRingLost'
  BY DEF IInv, TypeOK, Sent, NoRingLost, BeingServed, HandlerPosition, Channels
<1> QED BY <1>1, <1>2, <1>3, <1>4, <1>5, <1>6 DEF IInv

LEMMA CheckStatusOK ==
  ASSUME IInv, CheckStatus
  PROVE  IInv'
<1> USE MsgAssumption DEF CheckStatus, HandlerAt, memory, caller, bell, plic
<1>1. TypeOK'
  BY DEF IInv, TypeOK
<1>2. MainPosition'
  BY DEF IInv, MainPosition
<1>3. RingsAreSent' /\ AgentPosition'
  BY DEF IInv, Sent, Opened, RingsAreSent, AgentPosition
<1>4. OwnedWhileWritten' /\ HandlerOwnsChannel' /\ HandlerPosition'
  BY DEF IInv, TypeOK, Sent, OwnedWhileWritten, HandlerOwnsChannel,
       HandlerPosition, RingsAreSent, AnsweredOnce, BusyUntilAnswered, SentState
<1>5. AnsweredOnce' /\ BusyUntilAnswered' /\ SentState'
  BY DEF IInv, Sent, Opened, AnsweredOnce, BusyUntilAnswered, SentState
<1>6. NoRingLost'
  BY DEF IInv, TypeOK, Sent, NoRingLost, BeingServed, HandlerPosition, Channels
<1> QED BY <1>1, <1>2, <1>3, <1>4, <1>5, <1>6 DEF IInv

LEMMA base_protocol_responseOK ==
  ASSUME IInv, base_protocol_response
  PROVE  IInv'
<1> USE MsgAssumption DEF base_protocol_response, HandlerAt, caller, bell, plic
<1>1. TypeOK'
  <2>1. payload' \in [Channels -> BOOLEAN]
    BY DEF IInv, TypeOK
  <2>2. answers' \in [Channels -> Nat]
    BY DEF IInv, TypeOK
  <2> QED BY <2>1, <2>2 DEF IInv, TypeOK
<1>2. MainPosition'
  BY DEF IInv, MainPosition
<1>3. RingsAreSent' /\ AgentPosition'
  BY DEF IInv, Sent, Opened, RingsAreSent, AgentPosition
<1>4. OwnedWhileWritten' /\ HandlerOwnsChannel' /\ HandlerPosition'
  BY DEF IInv, TypeOK, Sent, OwnedWhileWritten, HandlerOwnsChannel,
       HandlerPosition
<1>5. AnsweredOnce' /\ BusyUntilAnswered' /\ SentState'
  BY DEF IInv, TypeOK, Sent, Opened, AnsweredOnce, BusyUntilAnswered,
       SentState, HandlerOwnsChannel, OwnedWhileWritten
<1>6. NoRingLost'
  BY DEF IInv, TypeOK, Sent, NoRingLost, BeingServed, HandlerPosition, Channels
<1> QED BY <1>1, <1>2, <1>3, <1>4, <1>5, <1>6 DEF IInv

LEMMA SetFreeOK ==
  ASSUME IInv, SetFree
  PROVE  IInv'
<1> USE MsgAssumption DEF SetFree, HandlerAt, caller, bell, plic
<1>1. TypeOK'
  BY DEF IInv, TypeOK
<1>2. MainPosition'
  BY DEF IInv, MainPosition
<1>3. RingsAreSent' /\ AgentPosition'
  BY DEF IInv, TypeOK, Sent, Opened, RingsAreSent, AgentPosition
<1>4. OwnedWhileWritten' /\ HandlerOwnsChannel' /\ HandlerPosition'
  BY DEF IInv, OwnedWhileWritten, HandlerOwnsChannel, HandlerPosition
<1>5. AnsweredOnce' /\ BusyUntilAnswered' /\ SentState'
  BY DEF IInv, TypeOK, Sent, Opened, AnsweredOnce, BusyUntilAnswered,
       SentState, HandlerPosition
<1>6. NoRingLost'
  BY DEF IInv, TypeOK, Sent, NoRingLost, BeingServed, HandlerPosition, Channels
<1> QED BY <1>1, <1>2, <1>3, <1>4, <1>5, <1>6 DEF IInv

LEMMA CompleteOK ==
  ASSUME IInv, Complete
  PROVE  IInv'
<1> USE MsgAssumption DEF Complete, HandlerAt, memory, caller, bell, plic
<1>1. TypeOK'
  BY DEF IInv, TypeOK
<1>2. MainPosition'
  BY DEF IInv, MainPosition
<1>3. RingsAreSent' /\ AgentPosition'
  BY DEF IInv, Sent, Opened, RingsAreSent, AgentPosition
<1>4. OwnedWhileWritten' /\ HandlerOwnsChannel' /\ HandlerPosition'
  BY DEF IInv, OwnedWhileWritten, HandlerOwnsChannel, HandlerPosition
<1>5. AnsweredOnce' /\ BusyUntilAnswered' /\ SentState'
  BY DEF IInv, Sent, Opened, AnsweredOnce, BusyUntilAnswered, SentState
<1>6. NoRingLost'
  BY DEF IInv, TypeOK, Sent, NoRingLost, BeingServed, HandlerPosition, Channels
<1> QED BY <1>1, <1>2, <1>3, <1>4, <1>5, <1>6 DEF IInv

(* So does a stuttering step.                                               *)
LEMMA StutterOK == ASSUME IInv, UNCHANGED vars PROVE IInv'
<1> USE DEF vars, memory, caller, bell, plic, callee
<1>1. TypeOK' /\ MainPosition'
  BY DEF IInv, TypeOK, MainPosition
<1>2. OwnedWhileWritten' /\ HandlerOwnsChannel' /\ HandlerPosition'
  BY DEF IInv, OwnedWhileWritten, HandlerOwnsChannel, HandlerPosition, Sent
<1>3. AnsweredOnce' /\ BusyUntilAnswered' /\ SentState'
  BY DEF IInv, AnsweredOnce, BusyUntilAnswered, SentState, Sent, Opened
<1>4. RingsAreSent' /\ AgentPosition'
  BY DEF IInv, RingsAreSent, AgentPosition, Sent, Opened
<1>5. NoRingLost'
  BY DEF IInv, NoRingLost, BeingServed, Sent
<1> QED BY <1>1, <1>2, <1>3, <1>4, <1>5 DEF IInv

(* The invariant is inductive.                                              *)
LEMMA StepOK == IInv /\ [Next]_vars => IInv'
<1> SUFFICES ASSUME IInv, [Next]_vars PROVE IInv'
  OBVIOUS
<1>1. CASE Agent
  BY <1>1, ClearStatusOK, PollStatusOK, WriteMessageOK, SetBusyOK,
       RingDoorbellOK, StopRingingOK DEF Agent
<1>2. CASE Doorbell
  BY <1>2, DoorbellOK
<1>3. CASE \E c \in Channels : Latch(c)
  BY <1>3, LatchOK
<1>4. CASE Main
  BY <1>4, scmi_channel_initOK, EnableIrqOK, RaisePriorityOK, exitOK DEF Main
<1>5. CASE Claim
  BY <1>5, ClaimOK
<1>6. CASE Handler
  BY <1>6, CheckStatusOK, base_protocol_responseOK, SetFreeOK, CompleteOK
       DEF Handler
<1>7. CASE UNCHANGED vars
  BY <1>7, StutterOK
<1> QED BY <1>1, <1>2, <1>3, <1>4, <1>5, <1>6, <1>7 DEF Next

(* The invariant holds in every reachable state.                            *)
THEOREM Inductive == Spec => []IInv
<1>1. Init => IInv
  BY InitOK
<1>2. IInv /\ [Next]_vars => IInv'
  BY StepOK
<1> QED BY <1>1, <1>2, PTL DEF Spec

(* The agent writes a message only while the status it polled still holds.  *)
THEOREM PolledStatusFresh == Spec => []OwnedWhileWritten
<1>1. IInv => OwnedWhileWritten
  BY DEF IInv
<1> QED BY <1>1, Inductive, PTL

(* No interrupt, repeated or late, makes the handler answer a message twice *)
(* or one that was not sent.                                                *)
THEOREM NoSecondAnswer == Spec => []AnsweredOnce
<1>1. IInv => AnsweredOnce
  BY DEF IInv
<1> QED BY <1>1, Inductive, PTL

(* A message stays unanswered only while its ring is on the way or latched: *)
(* no ring is taken by a handler that does not answer, or falls between the *)
(* end of the trigger and the PLIC.                                         *)
THEOREM RingsKept == Spec => []NoRingLost
<1>1. IInv => NoRingLost
  BY DEF IInv
<1> QED BY <1>1, Inductive, PTL

(* The handler works on a complete message of a channel the agent left.     *)
THEOREM HandlerAlone == Spec => []HandlerOwnsChannel
<1>1. IInv => HandlerOwnsChannel
  BY DEF IInv
<1> QED BY <1>1, Inductive, PTL

-----------------------------------------------------------------------------
(* Refinement: what each action does to the mapped variables.               *)

(* Nothing is written yet: the areas are as Channel starts them.            *)
LEMMA AreaInit == Init => Area!Init
<1> SUFFICES ASSUME Init PROVE Area!Init
  OBVIOUS
<1>1. OwnerOf \in [Channels -> {"agent", "platform"}]
  BY DEF OwnerOf
<1>2. header = [c \in Channels |-> FALSE] /\ AnsweredOf = {}
  BY DEF Init, AnsweredOf
<1> QED BY <1>1, <1>2 DEF Area!Init

(* A write of the status gives the area to the side it names.               *)
LEMMA OwnerBusy ==
  ASSUME TypeOK, NEW c \in Channels, status' = [status EXCEPT ![c] = 0]
  PROVE  OwnerOf' = [OwnerOf EXCEPT ![c] = "platform"]
<1>1. \A d \in Channels : OwnerOf'[d] = IF d = c THEN "platform" ELSE OwnerOf[d]
  BY DEF TypeOK, OwnerOf
<1> QED BY <1>1 DEF OwnerOf

LEMMA OwnerFree ==
  ASSUME TypeOK, NEW c \in Channels, status' = [status EXCEPT ![c] = 1]
  PROVE  OwnerOf' = [OwnerOf EXCEPT ![c] = "agent"]
<1>1. \A d \in Channels : OwnerOf'[d] = IF d = c THEN "agent" ELSE OwnerOf[d]
  BY DEF TypeOK, OwnerOf
<1> QED BY <1>1 DEF OwnerOf

(* The first answer on a channel makes it answered.                         *)
LEMMA AnswersWrite ==
  ASSUME TypeOK, NEW c \in Channels, answers' = [answers EXCEPT ![c] = @ + 1]
  PROVE  AnsweredOf' = AnsweredOf \union {c}
<1>1. \A d \in Channels : (answers'[d] > 0) <=> (d = c \/ answers[d] > 0)
  BY DEF TypeOK
<1> QED BY <1>1 DEF AnsweredOf

(* The steps that write neither status, header nor answers.                 *)
LEMMA AreaStutters ==
  ASSUME UNCHANGED <<status, header, answers>>
  PROVE  UNCHANGED Area!channel
  BY DEF Area!channel, OwnerOf, AnsweredOf

(* The agent gives an area back, or clears a status that is 0.              *)
LEMMA ClearStatusArea ==
  ASSUME IInv, ClearStatus
  PROVE  [Area!Next]_(Area!channel)
<1> USE DEF memory, caller, bell, plic, callee
<1>1. msg_cnt \in Channels /\ ~header[msg_cnt]
  BY DEF IInv, TypeOK, ClearStatus, AgentAt, SentState, Sent, Channels
<1>2. OwnerOf' = [OwnerOf EXCEPT ![msg_cnt] = "platform"]
  BY <1>1, OwnerBusy DEF IInv, ClearStatus
<1>3. CASE status[msg_cnt] = 1
  <2>1. OwnerOf[msg_cnt] = "agent" /\ UNCHANGED <<header, AnsweredOf>>
    BY <1>1, <1>3 DEF OwnerOf, AnsweredOf, ClearStatus
  <2>2. Area!GiveBack(msg_cnt)
    BY <1>1, <1>2, <2>1 DEF Area!GiveBack, Area!Give
  <2> QED BY <2>2, <1>1 DEF Area!Next
<1>4. CASE status[msg_cnt] # 1
  <2>1. OwnerOf' = OwnerOf
    BY <1>1, <1>2, <1>4 DEF OwnerOf
  <2> QED BY <2>1 DEF Area!channel, AnsweredOf, ClearStatus
<1> QED BY <1>3, <1>4

(* The message is composed in an area the agent owns.                       *)
LEMMA WriteMessageArea ==
  ASSUME IInv, WriteMessage
  PROVE  [Area!Next]_(Area!channel)
<1> USE DEF memory, caller, bell, plic, callee
<1>1. msg_cnt \in Channels /\ status[msg_cnt] = 1 /\ ~(answers[msg_cnt] > 0)
  BY DEF IInv, TypeOK, WriteMessage, AgentAt, OwnedWhileWritten, AnsweredOnce,
       Sent, Channels
<1>2. /\ OwnerOf[msg_cnt] = "agent" /\ msg_cnt \notin AnsweredOf
      /\ UNCHANGED <<OwnerOf, AnsweredOf>>
  BY <1>1 DEF OwnerOf, AnsweredOf, WriteMessage
<1>3. Area!Compose(msg_cnt)
  BY <1>2 DEF Area!Compose, WriteMessage
<1> QED BY <1>1, <1>3 DEF Area!Next

(* Setting the channel busy sends the message.                              *)
LEMMA SetBusyArea ==
  ASSUME IInv, SetBusy
  PROVE  [Area!Next]_(Area!channel)
<1> USE DEF memory, caller, bell, plic, callee
<1>1. /\ msg_cnt \in Channels /\ status[msg_cnt] = 1
      /\ header[msg_cnt] /\ ~(answers[msg_cnt] > 0)
  BY DEF IInv, TypeOK, SetBusy, AgentAt, OwnedWhileWritten, AnsweredOnce, Sent,
     AgentPosition, Channels
<1>2. OwnerOf' = [OwnerOf EXCEPT ![msg_cnt] = "platform"]
  BY <1>1, OwnerBusy DEF IInv, SetBusy
<1>3. /\ OwnerOf[msg_cnt] = "agent" /\ msg_cnt \notin AnsweredOf
      /\ UNCHANGED <<header, AnsweredOf>>
  BY <1>1 DEF OwnerOf, AnsweredOf, SetBusy
<1>4. Area!Send(msg_cnt)
  BY <1>1, <1>2, <1>3 DEF Area!Send, Area!Give
<1> QED BY <1>1, <1>4 DEF Area!Next

(* Opening a channel gives an unused area to the agent.                     *)
LEMMA scmi_channel_initArea ==
  ASSUME IInv, scmi_channel_init
  PROVE  [Area!Next]_(Area!channel)
<1> USE DEF memory, caller, bell, plic, callee
<1>1. opened \in Channels /\ ~header[opened]
  <2>1. opened \in Channels /\ ~Opened(opened)
    BY DEF IInv, TypeOK, MainPosition, scmi_channel_init, MainAt, Opened, Channels
  <2> QED BY <2>1 DEF IInv, SentState, AgentPosition
<1>2. OwnerOf' = [OwnerOf EXCEPT ![opened] = "agent"]
  BY <1>1, OwnerFree DEF IInv, scmi_channel_init
<1>3. CASE status[opened] = 0
  <2>1. OwnerOf[opened] = "platform" /\ UNCHANGED <<header, AnsweredOf>>
    BY <1>1, <1>3 DEF OwnerOf, AnsweredOf, scmi_channel_init
  <2>2. Area!Open(opened)
    BY <1>1, <1>2, <2>1 DEF Area!Open, Area!Give
  <2> QED BY <2>2, <1>1 DEF Area!Next
<1>4. CASE status[opened] = 1
  <2>1. OwnerOf' = OwnerOf
    BY <1>1, <1>2, <1>4 DEF OwnerOf
  <2> QED BY <2>1 DEF Area!channel, AnsweredOf, scmi_channel_init
<1> QED BY <1>1, <1>3, <1>4 DEF IInv, TypeOK

(* The handler's answer is the first one to the message.                    *)
LEMMA base_protocol_responseArea ==
  ASSUME IInv, base_protocol_response
  PROVE  [Area!Next]_(Area!channel)
<1> USE DEF memory, caller, bell, plic, callee
<1>1. /\ serving \in Channels /\ status[serving] = 0
      /\ header[serving] /\ ~(answers[serving] > 0)
  BY DEF IInv, TypeOK, base_protocol_response, HandlerAt, HandlerOwnsChannel,
       HandlerPosition
<1>2. AnsweredOf' = AnsweredOf \union {serving}
  BY <1>1, AnswersWrite DEF IInv, base_protocol_response
<1>3. /\ OwnerOf[serving] = "platform" /\ serving \notin AnsweredOf
      /\ UNCHANGED <<OwnerOf, header>>
  BY <1>1 DEF OwnerOf, AnsweredOf, base_protocol_response
<1>4. Area!Answer(serving)
  BY <1>1, <1>2, <1>3 DEF Area!Answer
<1> QED BY <1>1, <1>4 DEF Area!Next

(* Setting the channel free returns an answered area.                       *)
LEMMA SetFreeArea ==
  ASSUME IInv, SetFree
  PROVE  [Area!Next]_(Area!channel)
<1> USE DEF memory, caller, bell, plic, callee
<1>1. serving \in Channels /\ status[serving] = 0 /\ answers[serving] > 0
  BY DEF IInv, TypeOK, SetFree, HandlerAt, HandlerOwnsChannel, HandlerPosition
<1>2. OwnerOf' = [OwnerOf EXCEPT ![serving] = "agent"]
  BY <1>1, OwnerFree DEF IInv, SetFree
<1>3. /\ OwnerOf[serving] = "platform" /\ serving \in AnsweredOf
      /\ UNCHANGED <<header, AnsweredOf>>
  BY <1>1 DEF OwnerOf, AnsweredOf, SetFree
<1>4. Area!Return(serving)
  BY <1>1, <1>2, <1>3 DEF Area!Return, Area!Give
<1> QED BY <1>1, <1>4 DEF Area!Next

(* Every step is a step of Channel or changes nothing Channel sees.         *)
LEMMA AreaStep == IInv /\ [Next]_vars => [Area!Next]_(Area!channel)
<1> SUFFICES ASSUME IInv, [Next]_vars PROVE [Area!Next]_(Area!channel)
  OBVIOUS
<1> USE DEF memory, caller, bell, plic, callee
<1>1. CASE ClearStatus \/ WriteMessage \/ SetBusy
  BY <1>1, ClearStatusArea, WriteMessageArea, SetBusyArea
<1>2. CASE scmi_channel_init \/ base_protocol_response \/ SetFree
  BY <1>2, scmi_channel_initArea, base_protocol_responseArea, SetFreeArea
<1>3. CASE PollStatus \/ RingDoorbell \/ StopRinging
  BY <1>3, AreaStutters DEF PollStatus, RingDoorbell, StopRinging
<1>4. CASE Doorbell \/ Claim \/ \E c \in Channels : Latch(c)
  BY <1>4, AreaStutters DEF Doorbell, Claim, Latch
<1>5. CASE EnableIrq \/ RaisePriority \/ exit
  BY <1>5, AreaStutters DEF EnableIrq, RaisePriority, exit
<1>6. CASE CheckStatus \/ Complete
  BY <1>6, AreaStutters DEF CheckStatus, Complete
<1>7. CASE UNCHANGED vars
  BY <1>7, AreaStutters DEF vars
<1> QED
  BY <1>1, <1>2, <1>3, <1>4, <1>5, <1>6, <1>7 DEF Next, Agent, Main, Handler

(* Every behaviour of the exchange is one of the ownership protocol: the    *)
(* agent and the firmware hand each area back and forth, and neither writes *)
(* what the other owns.                                                     *)
THEOREM Refines == Spec => ImplementsChannel
<1>1. Init => Area!Init
  BY AreaInit
<1>2. IInv /\ [Next]_vars => [Area!Next]_(Area!channel)
  BY AreaStep
<1> QED BY <1>1, <1>2, Inductive, PTL DEF Spec, ImplementsChannel, Area!Spec
=============================================================================
