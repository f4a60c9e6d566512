------------------------------- MODULE SDIOOp -------------------------------
(* The queue of operations of one slot of SDIODriver (op.c, and SDIO_Op in    *)
(* swi.c).  A foreground call queues its operation and calls op_poll until it *)
(* is answered, or aborts it when its time is up; interrupt handlers queue    *)
(* background operations and abort what is queued, between any two steps of   *)
(* op_poll.  Nothing but a waiting foreground call polls: the driver's own    *)
(* interrupt handler and ticker leave the queue alone.                        *)
EXTENDS Integers

CONSTANTS
  QUEUE_LENGTH,  \* op blocks of a slot, 4 in the driver
  Kinds,         \* what the foreground asks for, of the kinds below
  BgKinds,       \* what interrupt handlers ask for
  MaxBlocks,     \* bound: blocks of a data transfer
  MaxAborts      \* bound: calls of SDIO_Control 4 and 5 by interrupt handlers

ASSUME SDIOOpAssumption ==
  /\ QUEUE_LENGTH \in Nat \ {0, 1}
  /\ Kinds \cup BgKinds \subseteq {"none", "busy", "write", "read"}
  /\ MaxBlocks \in Nat \ {0}
  /\ MaxAborts \in Nat

VARIABLES
  op,       \* the blocks
  op_used,  \* the oldest block in use
  op_free,  \* the next block to fill
  at,       \* where op_poll is
  tc,       \* its irqs, as far as it looks at them again
  fg,       \* the foreground's SDIO_Op
  fgop,     \* the block it waits for
  op_status,\* its local: has fgopcb been called?
  ctl,      \* the controller
  calls,    \* history: how often the request in a block has been answered
  raced,    \* history: the blocks whose abort came at one of two delicate moments
  aborts    \* how many aborts have come from interrupt handlers

poller == <<at, tc>>
queue == <<op, op_used, op_free>>
caller == <<fg, fgop, op_status>>
answers == <<calls, raced>>
vars == <<queue, poller, caller, ctl, answers, aborts>>

Block == 0 .. QUEUE_LENGTH - 1
After(b) == (b + 1) % QUEUE_LENGTH
OpsUsed == (op_free - op_used + QUEUE_LENGTH) % QUEUE_LENGTH
Queued == {(op_used + i) % QUEUE_LENGTH : i \in 0 .. OpsUsed - 1}

State == {"READY", "WAIT_CMD_INHIBIT", "WAIT_DAT_INHIBIT", "WAIT_COMMAND_COMPLETE",
  "WAIT_BUFFER_READY", "WAIT_TRANSFER_COMPLETE", "ABORT", "WAIT_RESET_CMD",
  "WAIT_RESET_DAT", "COMPLETED", "NEVER_STARTED"}
\* The steps of op_poll that look at what an interrupt handler or the controller changes;
\* "out" and "enter": before and after the caller's look at op_status.
Place == State \cup {"out", "enter", "while", "issue", "move", "moved", "advance"}

Operation == [state : State, callback : {"none", "fg", "bg"},
  kind : {"none", "busy", "write", "read"}, block_count : 0 .. MaxBlocks]

\* The controller: what its lines are doing, its status bits, the blocks it is still to
\* take or give and whether its buffer is ready for one, and the reset it is asked for.
Controller == [cmd : {"idle", "sent"}, dat : {"idle", "busy", "transfer"},
  status : SUBSET {"CC", "TC", "ERR"}, left : 0 .. MaxBlocks, buf : BOOLEAN,
  reset : {"none", "cmd", "dat"}, gaveUp : BOOLEAN]

TypeOK ==
  /\ op \in [Block -> Operation]
  /\ op_used \in Block /\ op_free \in Block
  /\ at \in Place /\ tc \in BOOLEAN
  /\ fg \in {"idle", "queueing", "polling", "aborting"}
  /\ fgop \in Block /\ op_status \in BOOLEAN
  /\ ctl \in Controller
  /\ calls \in [Block -> 0 .. 2] /\ raced \subseteq Block
  /\ aborts \in 0 .. MaxAborts

\* A block out of use: what it holds is not looked at before it is filled again.
Unused == [state |-> "COMPLETED", callback |-> "none", kind |-> "none", block_count |-> 0]

Init ==
  /\ op = [b \in Block |-> Unused]
  /\ op_used = 0 /\ op_free = 0
  /\ at = "out" /\ tc = FALSE
  /\ fg = "idle" /\ fgop = 0 /\ op_status = FALSE
  /\ ctl = [cmd |-> "idle", dat |-> "idle", status |-> {}, left |-> 0, buf |-> FALSE,
            reset |-> "none", gaveUp |-> FALSE]
  /\ calls = [b \in Block |-> 0] /\ raced = {}
  /\ aborts = 0

-----------------------------------------------------------------------------
\* Queueing (swi.c 608-697): under op_lock, so no interrupt comes in between.  A command
\* for an application is preceded by CMD55, which answers to nobody.

\* Mutant: the block that tells a full queue from an empty one is used too.
Room_OneMore(needed) == OpsUsed <= QUEUE_LENGTH - needed

Room(needed) == OpsUsed < QUEUE_LENGTH - needed

CMD55 == [state |-> "READY", callback |-> "none", kind |-> "none", block_count |-> 0]

Request(kind, blocks, callback) ==
  [state |-> "READY", callback |-> callback, kind |-> kind, block_count |-> blocks]

Enqueue(needed, request) ==
  /\ Room(needed)
  /\ LET b == (op_free + needed - 1) % QUEUE_LENGTH
         free == [i \in Block |-> IF needed = 2 /\ i = op_free THEN CMD55 ELSE op[i]]
     IN  /\ op' = [free EXCEPT ![b] = request]
         /\ op_free' = After(b)
  /\ UNCHANGED <<op_used, answers>>

Requests(kinds, callback) ==
  {Request(kind, 0, callback) : kind \in kinds \cap {"none", "busy"}} \cup
  {Request(kind, n, callback) : kind \in kinds \cap {"write", "read"}, n \in 1 .. MaxBlocks}

\* SDIO_Op in the background, by an interrupt handler (swi.c 643-648, 685-707).
BackgroundOp ==
  /\ \E needed \in 1 .. 2, r \in Requests(BgKinds, "bg") : Enqueue(needed, r)
  /\ UNCHANGED <<poller, caller, ctl, aborts>>

\* SDIO_Op in the foreground.
ForegroundOp ==
  /\ fg = "idle"
  /\ fg' = "queueing"
  /\ UNCHANGED <<queue, poller, fgop, op_status, ctl, answers, aborts>>

ForegroundQueues ==
  /\ fg = "queueing"
  /\ \E needed \in 1 .. 2 :
       /\ \E r \in Requests(Kinds, "fg") : Enqueue(needed, r)
       /\ fgop' = (op_free + needed - 1) % QUEUE_LENGTH
  /\ fg' = "polling" /\ op_status' = FALSE
  /\ UNCHANGED <<poller, ctl, aborts>>

\* The queue stays full until the time is up (lines 649-654): nothing is polled meanwhile.
QueueTimeout ==
  /\ fg = "queueing"
  /\ ~Room(1)
  /\ fg' = "idle"
  /\ UNCHANGED <<queue, poller, fgop, op_status, ctl, answers, aborts>>

-----------------------------------------------------------------------------
\* The callbacks of operations (lines 189-203).  fgopcb.s, that of the foreground's, writes
\* to a local of the call that queued the request.  If that call has returned, its place on
\* the stack may be the op_status of a later call, and may be anything else.
op_do_callback(bs) ==
  LET called == {b \in bs : op[b].callback # "none"}
      polling == fg \in {"polling", "aborting"}
  IN  /\ calls' = [b \in Block |-> IF b \in called THEN calls[b] + 1 ELSE calls[b]]
      /\ op_status' \in {op_status \/ (polling /\ fgop \in called),
                         op_status \/ (polling /\ \E b \in called : op[b].callback = "fg")}

\* Aborting (op.c 210-229): an operation that has not started is answered at once.
set_abort_state(s) == IF s = "READY" THEN "NEVER_STARTED" ELSE "ABORT"

\* The two moments at which an abort races with what has been decided already: op_poll has
\* found the operation READY and has not said so yet, and an earlier abort has answered it.
Races(b) ==
  \/ op[b].state = "READY" /\ b = op_used /\ at = "READY"
  \/ op[b].state = "NEVER_STARTED" /\ ~(b = op_used /\ at = "advance")

op_abort(bs) ==
  /\ op' = [b \in Block |->
       IF b \in bs THEN [op[b] EXCEPT !.state = set_abort_state(@)] ELSE op[b]]
  /\ op_do_callback({b \in bs : op[b].state = "READY"})
  /\ raced' = raced \cup {b \in bs : Races(b)}

\* By an interrupt handler, at any moment.
HandlerAborts(bs) ==
  /\ aborts < MaxAborts
  /\ aborts' = aborts + 1
  /\ op_abort(bs)
  /\ UNCHANGED <<op_used, op_free, poller, fg, fgop, ctl>>

\* SDIO_Control 5, for an operation queued in the background.
AbortOp(b) ==
  /\ b \in Queued
  /\ op[b].callback = "bg"
  /\ HandlerAborts({b})

\* SDIO_Control 4 (op.c 231-241).
AbortAll ==
  /\ Queued # {}
  /\ HandlerAborts(Queued)

-----------------------------------------------------------------------------
\* The foreground's wait (swi.c 711-748).
Waiting == fg \in {"polling", "aborting"} /\ ~op_status

\* It looks at op_status, and at the clock and for Escape; answers may come meanwhile.
TestStatus ==
  /\ at = "out"
  /\ Waiting
  /\ at' = "enter"
  /\ UNCHANGED <<queue, tc, caller, ctl, answers, aborts>>

\* Its time is up, or Escape was pressed: it aborts, whatever op_status is by now, and
\* polls on.
ForegroundTimeout ==
  /\ at = "enter"
  /\ fg = "polling"
  /\ op_abort({fgop})
  /\ fg' = "aborting"
  /\ at' = "while"
  /\ UNCHANGED <<op_used, op_free, tc, fgop, ctl, aborts>>

ForegroundReturns ==
  /\ at = "out"
  /\ fg \in {"polling", "aborting"}
  /\ op_status
  /\ fg' = "idle" /\ fgop' = 0 /\ op_status' = FALSE
  /\ UNCHANGED <<queue, poller, ctl, answers, aborts>>

-----------------------------------------------------------------------------
\* op_poll (op.c 244-698), run by the waiting foreground.
SetState(s) == op' = [op EXCEPT ![op_used].state = s]

\* Mutant: an abort that came meanwhile is overwritten.
switch_state_Overwrites(s, next) == SetState(s) /\ at' = next

\* atomic_process(switch_state, ...): unless the operation has been aborted.
switch_state(s, next) ==
  IF op[op_used].state = "ABORT"
  THEN at' = "ABORT" /\ UNCHANGED op
  ELSE SetState(s) /\ at' = next

completed == SetState("COMPLETED") /\ at' = "COMPLETED"

Ack(bits) == ctl' = [ctl EXCEPT !.status = @ \ bits]

\* What most steps leave alone.
Rest == UNCHANGED <<op_used, op_free, caller, answers, aborts>>

\* The loop's test and the switch, on entry and for each block (lines 257-265); the lock is
\* given back at the end.
While ==
  /\ at \in {"enter", "while"}
  /\ at' = IF op_used = op_free THEN "out" ELSE op[op_used].state
  /\ UNCHANGED <<op, tc, ctl>> /\ Rest

Ready ==
  /\ at = "READY"
  /\ switch_state("WAIT_CMD_INHIBIT", "WAIT_CMD_INHIBIT")
  /\ UNCHANGED <<tc, ctl>> /\ Rest

\* The command line must be free, and for data and busy signalling the data line too;
\* late: the time allowed for that is over.
WaitCmdInhibit(late) ==
  /\ at = "WAIT_CMD_INHIBIT"
  /\ IF ctl.cmd # "idle"
     THEN at' = (IF late THEN "ABORT" ELSE "out") /\ UNCHANGED <<op, ctl>>
     ELSE /\ Ack({"CC"})
          /\ IF op[op_used].kind = "none"
             THEN at' = "issue" /\ UNCHANGED op
             ELSE switch_state("WAIT_DAT_INHIBIT", "WAIT_DAT_INHIBIT")
  /\ UNCHANGED tc /\ Rest

WaitDatInhibit(late) ==
  /\ at = "WAIT_DAT_INHIBIT"
  /\ IF ctl.dat # "idle"
     THEN at' = (IF late THEN "ABORT" ELSE "out") /\ UNCHANGED ctl
     ELSE at' = "issue" /\ Ack({"TC"})
  /\ UNCHANGED <<op, tc>> /\ Rest

\* The command is written to the controller (lines 323-374).
Issue ==
  /\ at = "issue"
  /\ LET kind == op[op_used].kind
     IN  ctl' = [ctl EXCEPT !.cmd = "sent",
           !.dat = CASE kind = "none" -> @ [] kind = "busy" -> "busy" [] OTHER -> "transfer",
           !.left = op[op_used].block_count, !.buf = FALSE,
           !.gaveUp = @ /\ ctl.dat # "idle"]
  /\ switch_state("WAIT_COMMAND_COMPLETE", "WAIT_COMMAND_COMPLETE")
  /\ UNCHANGED tc /\ Rest

Data == {"write", "read"}

\* read_interrupt_status reads the bits and clears them; the response may hold an error
\* of the card's.
WaitCommandComplete(cardError) ==
  /\ at = "WAIT_COMMAND_COMPLETE"
  /\ Ack(ctl.status)
  /\ CASE "ERR" \in ctl.status -> at' = "ABORT" /\ UNCHANGED <<op, tc>>
       [] {"ERR", "CC"} \cap ctl.status = {} -> at' = "out" /\ UNCHANGED <<op, tc>>
       [] OTHER ->
            /\ tc' = ("TC" \in ctl.status)
            /\ CASE cardError -> at' = "ABORT" /\ UNCHANGED op
                 [] ~cardError /\ op[op_used].kind \notin Data -> completed
                 [] OTHER -> switch_state("WAIT_BUFFER_READY",
                                          IF ctl.buf THEN "move" ELSE "WAIT_BUFFER_READY")
  /\ Rest

WaitBufferReady ==
  /\ at = "WAIT_BUFFER_READY"
  /\ Ack(ctl.status)
  /\ tc' = ("TC" \in ctl.status)
  /\ at' = CASE "ERR" \in ctl.status -> "ABORT"
             [] "ERR" \notin ctl.status /\ ctl.buf -> "move"
             [] OTHER -> "out"
  /\ UNCHANGED op /\ Rest

\* A block goes through the buffer (lines 472-507, 535-565).
Move ==
  /\ at = "move"
  /\ op' = [op EXCEPT ![op_used].block_count = @ - 1]
  /\ ctl' = [ctl EXCEPT !.left = @ - 1, !.buf = FALSE]
  /\ at' = IF op[op_used].block_count > 1 THEN "WAIT_BUFFER_READY" ELSE "moved"
  /\ UNCHANGED tc /\ Rest

\* Mutant: the transfer is taken to be complete with its last block.
Moved_NoWait ==
  /\ at = "moved"
  /\ switch_state("COMPLETED", "COMPLETED")
  /\ tc' = FALSE
  /\ UNCHANGED ctl /\ Rest

\* All blocks are through; the transfer may be known to be complete (lines 568-579).
Moved ==
  /\ at = "moved"
  /\ IF tc
     THEN switch_state("COMPLETED", "COMPLETED")
     ELSE switch_state("WAIT_TRANSFER_COMPLETE", "WAIT_TRANSFER_COMPLETE")
  /\ tc' = FALSE
  /\ UNCHANGED ctl /\ Rest

WaitTransferComplete ==
  /\ at = "WAIT_TRANSFER_COMPLETE"
  /\ Ack(ctl.status)
  /\ CASE "ERR" \in ctl.status -> at' = "ABORT" /\ UNCHANGED op
       [] {"ERR", "TC"} \cap ctl.status = {} -> at' = "out" /\ UNCHANGED op
       [] OTHER -> completed
  /\ UNCHANGED tc /\ Rest

\* An abort or an error: the command line's part of the controller is reset, then the
\* data line's, and each is given up when it takes too long.
Reset ==
  /\ at = "ABORT"
  /\ ctl' = [ctl EXCEPT !.reset = "cmd"]
  /\ SetState("WAIT_RESET_CMD")
  /\ at' = "WAIT_RESET_CMD"
  /\ tc' = FALSE
  /\ Rest

WaitResetCmd(late) ==
  /\ at = "WAIT_RESET_CMD"
  /\ IF ctl.reset = "cmd" /\ ~late
     THEN at' = "out" /\ UNCHANGED <<op, ctl>>
     ELSE /\ ctl' = [ctl EXCEPT !.reset = "dat", !.gaveUp = @ \/ ctl.reset = "cmd"]
          /\ SetState("WAIT_RESET_DAT")
          /\ at' = "WAIT_RESET_DAT"
  /\ UNCHANGED tc /\ Rest

\* Mutant: no time limit.
WaitResetDat_NoTimeout(late) ==
  /\ at = "WAIT_RESET_DAT"
  /\ IF ctl.reset = "dat"
     THEN at' = "out" /\ UNCHANGED <<op, ctl>>
     ELSE /\ ctl' = [ctl EXCEPT !.reset = "none"]
          /\ completed
  /\ UNCHANGED tc /\ Rest

WaitResetDat(late) ==
  /\ at = "WAIT_RESET_DAT"
  /\ IF ctl.reset = "dat" /\ ~late
     THEN at' = "out" /\ UNCHANGED <<op, ctl>>
     ELSE /\ ctl' = [ctl EXCEPT !.reset = "none", !.gaveUp = @ \/ ctl.reset = "dat"]
          /\ completed
  /\ UNCHANGED tc /\ Rest

\* The operation is over (lines 681-687); one that never started has been answered.
Finish ==
  /\ at \in {"COMPLETED", "NEVER_STARTED"}
  /\ op_do_callback(IF op[op_used].state = "NEVER_STARTED" THEN {} ELSE {op_used})
  /\ at' = "advance"
  /\ UNCHANGED <<queue, tc, fg, fgop, ctl, raced, aborts>>

\* Its block is free, and the next is looked at (lines 689-691).
Advance ==
  /\ at = "advance"
  /\ op_used' = After(op_used)
  /\ op' = [op EXCEPT ![op_used] = Unused]
  /\ calls' = [calls EXCEPT ![op_used] = 0] /\ raced' = raced \ {op_used}
  /\ at' = "while"
  /\ UNCHANGED <<op_free, tc, caller, ctl, aborts>>

op_poll ==
  \/ While \/ Ready \/ Issue \/ WaitBufferReady \/ Move \/ Moved
  \/ WaitTransferComplete \/ Reset \/ Finish \/ Advance
  \/ \E late \in BOOLEAN : WaitCmdInhibit(late) \/ WaitDatInhibit(late)
                           \/ WaitResetCmd(late) \/ WaitResetDat(late)
  \/ \E cardError \in BOOLEAN : WaitCommandComplete(cardError)

-----------------------------------------------------------------------------
\* The controller, as far as op.c looks at it.
Controls(c) == ctl' = c /\ UNCHANGED <<queue, poller, caller, answers, aborts>>

CommandComplete ==
  /\ ctl.cmd = "sent"
  /\ Controls([ctl EXCEPT !.cmd = "idle", !.status = @ \cup {"CC"}])

BufferReady ==
  /\ ctl.cmd = "idle" /\ ctl.dat = "transfer" /\ ctl.left > 0 /\ ~ctl.buf
  /\ Controls([ctl EXCEPT !.buf = TRUE])

\* A write is complete when the last block has been taken; a read may be complete when
\* the last block is in the buffer.
TransferComplete ==
  /\ ctl.cmd = "idle" /\ ctl.dat = "transfer"
  /\ \/ ctl.left = 0
     \/ ctl.left = 1 /\ ctl.buf /\ op[op_used].kind = "read"
  /\ Controls([ctl EXCEPT !.dat = "idle", !.status = @ \cup {"TC"}])

BusyEnds ==
  /\ ctl.dat = "busy"
  /\ Controls([ctl EXCEPT !.dat = "idle"])

\* A command or a transfer fails, and the line stays as it is until it is reset.
Fails ==
  /\ ctl.cmd = "sent" \/ ctl.dat = "transfer"
  /\ Controls([ctl EXCEPT !.status = @ \cup {"ERR"}])

ResetComplete ==
  \/ /\ ctl.reset = "cmd"
     /\ Controls([ctl EXCEPT !.reset = "none", !.cmd = "idle", !.status = @ \ {"CC", "ERR"}])
  \/ /\ ctl.reset = "dat"
     /\ Controls([ctl EXCEPT !.reset = "none", !.dat = "idle", !.buf = FALSE, !.left = 0,
                             !.status = @ \ {"TC", "ERR"}])

Next ==
  \/ op_poll
  \/ ForegroundOp \/ ForegroundQueues \/ QueueTimeout
  \/ TestStatus \/ ForegroundTimeout \/ ForegroundReturns
  \/ BackgroundOp \/ AbortAll \/ \E b \in Block : AbortOp(b)
  \/ CommandComplete \/ BufferReady \/ TransferComplete \/ BusyEnds \/ Fails \/ ResetComplete

Spec == Init /\ [][Next]_vars

\* The foreground runs on whenever no interrupt handler does, and while it polls time
\* passes: its own, and that of a reset.  The controller and the card need do nothing.
Foreground == TestStatus \/ op_poll \/ ForegroundQueues \/ QueueTimeout \/ ForegroundReturns

FairSpec ==
  /\ Spec
  /\ WF_vars(Foreground)
  /\ SF_vars(ForegroundTimeout)
  /\ SF_vars(WaitResetCmd(TRUE) \/ WaitResetDat(TRUE))

-----------------------------------------------------------------------------
\* A request is answered once, by op_poll or by the abort that kept it from starting, and
\* before its block is free for another; twice if an abort came at a delicate moment.
Answers(b) == IF b \in raced THEN 2 ELSE 1

AnswersEach ==
  \A b \in Queued :
    /\ calls'[b] <= Answers(b)'
    /\ b \notin Queued' /\ op[b].callback # "none" => calls[b] = Answers(b)

\* No step of any history breaks that rule of AnswersEach.
AnsweredOnceUnlessRaced == [][AnswersEach]_vars

\* An operation is over only when the controller has done with its command and its data,
\* or a reset has been tried in vain.
HandsOver == op_used' # op_used => ctl.gaveUp \/ (ctl.cmd = "idle" /\ ctl.dat # "transfer")

\* No operation begins on top of another's command or data.
CleanHandover == [][HandsOver]_vars

\* An aborted operation goes on when its state is neither one of reset nor its end; one
\* that was kept from starting is revived when it is neither left alone nor reset.
GoesOn(b) ==
  op[b].state = "ABORT" /\
  op'[b].state \notin {"ABORT", "WAIT_RESET_CMD", "WAIT_RESET_DAT", "COMPLETED"}
Revived(b) ==
  op[b].state = "NEVER_STARTED" /\ b \in Queued' /\ op'[b].state \notin {"NEVER_STARTED", "ABORT"}

\* An abort is overlooked only when op_poll has found the operation READY already.
RespectsAborts ==
  \A b \in Queued : ~GoesOn(b) /\ (Revived(b) => b = op_used /\ at = "READY")

\* No step of op_poll, of a client or of a handler breaks RespectsAborts.
AbortedNeverGoesOn == [][RespectsAborts]_vars

\* "At any point we may discover that the op has been aborted, in which case we don't
\* actually change the state variable" (op.c 64-65): at that point too.
AbortAlwaysDiscovered == [][\A b \in Queued : ~GoesOn(b) /\ ~Revived(b)]_vars

\* The foreground's request is answered in the end, or refused because the queue stays
\* full, whatever the card, the controller and the clients that come in between do.
ForegroundGetsAnswer == fg # "idle" ~> op_status \/ fg = "idle"
=============================================================================
