---------------------------- MODULE SDIOOp_proofs ----------------------------
(* The queue of SDIODriver answers every request once, and twice exactly if  *)
(* an abort came at one of two delicate moments; an abort is overlooked at   *)
(* one of them only.  For any queue length, any number of aborts at any      *)
(* moments, and any controller.                                              *)
EXTENDS SDIOOp, TLAPS

-----------------------------------------------------------------------------
(* The inductive invariant.                                                  *)

\* What the proof needs of the types.
Contents == [state : State, callback : {"none", "fg", "bg"},
             kind : {"none", "busy", "write", "read"}, block_count : Int]

QueueTypes ==
  /\ op \in [Block -> Contents]
  /\ op_used \in Block /\ op_free \in Block
  /\ at \in Place
  /\ fg \in {"idle", "queueing", "polling", "aborting"}
  /\ fgop \in Block /\ op_status \in BOOLEAN
  /\ calls \in [Block -> Int] /\ raced \subseteq Block

\* Where op_poll is not busy with a block.
Outside == {"out", "enter", "while"}

\* op_poll is busy with the oldest block, and what it last saw there still holds, unless an
\* abort raced with it.
Head ==
  /\ at \notin Outside => op_used # op_free
  /\ at = "READY" =>
       \/ op[op_used].state = "READY"
       \/ op_used \in raced /\ op[op_used].state \in {"NEVER_STARTED", "ABORT"}
  /\ at = "NEVER_STARTED" =>
       op[op_used].state = IF op_used \in raced THEN "ABORT" ELSE "NEVER_STARTED"
  /\ at \notin Outside \cup {"READY", "NEVER_STARTED", "advance"} =>
       op[op_used].state \notin {"READY", "NEVER_STARTED"}
  /\ at = "advance" =>
       /\ op[op_used].state # "READY"
       /\ op[op_used].state = "NEVER_STARTED" => op_used \notin raced

\* What an abort raced with is in the queue; it will be reset, or op_poll is about to start it.
Delicate ==
  /\ raced \subseteq Queued
  /\ \A b \in raced :
       /\ op[b].state # "READY"
       /\ op[b].state = "NEVER_STARTED" => b = op_used /\ at = "READY"

\* How often a request in the queue has been answered: by op_poll, if that is through with
\* it, and by the abort that kept it from starting.
Given(b) ==
  CASE op[b].callback = "none" -> 0
    [] op[b].callback # "none" /\ b = op_used /\ at = "advance" -> Answers(b)
    [] OTHER -> IF b \in raced \/ op[b].state = "NEVER_STARTED" THEN 1 ELSE 0

Counted == \A b \in Block : calls[b] = IF b \in Queued THEN Given(b) ELSE 0

\* The foreground waits for a request of its own that is still in the queue.
Caller ==
  /\ Waiting \/ at = "enter" => fgop \in Queued /\ op[fgop].callback = "fg"
  /\ Waiting => calls[fgop] = 0
  /\ at = "enter" => fg \in {"polling", "aborting"}

QueueInv == QueueTypes /\ Head /\ Delicate /\ Counted /\ Caller

-----------------------------------------------------------------------------
(* The ring of blocks.                                                       *)

\* Indices that have gone at most once round.
LEMMA OnceRound ==
  ASSUME NEW q \in Nat, q > 0, NEW x \in Int, 0 <= x, x < 2 * q
  PROVE  x % q = IF x < q THEN x ELSE x - q
OBVIOUS

\* How many blocks are in use, and which: those from u up to f, round the ring.
InUse(u, f) == (f - u + QUEUE_LENGTH) % QUEUE_LENGTH
Ring(u, f) == {b \in Block : IF u <= f THEN u <= b /\ b < f ELSE u <= b \/ b < f}

\* How many are in use, without the remainder.
LEMMA InUseIs ==
  ASSUME NEW u \in Block, NEW f \in Block
  PROVE  InUse(u, f) = IF u <= f THEN f - u ELSE f - u + QUEUE_LENGTH
<1>1. /\ QUEUE_LENGTH \in Nat /\ QUEUE_LENGTH > 1
      /\ u \in 0 .. QUEUE_LENGTH - 1 /\ f \in 0 .. QUEUE_LENGTH - 1
  BY SDIOOpAssumption DEF Block
<1>2. /\ f - u + QUEUE_LENGTH \in Int
      /\ 0 <= f - u + QUEUE_LENGTH /\ f - u + QUEUE_LENGTH < 2 * QUEUE_LENGTH
  BY <1>1
<1>3. (f - u + QUEUE_LENGTH) % QUEUE_LENGTH =
        IF f - u + QUEUE_LENGTH < QUEUE_LENGTH THEN f - u + QUEUE_LENGTH ELSE f - u
  BY <1>1, <1>2, OnceRound
<1> QED
  BY <1>1, <1>3 DEF InUse

\* Queued is a ring.
LEMMA RingIs ==
  ASSUME NEW u \in Block, NEW f \in Block
  PROVE  {(u + i) % QUEUE_LENGTH : i \in 0 .. InUse(u, f) - 1} = Ring(u, f)
<1> DEFINE Q == QUEUE_LENGTH
<1>0. Q \in Nat /\ Q > 1 /\ u \in 0 .. Q - 1 /\ f \in 0 .. Q - 1
  BY SDIOOpAssumption DEF Block
<1>1. InUse(u, f) = IF u <= f THEN f - u ELSE f - u + Q
  BY InUseIs
<1>2. \A i \in 0 .. InUse(u, f) - 1 :
        (u + i) % Q = IF u + i < Q THEN u + i ELSE u + i - Q
  <2> TAKE i \in 0 .. InUse(u, f) - 1
  <2>1. u + i \in Int /\ 0 <= u + i /\ u + i < 2 * Q
    BY <1>0, <1>1
  <2> QED
    BY <1>0, <2>1, OnceRound
<1>3. ASSUME NEW i \in 0 .. InUse(u, f) - 1 PROVE (u + i) % Q \in Ring(u, f)
  BY <1>0, <1>1, <1>2 DEF Block, Ring
<1>4. ASSUME NEW b \in Ring(u, f)
      PROVE  \E i \in 0 .. InUse(u, f) - 1 : b = (u + i) % Q
  <2> DEFINE i == IF u <= b THEN b - u ELSE b - u + Q
  <2>1. i \in 0 .. InUse(u, f) - 1
    BY <1>0, <1>1 DEF Block, Ring
  <2>2. (u + i) % Q = b
    BY <1>0, <1>1, <1>2, <2>1 DEF Block, Ring
  <2> QED
    BY <2>1, <2>2
<1> QED
  BY <1>3, <1>4

\* The same of this state, and of the next.
LEMMA QueuedIs ==
  op_used \in Block /\ op_free \in Block => Queued = Ring(op_used, op_free)
BY RingIs DEF Queued, OpsUsed, InUse

\* The blocks in use after a step.
LEMMA QueuedNext ==
  op_used' \in Block /\ op_free' \in Block => Queued' = Ring(op_used', op_free')
BY RingIs DEF Queued, OpsUsed, InUse

\* The index after b.
LEMMA AfterIs ==
  ASSUME NEW b \in Block
  PROVE  /\ After(b) = IF b = QUEUE_LENGTH - 1 THEN 0 ELSE b + 1
         /\ After(b) \in Block
<1>1. QUEUE_LENGTH \in Nat /\ QUEUE_LENGTH > 1 /\ b \in 0 .. QUEUE_LENGTH - 1
  BY SDIOOpAssumption DEF Block
<1>2. b + 1 \in Int /\ 0 <= b + 1 /\ b + 1 < 2 * QUEUE_LENGTH
  BY <1>1
<1>3. (b + 1) % QUEUE_LENGTH = IF b + 1 < QUEUE_LENGTH THEN b + 1 ELSE b + 1 - QUEUE_LENGTH
  BY <1>1, <1>2, OnceRound
<1> QED
  BY <1>1, <1>3 DEF After, Block

\* The oldest block leaves the ring when op_used moves past it.
LEMMA RingAdvance ==
  ASSUME NEW u \in Block, NEW f \in Block, u # f
  PROVE  u \in Ring(u, f) /\ Ring(After(u), f) = Ring(u, f) \ {u}
BY AfterIs, SDIOOpAssumption DEF Ring, Block

\* One or two blocks join the ring when there is room for them.
LEMMA RingJoin ==
  ASSUME NEW u \in Block, NEW f \in Block, NEW needed \in 1 .. 2,
         InUse(u, f) < QUEUE_LENGTH - needed
  PROVE  LET b == (f + needed - 1) % QUEUE_LENGTH
         IN  /\ b \in Block /\ After(b) \in Block
             /\ Ring(u, After(b)) = Ring(u, f) \cup {f, b}
             /\ f \notin Ring(u, f) /\ b \notin Ring(u, f)
             /\ needed = 1 => b = f
             /\ needed = 2 => b # f
<1> DEFINE b == (f + needed - 1) % QUEUE_LENGTH
<1>1. /\ QUEUE_LENGTH \in Nat /\ QUEUE_LENGTH > 1
      /\ u \in 0 .. QUEUE_LENGTH - 1 /\ f \in 0 .. QUEUE_LENGTH - 1
  BY SDIOOpAssumption DEF Block
<1>2. InUse(u, f) = IF u <= f THEN f - u ELSE f - u + QUEUE_LENGTH
  BY InUseIs
<1>3. needed = 1 => b = f
  BY <1>1
<1>4. needed = 2 => b = After(f)
  BY <1>1 DEF After
<1>5. b \in Block /\ After(b) \in Block
  BY <1>1, <1>3, <1>4, AfterIs
<1>6. After(f) = IF f = QUEUE_LENGTH - 1 THEN 0 ELSE f + 1
  BY AfterIs
<1>7. After(b) = IF b = QUEUE_LENGTH - 1 THEN 0 ELSE b + 1
  BY <1>5, AfterIs
<1>8. CASE needed = 1
  BY <1>1, <1>2, <1>3, <1>5, <1>7, <1>8 DEF Ring, Block
<1>9. CASE needed = 2
  BY <1>1, <1>2, <1>4, <1>5, <1>6, <1>7, <1>9 DEF Ring, Block
<1> QED
  BY <1>8, <1>9

-----------------------------------------------------------------------------
(* A step of op_poll on the oldest block.                                    *)

\* Where such a step may start and where it may end.
Busy == Place \ (Outside \cup {"NEVER_STARTED", "advance"})

\* What it may do: change that block's state, unless it was aborted to one of reset.
Proceeds ==
  /\ at \in Busy
  /\ op' \in [Block -> Contents]
  /\ \A b \in Block \ {op_used} : op'[b] = op[b]
  /\ op'[op_used].callback = op[op_used].callback
  /\ op'[op_used].state \notin {"READY", "NEVER_STARTED"}
  /\ op[op_used].state = "ABORT" =>
       op'[op_used].state \in {"ABORT", "WAIT_RESET_CMD", "WAIT_RESET_DAT", "COMPLETED"}
  /\ at' \in (Busy \cup {"out"}) \ {"READY"}
  /\ UNCHANGED <<op_used, op_free, fg, fgop, op_status, calls, raced>>

Processing ==
  \/ Ready \/ Issue \/ WaitBufferReady \/ Move \/ Moved \/ WaitTransferComplete \/ Reset
  \/ \E late \in BOOLEAN : WaitCmdInhibit(late) \/ WaitDatInhibit(late)
                           \/ WaitResetCmd(late) \/ WaitResetDat(late)
  \/ \E cardError \in BOOLEAN : WaitCommandComplete(cardError)

\* Every such step is of that form.
LEMMA ProcessingProceeds ==
  ASSUME QueueInv, Processing
  PROVE  Proceeds
<1> USE DEF Contents, QueueInv, QueueTypes, Head, Proceeds, Busy, Outside, Place,
   State, Rest, queue, caller, answers
<1>1. CASE Ready
  BY <1>1 DEF Ready, switch_state, SetState
<1>2. CASE Issue
  BY <1>2 DEF Issue, switch_state, SetState
<1>3. CASE WaitBufferReady
  BY <1>3 DEF WaitBufferReady
<1>4. CASE Move
  BY <1>4 DEF Move
<1>5. CASE Moved
  BY <1>5 DEF Moved, switch_state, SetState
<1>6. CASE WaitTransferComplete
  BY <1>6 DEF WaitTransferComplete, completed, SetState
<1>7. CASE Reset
  BY <1>7 DEF Reset, SetState
<1>8. ASSUME NEW late \in BOOLEAN, WaitCmdInhibit(late) PROVE Proceeds
  BY <1>8 DEF WaitCmdInhibit, switch_state, SetState
<1>9. ASSUME NEW late \in BOOLEAN, WaitDatInhibit(late) PROVE Proceeds
  BY <1>9 DEF WaitDatInhibit
<1>10. ASSUME NEW late \in BOOLEAN, WaitResetCmd(late) PROVE Proceeds
  BY <1>10 DEF WaitResetCmd, SetState
<1>11. ASSUME NEW late \in BOOLEAN, WaitResetDat(late) PROVE Proceeds
  BY <1>11 DEF WaitResetDat, completed, SetState
<1>12. ASSUME NEW cardError \in BOOLEAN, WaitCommandComplete(cardError) PROVE Proceeds
  BY <1>12 DEF WaitCommandComplete, completed, switch_state, SetState
<1> QED
  BY <1>1, <1>2, <1>3, <1>4, <1>5, <1>6, <1>7, <1>8, <1>9, <1>10, <1>11, <1>12
     DEF Processing

\* The steps of each kind keep the invariant and both rules.
Good == QueueInv' /\ AnswersEach /\ RespectsAborts

\* No count is above what its block is due.
LEMMA CountsBounded ==
  ASSUME QueueInv'
  PROVE  \A b \in Block : calls'[b] <= Answers(b)'
BY DEF QueueInv, QueueTypes, Counted, Given, Answers

\* If nothing leaves the queue, that is the whole rule.
LEMMA NobodyLeaves ==
  ASSUME QueueInv', Queued \subseteq Queued', Queued \subseteq Block
  PROVE  AnswersEach
BY CountsBounded DEF AnswersEach

\* Steps of that form keep the invariant and both rules.
LEMMA ProceedsGood ==
  ASSUME QueueInv, Proceeds
  PROVE  Good
<1> USE DEF Contents, QueueInv, QueueTypes, Proceeds, Busy, Outside, Place, State
<1>1. Queued' = Queued
  BY DEF Queued, OpsUsed
<1>2. Queued \subseteq Block
  BY QueuedIs DEF Ring
<1>3. QueueTypes'
  OBVIOUS
<1>4. Head' /\ Delicate'
  BY <1>1 DEF Head, Delicate
<1>5. Counted'
  <2>1. \A b \in Block : Given(b)' = Given(b)
    BY DEF Given, Head
  <2> QED
    BY <1>1, <2>1 DEF Counted
<1>6. Caller'
  BY <1>1, <1>2 DEF Caller, Waiting
<1>7. AnswersEach
  BY <1>1, <1>2, <1>3, <1>4, <1>5, <1>6, NobodyLeaves
<1>8. RespectsAborts
  BY <1>1, <1>2 DEF RespectsAborts, GoesOn, Revived, Head
<1> QED
  BY <1>3, <1>4, <1>5, <1>6, <1>7, <1>8 DEF Good

-----------------------------------------------------------------------------
(* The other steps of op_poll.                                               *)

\* A step that changes no block, no index and no count.
LEMMA StillRules ==
  ASSUME QueueInv, QueueInv', UNCHANGED <<op, op_used, op_free>>
  PROVE  AnswersEach /\ RespectsAborts
<1>1. Queued' = Queued /\ Queued \subseteq Block
  BY QueuedIs DEF Queued, OpsUsed, Ring, QueueInv, QueueTypes
<1> QED
  BY <1>1, NobodyLeaves DEF RespectsAborts, GoesOn, Revived

\* op_status is looked at.
LEMMA TestStatusGood ==
  ASSUME QueueInv, TestStatus
  PROVE  Good
<1>1. /\ UNCHANGED <<queue, caller, answers>>
      /\ at \in Outside /\ at' = "enter" /\ Waiting
  BY DEF TestStatus, Outside
<1>2. Queued' = Queued
  BY <1>1 DEF Queued, OpsUsed, queue
<1>3. QueueTypes'
  BY <1>1 DEF QueueInv, QueueTypes, queue, caller, answers, Place
<1>4. Head' /\ Delicate'
  BY <1>1, <1>2 DEF QueueInv, Head, Delicate, queue, answers, Outside
<1>5. Counted'
  <2>1. \A b \in Block : Given(b)' = Given(b)
    BY <1>1 DEF Given, Answers, queue, answers, Outside
  <2> QED
    BY <1>1, <1>2, <2>1 DEF QueueInv, Counted, answers
<1>6. Caller'
  BY <1>1, <1>2 DEF QueueInv, Caller, Waiting, queue, caller, answers
<1> QED
  BY <1>1, <1>3, <1>4, <1>5, <1>6, StillRules DEF Good, QueueInv, queue

\* The loop looks at the oldest block.
LEMMA WhileGood ==
  ASSUME QueueInv, While
  PROVE  Good
<1>1. Queued' = Queued
  BY DEF Queued, OpsUsed, While, Rest
<1>2. op_used # op_free => op_used \in Queued
  BY QueuedIs, RingAdvance DEF QueueInv, QueueTypes
<1>3. QueueTypes'
  BY DEF QueueInv, QueueTypes, While, Rest, caller, answers, Place, State, Contents
<1>4. Head' /\ Delicate'
  BY <1>1, <1>2 DEF QueueInv, QueueTypes, Head, Delicate, While, Rest, answers, Outside,
     State, Contents
<1>5. Counted'
  <2>1. \A b \in Block : Given(b)' = Given(b)
    BY DEF Given, Answers, While, Rest, answers, QueueInv, QueueTypes, State, Contents
  <2> QED
    BY <1>1, <2>1 DEF QueueInv, Counted, While, Rest, answers
<1>6. Caller'
  BY <1>1 DEF QueueInv, QueueTypes, Caller, Waiting, While, Rest, caller, answers, State,
     Contents
<1> QED
  BY <1>3, <1>4, <1>5, <1>6, StillRules DEF Good, QueueInv, While, Rest

\* A call of callbacks writes nothing but a flag and counts.
LEMMA CallbackTypes ==
  ASSUME QueueInv, NEW bs, op_do_callback(bs)
  PROVE  op_status' \in BOOLEAN /\ calls' \in [Block -> Int]
<1>1. op_status' \in BOOLEAN
  <2> DEFINE called == {b \in bs : op[b].callback # "none"}
             polling == fg \in {"polling", "aborting"}
             stale == \E b \in called : op[b].callback = "fg"
  <2>1. /\ (op_status \/ (polling /\ fgop \in called)) \in BOOLEAN
        /\ (op_status \/ (polling /\ stale)) \in BOOLEAN
    OBVIOUS
  <2> QED
    BY <2>1 DEF op_do_callback
<1>2. calls' \in [Block -> Int]
  BY DEF op_do_callback, QueueInv, QueueTypes
<1> QED
  BY <1>1, <1>2

\* The client is answered here, unless it has been.
LEMMA FinishGood ==
  ASSUME QueueInv, Finish
  PROVE  Good
<1> USE DEF Contents, QueueInv, QueueTypes, Place, State
<1>1. Queued' = Queued /\ Queued \subseteq Block
  BY QueuedIs DEF Queued, OpsUsed, Ring, Finish, queue
<1>2. op_used \in Queued
  BY QueuedIs, RingAdvance DEF Head, Finish, Outside
<1>3. QueueTypes'
  BY CallbackTypes DEF Finish, queue
<1>4. Head' /\ Delicate'
  BY <1>1 DEF Finish, queue, Head, Delicate, Outside
<1>5. Counted'
  <2>1. \A b \in Block \ {op_used} : calls'[b] = calls[b] /\ Given(b)' = Given(b)
    BY DEF Finish, queue, op_do_callback, Given, Answers
  <2>2. calls'[op_used] = Given(op_used)'
    <3>1. calls[op_used] = Given(op_used)
      BY <1>2 DEF Counted
    <3> QED
      BY <3>1 DEF Finish, queue, op_do_callback, Given, Answers, Head, Outside
  <2> QED
    BY <1>1, <1>2, <2>1, <2>2 DEF Counted, Finish, queue
<1>6. Caller'
  BY <1>1 DEF Caller, Waiting, Finish, queue, op_do_callback
<1>7. AnswersEach
  BY <1>1, <1>3, <1>4, <1>5, <1>6, NobodyLeaves
<1>8. RespectsAborts
  BY <1>1 DEF RespectsAborts, GoesOn, Revived, Finish, queue
<1> QED
  BY <1>3, <1>4, <1>5, <1>6, <1>7, <1>8 DEF Good

\* What leaves the queue has been answered.
LEMMA AdvanceGood ==
  ASSUME QueueInv, Advance
  PROVE  Good
<1> USE DEF Contents, QueueInv, QueueTypes, Place, State
<1>1. /\ op_used' \in Block /\ op_free' \in Block /\ op_used \in Queued
      /\ Queued' = Queued \ {op_used}
      /\ Queued \subseteq Block
  BY QueuedIs, QueuedNext, RingAdvance, AfterIs DEF Head, Advance, Ring, Outside
<1>2. \A b \in Block \ {op_used} : calls'[b] = calls[b] /\ op'[b] = op[b]
  BY DEF Advance
<1>3. QueueTypes'
  BY <1>1 DEF Advance, caller, Unused
<1>4. Head' /\ Delicate'
  BY <1>1, <1>2 DEF Advance, Head, Delicate, Outside
<1>5. Counted'
  <2>1. \A b \in Queued \ {op_used} : Given(b)' = Given(b)
    BY <1>1, <1>2 DEF Given, Answers, Advance
  <2>2. calls'[op_used] = 0
    BY DEF Advance
  <2> QED
    BY <1>1, <1>2, <2>1, <2>2 DEF Counted
<1>6. Caller'
  BY <1>1 DEF Caller, Waiting, Counted, Given, Answers, Advance, caller
<1>7. AnswersEach
  <2>1. \A b \in Queued : calls'[b] <= Answers(b)'
    BY <1>1, <1>3, <1>4, <1>5, <1>6, CountsBounded
  <2>2. op[op_used].callback # "none" => calls[op_used] = Answers(op_used)
    BY <1>1 DEF Counted, Given, Advance
  <2> QED
    BY <1>1, <2>1, <2>2 DEF AnswersEach
<1>8. RespectsAborts
  BY <1>1 DEF RespectsAborts, GoesOn, Revived, Advance, Unused
<1> QED
  BY <1>3, <1>4, <1>5, <1>6, <1>7, <1>8 DEF Good

\* Any step of op_poll.
LEMMA PollGood ==
  ASSUME QueueInv, op_poll
  PROVE  Good
<1>1. While \/ Finish \/ Advance \/ Processing
  BY DEF op_poll, Processing
<1> QED
  BY <1>1, WhileGood, FinishGood, AdvanceGood, ProcessingProceeds,
     ProceedsGood

-----------------------------------------------------------------------------
(* Aborts.                                                                   *)

\* What an abort does to the state of one of its blocks, and to the count of its answers.
LEMMA AbortCounts ==
  ASSUME QueueInv, NEW bs \in SUBSET Queued, op_abort(bs), NEW b \in bs,
         UNCHANGED <<op_used, op_free>>,
         at' = at \/ (at \in Outside /\ at' \in Outside)
  PROVE  calls'[b] = Given(b)'
<1> USE DEF Contents, QueueInv, QueueTypes, op_abort, set_abort_state
<1>1. b \in Queued /\ b \in Block
  BY QueuedIs DEF Ring
<1>2. calls[b] = Given(b)
  BY <1>1 DEF Counted
<1>3. /\ op'[b].state = set_abort_state(op[b].state)
      /\ op'[b].callback = op[b].callback
      /\ b \in raced' <=> b \in raced \/ Races(b)
      /\ at' = "advance" <=> at = "advance"
  BY <1>1 DEF Outside
<1>4. calls'[b] = IF op[b].state = "READY" /\ op[b].callback # "none"
                  THEN calls[b] + 1 ELSE calls[b]
  BY <1>1 DEF op_do_callback
<1>5. CASE op[b].callback = "none"
  BY <1>2, <1>3, <1>4, <1>5 DEF Given
<1>6. CASE op[b].callback # "none" /\ b = op_used /\ at = "advance"
  BY <1>2, <1>3, <1>4, <1>6 DEF Given, Answers, Races, Head
<1>7. CASE op[b].callback # "none" /\ ~(b = op_used /\ at = "advance")
  <2>1. Given(b) = IF b \in raced \/ op[b].state = "NEVER_STARTED" THEN 1 ELSE 0
    BY <1>7 DEF Given
  <2>2. Given(b)' = IF b \in raced' \/ op'[b].state = "NEVER_STARTED" THEN 1 ELSE 0
    BY <1>3, <1>7 DEF Given
  <2>3. op[b].state = "READY" => b \notin raced
    BY DEF Delicate
  <2> QED
    BY <1>2, <1>3, <1>4, <1>7, <2>1, <2>2, <2>3 DEF Races
<1> QED
  BY <1>5, <1>6, <1>7

\* Aborts, whenever they come.
LEMMA AbortGood ==
  ASSUME QueueInv, NEW bs \in SUBSET Queued, op_abort(bs),
         UNCHANGED <<op_used, op_free, fgop>>,
         \/ UNCHANGED <<at, fg>>
         \/ at = "enter" /\ at' = "while" /\ fg = "polling" /\ fg' = "aborting"
  PROVE  Good
<1> USE DEF Contents, QueueInv, QueueTypes, Place, State, op_abort, set_abort_state
<1>1. Queued' = Queued /\ Queued \subseteq Block
  BY QueuedIs DEF Queued, OpsUsed, Ring
<1>2. QueueTypes'
  BY <1>1, CallbackTypes
<1>3. Head'
  BY <1>1 DEF Head, Outside, Races
<1>4. Delicate'
  BY <1>1 DEF Delicate, Head, Races, Outside
<1>5. Counted'
  <2>1. at' = at \/ (at \in Outside /\ at' \in Outside)
    BY DEF Outside
  <2>2. \A b \in Block \ bs : calls'[b] = calls[b] /\ Given(b)' = Given(b)
    BY <1>1 DEF op_do_callback, Given, Answers
  <2>3. \A b \in bs : calls'[b] = Given(b)'
    BY <2>1, AbortCounts
  <2> QED
    BY <1>1, <2>2, <2>3 DEF Counted
<1>6. Caller'
  BY <1>1 DEF Caller, Waiting, op_do_callback
<1>7. AnswersEach
  BY <1>1, <1>2, <1>3, <1>4, <1>5, <1>6, NobodyLeaves
<1>8. RespectsAborts
  BY <1>1 DEF RespectsAborts, GoesOn, Revived
<1> QED
  BY <1>2, <1>3, <1>4, <1>5, <1>6, <1>7, <1>8 DEF Good

\* SDIO_Control 5.
LEMMA AbortOpGood ==
  ASSUME QueueInv, NEW b \in Block, AbortOp(b)
  PROVE  Good
<1>1. {b} \in SUBSET Queued /\ op_abort({b})
  BY DEF AbortOp, HandlerAborts
<1> QED
  BY <1>1, AbortGood DEF AbortOp, HandlerAborts, poller

\* SDIO_Control 4.
LEMMA AbortAllGood ==
  ASSUME QueueInv, AbortAll
  PROVE  Good
BY AbortGood DEF AbortAll, HandlerAborts, poller

\* The foreground aborts its own request, whatever has become of it since it looked.
LEMMA ForegroundTimeoutGood ==
  ASSUME QueueInv, ForegroundTimeout
  PROVE  Good
<1>1. {fgop} \in SUBSET Queued
  BY DEF ForegroundTimeout, QueueInv, Caller
<1> QED
  BY <1>1, AbortGood DEF ForegroundTimeout

-----------------------------------------------------------------------------
(* Queueing.                                                                 *)

\* What joins the queue is READY and has had no answer; what was there stays.
LEMMA EnqueueKeeps ==
  ASSUME QueueInv, NEW needed \in 1 .. 2, NEW callback \in {"fg", "bg"},
         NEW kinds \in SUBSET {"none", "busy", "write", "read"},
         NEW r \in Requests(kinds, callback), Enqueue(needed, r), UNCHANGED at
  PROVE  LET b == (op_free + needed - 1) % QUEUE_LENGTH
         IN  /\ op' \in [Block -> Contents]
             /\ op_free' \in Block
             /\ b \in Queued' /\ b \in Block /\ op'[b] = r /\ r.callback = callback
             /\ calls'[b] = 0
             /\ Queued \subseteq Block /\ Queued \subseteq Queued'
             /\ \A q \in Queued : op'[q] = op[q]
             /\ \A q \in Block \ Queued : op'[q] \in {op[q], r, CMD55}
             /\ \A q \in Queued' \ Queued : op'[q] \in {r, CMD55}
             /\ Counted'
             /\ Head' /\ Delicate'
<1> DEFINE b == (op_free + needed - 1) % QUEUE_LENGTH
<1> USE DEF Contents, QueueInv, QueueTypes, State, Place
<1>1. /\ b \in Block /\ op_free' \in Block /\ op_used' = op_used
      /\ Queued' = Queued \cup {op_free, b}
      /\ op_free \notin Queued /\ b \notin Queued
      /\ Queued \subseteq Block
      /\ needed = 1 => b = op_free
      /\ needed = 2 => b # op_free
  <2>1. InUse(op_used, op_free) < QUEUE_LENGTH - needed
    BY DEF Enqueue, Room, OpsUsed, InUse
  <2>2. /\ b \in Block /\ After(b) \in Block
        /\ Ring(op_used, After(b)) = Ring(op_used, op_free) \cup {op_free, b}
        /\ op_free \notin Ring(op_used, op_free) /\ b \notin Ring(op_used, op_free)
        /\ needed = 1 => b = op_free
        /\ needed = 2 => b # op_free
    BY <2>1, RingJoin
  <2>3. op_free' = After(b) /\ op_used' = op_used
    BY DEF Enqueue
  <2> QED
    BY <2>2, <2>3, QueuedIs, QueuedNext DEF Ring
<1>2. r.state = "READY" /\ r.callback = callback
      /\ r \in Contents
  BY SDIOOpAssumption DEF Contents, Requests, Request
<1>3. /\ op'[b] = r
      /\ needed = 2 => op'[op_free] = CMD55
      /\ \A q \in Block \ {op_free, b} : op'[q] = op[q]
      /\ calls' = calls /\ raced' = raced
  BY <1>1 DEF Enqueue, answers
<1>4. op' \in [Block -> Contents]
  BY <1>1, <1>2 DEF Contents, Enqueue, CMD55
<1>5. \A q \in Queued : op'[q] = op[q]
  BY <1>1, <1>3
<1>6. Counted'
  <2>1. \A q \in Queued : Given(q)' = Given(q)
    BY <1>1, <1>3, <1>5 DEF Given, Answers
  <2>2. ASSUME NEW q \in Queued' \ Queued PROVE Given(q)' = 0 /\ calls[q] = 0
    <3>1. at = "advance" => op_used \in Queued
      BY QueuedIs, RingAdvance DEF Head, Outside
    <3>2. ~(q = op_used' /\ at' = "advance")
      BY <1>1, <3>1
    <3>3. op'[q] = r \/ op'[q] = CMD55
      BY <1>1, <1>3
    <3>4. q \notin raced'
      BY <1>3, <2>2 DEF Delicate
    <3>5. q \in Block
      BY <1>1
    <3> QED
      BY <1>2, <2>2, <3>2, <3>3, <3>4, <3>5 DEF Given, CMD55, Counted
  <2> QED
    BY <1>1, <1>3, <2>1, <2>2 DEF Counted
<1>7. Head' /\ Delicate'
  <2>1. at \notin Outside => op_used \in Queued
    BY QueuedIs, RingAdvance DEF Head
  <2>2. at \notin Outside => op_used # op_free'
    BY <1>1, <2>1, QueuedNext DEF Ring, Block
  <2>3. Head'
    <3>1. /\ UNCHANGED <<at, op_used, raced>>
          /\ at \notin Outside => op'[op_used] = op[op_used]
      BY <1>1, <1>3, <1>5, <2>1
    <3>2. CASE at \in Outside
      BY <3>1, <3>2 DEF Head, Outside
    <3>3. CASE at \notin Outside
      BY <2>2, <3>1, <3>3 DEF Head
    <3> QED
      BY <3>2, <3>3
  <2>4. Delicate'
    <3>1. raced' = raced /\ raced \subseteq Queued /\ Queued \subseteq Queued'
      BY <1>1, <1>3 DEF Delicate
    <3> QED
      BY <1>1, <1>5, <3>1 DEF Delicate
  <2> QED
    BY <2>3, <2>4
<1>8. /\ \A q \in Block \ Queued : op'[q] \in {op[q], r, CMD55}
      /\ \A q \in Queued' \ Queued : op'[q] \in {r, CMD55}
  BY <1>1, <1>3
<1> QED
  BY <1>1, <1>2, <1>3, <1>4, <1>5, <1>6, <1>7, <1>8 DEF Delicate, Counted

\* The rules hold of a step that only adds to the queue.
LEMMA JoinRules ==
  ASSUME QueueInv', Queued \subseteq Queued', Queued \subseteq Block,
         \A q \in Queued : op'[q] = op[q]
  PROVE  AnswersEach /\ RespectsAborts
BY NobodyLeaves DEF RespectsAborts, GoesOn, Revived

\* A request by an interrupt handler joins.
LEMMA BackgroundOpGood ==
  ASSUME QueueInv, BackgroundOp
  PROVE  Good
<1>1. PICK needed \in 1 .. 2, r \in Requests(BgKinds, "bg") : Enqueue(needed, r)
  BY DEF BackgroundOp
<1>2. /\ BgKinds \in SUBSET {"none", "busy", "write", "read"}
      /\ UNCHANGED <<at, fg, fgop, op_status>>
  BY SDIOOpAssumption DEF BackgroundOp, poller, caller
<1>3. UNCHANGED <<op_used, calls, raced>>
  BY <1>1 DEF Enqueue, answers
<1>4. /\ QueueTypes' /\ Head' /\ Delicate' /\ Counted'
      /\ Queued \subseteq Queued' /\ Queued \subseteq Block
      /\ \A q \in Queued : op'[q] = op[q]
  BY <1>1, <1>2, <1>3, EnqueueKeeps DEF QueueInv, QueueTypes
<1>5. Caller'
  BY <1>2, <1>3, <1>4 DEF QueueInv, QueueTypes, Caller, Waiting
<1> QED
  BY <1>3, <1>4, <1>5, JoinRules DEF Good, QueueInv

\* The foreground's request joins, and it starts to wait.
LEMMA ForegroundQueuesGood ==
  ASSUME QueueInv, ForegroundQueues
  PROVE  Good
<1>1. PICK needed \in 1 .. 2 :
        /\ \E r \in Requests(Kinds, "fg") : Enqueue(needed, r)
        /\ fgop' = (op_free + needed - 1) % QUEUE_LENGTH
  BY DEF ForegroundQueues
<1>2. PICK r \in Requests(Kinds, "fg") : Enqueue(needed, r)
  BY <1>1
<1>3. /\ Kinds \in SUBSET {"none", "busy", "write", "read"}
      /\ UNCHANGED at /\ fg' = "polling" /\ op_status' = FALSE
  BY SDIOOpAssumption DEF ForegroundQueues, poller
<1>4. UNCHANGED <<op_used, calls, raced>>
  BY <1>2 DEF Enqueue, answers
<1>5. /\ QueueTypes' /\ Head' /\ Delicate' /\ Counted'
      /\ Queued \subseteq Queued' /\ Queued \subseteq Block
      /\ \A q \in Queued : op'[q] = op[q]
      /\ fgop' \in Queued' /\ op'[fgop'].callback = "fg" /\ calls'[fgop'] = 0
  BY <1>1, <1>2, <1>3, <1>4, EnqueueKeeps DEF QueueInv, QueueTypes
<1>6. Caller'
  BY <1>3, <1>5 DEF QueueInv, Caller
<1> QED
  BY <1>4, <1>5, <1>6, JoinRules DEF Good, QueueInv
-----------------------------------------------------------------------------
(* The foreground's own steps, and those of the controller.                  *)

\* Before it waits and after.
LEMMA ForegroundStepGood ==
  ASSUME QueueInv, ForegroundOp \/ QueueTimeout \/ ForegroundReturns
  PROVE  Good
<1>1. UNCHANGED <<op, op_used, op_free, at, calls, raced>> /\ ~Waiting' /\ at # "enter"
  BY DEF ForegroundOp, QueueTimeout, ForegroundReturns, Waiting, queue, poller, answers,
     QueueInv, Caller
<1>2. Queued' = Queued
  BY <1>1 DEF Queued, OpsUsed
<1>3. fg' \in {"idle", "queueing"} /\ fgop' \in Block
  BY SDIOOpAssumption
  DEF ForegroundOp, QueueTimeout, ForegroundReturns, QueueInv, QueueTypes, Block
<1>4. op_status' \in BOOLEAN
  BY DEF ForegroundOp, QueueTimeout, ForegroundReturns, QueueInv, QueueTypes
<1>5. QueueTypes' /\ Head' /\ Delicate' /\ Caller'
  BY <1>1, <1>2, <1>3, <1>4 DEF QueueInv, QueueTypes, Head, Delicate, Caller
<1>6. Counted'
  <2>1. \A b \in Block : Given(b)' = Given(b)
    BY <1>1 DEF Given, Answers
  <2> QED
    BY <1>1, <1>2, <2>1 DEF QueueInv, Counted
<1> QED
  BY <1>1, <1>5, <1>6, StillRules DEF Good, QueueInv

\* Nothing of the queue changes.
LEMMA StillGood ==
  ASSUME QueueInv, UNCHANGED <<queue, poller, caller, answers>>
  PROVE  Good
<1>1. Queued' = Queued
  BY DEF Queued, OpsUsed, queue
<1>2. QueueTypes' /\ Head' /\ Delicate' /\ Caller'
  BY <1>1 DEF QueueInv, QueueTypes, Head, Delicate, Caller, Waiting, queue, poller, caller,
     answers
<1>3. Counted'
  <2>1. \A b \in Block : Given(b)' = Given(b)
    BY DEF Given, Answers, queue, poller, answers
  <2> QED
    BY <1>1, <2>1 DEF QueueInv, Counted, answers
<1> QED
  BY <1>2, <1>3, StillRules DEF Good, QueueInv, queue

ControllerStep ==
  CommandComplete \/ BufferReady \/ TransferComplete \/ BusyEnds \/ Fails \/ ResetComplete

\* The controller works on its own.
LEMMA ControllerGood ==
  ASSUME QueueInv, ControllerStep
  PROVE  Good
<1>1. UNCHANGED <<queue, poller, caller, answers>>
  BY DEF ControllerStep, CommandComplete, BufferReady, TransferComplete, BusyEnds, Fails,
     ResetComplete, Controls
<1> QED
  BY <1>1, StillGood

-----------------------------------------------------------------------------
(* The whole.                                                                *)

\* The queue is empty at first.
LEMMA InitQueueInv == Init => QueueInv
<1> SUFFICES ASSUME Init PROVE QueueInv
  OBVIOUS
<1>1. 0 \in Block
  BY SDIOOpAssumption DEF Block
<1>2. Queued = {}
  BY <1>1, QueuedIs DEF Init, Ring, Block
<1>3. QueueTypes
  <2>1. Unused \in Contents
    BY DEF Contents, Unused, State
  <2>2. "out" \in Place /\ FALSE \in BOOLEAN /\ 0 \in Int
    BY DEF Place
  <2> QED
    BY <1>1, <2>1, <2>2 DEF Init, QueueTypes
<1>4. Head /\ Delicate /\ Counted /\ Caller
  BY <1>2 DEF Init, Head, Delicate, Counted, Caller, Waiting, Outside
<1> QED
  BY <1>3, <1>4 DEF QueueInv

\* One case for each kind of step.
LEMMA StepGood ==
  ASSUME QueueInv, [Next]_vars
  PROVE  Good
<1>1. CASE op_poll
  BY <1>1, PollGood
<1>2. CASE ForegroundOp \/ QueueTimeout \/ ForegroundReturns
  BY <1>2, ForegroundStepGood
<1>10. CASE TestStatus
  BY <1>10, TestStatusGood
<1>3. CASE ForegroundQueues
  BY <1>3, ForegroundQueuesGood
<1>4. CASE ForegroundTimeout
  BY <1>4, ForegroundTimeoutGood
<1>5. CASE BackgroundOp
  BY <1>5, BackgroundOpGood
<1>6. CASE AbortAll
  BY <1>6, AbortAllGood
<1>7. CASE \E b \in Block : AbortOp(b)
  BY <1>7, AbortOpGood
<1>8. CASE ControllerStep
  BY <1>8, ControllerGood
<1>9. CASE UNCHANGED vars
  BY <1>9, StillGood DEF vars
<1> QED
  BY <1>1, <1>2, <1>3, <1>4, <1>5, <1>6, <1>7, <1>8, <1>9, <1>10 DEF Next, ControllerStep

\* The queue, op_poll and the waiting foreground stay in step with one another.
THEOREM QueueInvHolds == Spec => []QueueInv
<1>1. QueueInv /\ [Next]_vars => QueueInv'
  BY StepGood DEF Good
<1> QED
  BY <1>1, InitQueueInv, PTL DEF Spec

\* Every request is answered once, by op_poll or by the abort that kept it from starting,
\* before its block is free: op.c 210-229 and 681-691 share that duty without a lock held
\* across both.  It is answered twice, and no more, exactly if an abort came between
\* op_poll's look at the state and its first change of it, or after an abort that had
\* answered the request (swi.c 711-729).
THEOREM AnsweredTwiceIffRaced == Spec => AnsweredOnceUnlessRaced
<1>1. QueueInv /\ [Next]_vars => [AnswersEach]_vars
  BY StepGood DEF Good
<1> QED
  BY <1>1, QueueInvHolds, PTL DEF Spec, AnsweredOnceUnlessRaced

\* Whatever op_poll is doing when an abort comes, it finds out before it starts or goes on
\* with the operation (switch_state, op.c 62-79), but for one moment: it has found the
\* operation READY (op.c 265) and has not said so (op.c 269).
THEOREM AbortsAreRespected == Spec => AbortedNeverGoesOn
<1>1. QueueInv /\ [Next]_vars => [RespectsAborts]_vars
  BY StepGood DEF Good
<1> QED
  BY <1>1, QueueInvHolds, PTL DEF Spec, AbortedNeverGoesOn
-----------------------------------------------------------------------------
(* The controller: a second invariant, on top of the first.                  *)

USE DEF Outside

\* What op_poll is to do next: where it is, or where it will go when called again.
Phase ==
  IF at \notin Outside THEN at
  ELSE IF op_used = op_free THEN "READY" ELSE op[op_used].state

Requested == {"READY", "WAIT_CMD_INHIBIT", "WAIT_DAT_INHIBIT", "issue"}
Transferring == {"WAIT_BUFFER_READY", "move", "moved", "WAIT_TRANSFER_COMPLETE"}
Waits == {"WAIT_CMD_INHIBIT", "WAIT_DAT_INHIBIT", "WAIT_COMMAND_COMPLETE", "WAIT_BUFFER_READY",
          "WAIT_TRANSFER_COMPLETE", "WAIT_RESET_CMD", "WAIT_RESET_DAT"}

ControlTypes == ctl \in Controller /\ tc \in BOOLEAN /\ aborts \in 0 .. MaxAborts

\* Only the oldest block has got anywhere, and op_poll stays with it as its state says.
Untouched == \A b \in Queued \ {op_used} : op[b].state \in {"READY", "NEVER_STARTED", "ABORT"}
Seen ==
  /\ at \in Waits => op[op_used].state \in {at, "ABORT"}
  /\ at = "move" => op[op_used].state \in {"WAIT_BUFFER_READY", "ABORT"}

\* Before its command is issued and after it is over, the controller has nothing of its own
\* to do, unless a reset was given up.
Idle == ctl.cmd = "idle" /\ ctl.dat # "transfer"
Clean ==
  Phase \in Requested \cup {"NEVER_STARTED", "COMPLETED", "advance"} => ctl.gaveUp \/ Idle

Issuing ==
  /\ Phase \in {"WAIT_DAT_INHIBIT", "issue"} => ctl.cmd = "idle" /\ "CC" \notin ctl.status
  /\ at = "issue" /\ op[op_used].kind # "none" => ctl.dat = "idle" /\ "TC" \notin ctl.status

\* The status bits tell of this command, not of an earlier one.
Underway ==
  /\ Phase = "WAIT_COMMAND_COMPLETE" /\ "CC" \in ctl.status => ctl.cmd = "idle"
  /\ Phase = "WAIT_COMMAND_COMPLETE" /\ op[op_used].kind \notin Data =>
       ctl.gaveUp \/ ctl.dat # "transfer"
  /\ Phase \in Transferring => ctl.cmd = "idle" /\ op[op_used].kind \in Data
  /\ Phase \in Transferring \cup {"WAIT_COMMAND_COMPLETE"} /\ op[op_used].kind \in Data
       /\ "TC" \in ctl.status => ctl.dat # "transfer"
  /\ Phase \in Transferring /\ tc => ctl.dat # "transfer"

Resetting ==
  /\ Phase = "WAIT_RESET_CMD" =>
       ctl.reset \in {"none", "cmd"} /\ (ctl.reset = "none" => ctl.cmd = "idle")
  /\ Phase = "WAIT_RESET_DAT" =>
       /\ ctl.gaveUp \/ ctl.cmd = "idle"
       /\ ctl.reset \in {"none", "dat"} /\ (ctl.reset = "none" => ctl.dat # "transfer")
  /\ ctl.reset # "none" => Phase \in {"ABORT", "WAIT_RESET_CMD", "WAIT_RESET_DAT"}

\* The controller and the block agree on how many blocks are still to come.
Counts ==
  /\ \A b \in Block : op[b].block_count \in 0 .. MaxBlocks
  /\ \A b \in Queued :
       op[b].kind \in Data /\ op[b].state \in Requested => op[b].block_count > 0
  /\ at \in Requested /\ op[op_used].kind \in Data => op[op_used].block_count > 0
  /\ Phase = "WAIT_COMMAND_COMPLETE" /\ op[op_used].kind \in Data => op[op_used].block_count > 0
  /\ Phase \in {"WAIT_COMMAND_COMPLETE", "WAIT_BUFFER_READY", "move"} =>
       ctl.left = op[op_used].block_count
  /\ Phase \in {"WAIT_BUFFER_READY", "move"} => op[op_used].block_count > 0

ControlInv ==
  ControlTypes /\ Untouched /\ Seen /\ Clean /\ Issuing /\ Underway /\ Resetting /\ Counts

\* What op_poll works on is in the queue.
LEMMA OldestQueued ==
  ASSUME QueueInv, op_used # op_free
  PROVE  op_used \in Queued
BY QueuedIs, RingAdvance DEF QueueInv, QueueTypes

\* Common to the steps on the oldest block.
Steady ==
  /\ op_used # op_free /\ op_used' = op_used /\ op_free' = op_free
  /\ op_used \in Queued /\ Queued' = Queued /\ Queued \subseteq Block
  /\ Phase = at
  /\ \A b \in Block \ {op_used} : op'[b] = op[b]

\* Steps on the oldest block are.
LEMMA ProcessingSteady ==
  ASSUME QueueInv, Processing
  PROVE  Steady /\ Proceeds
<1>1. Proceeds
  BY ProcessingProceeds
<1>2. op_used # op_free
  BY <1>1 DEF Proceeds, QueueInv, Head, Busy
<1> QED
  BY <1>1, <1>2, OldestQueued, QueuedIs
  DEF Proceeds, Busy, Outside, Steady, Phase, Queued, OpsUsed, Ring, QueueInv, QueueTypes

\* The oldest request is taken up.
LEMMA ReadyControl ==
  ASSUME QueueInv, ControlInv, Ready
  PROVE  ControlInv'
<1>1. Steady /\ Proceeds
  BY ProcessingSteady DEF Processing
<1> USE <1>1 DEF ControlInv, Ready, Rest, switch_state, SetState
<1>2. ControlTypes'
  BY DEF ControlTypes
<1>3. Untouched'
  BY DEF Steady, Untouched
<1>4. Seen'
  BY DEF Seen, QueueInv, QueueTypes, Contents
<1>5. Clean' /\ Issuing'
  BY DEF Clean, Issuing, Idle, Phase, Requested
<1>6. Underway'
  BY DEF Underway, Phase, Transferring
<1>7. Resetting'
  BY DEF Resetting, Phase
<1>8. Counts'
  BY DEF Counts, Phase, Requested, Steady, ControlTypes, QueueInv, QueueTypes, Contents
<1> QED
  BY <1>2, <1>3, <1>4, <1>5, <1>6, <1>7, <1>8

\* The command goes to the controller: the data line is free if it is needed.
LEMMA IssueControl ==
  ASSUME QueueInv, ControlInv, Issue
  PROVE  ControlInv'
<1>1. Steady /\ Proceeds
  BY ProcessingSteady DEF Processing
<1> USE <1>1 DEF ControlInv, Issue, Rest, switch_state, SetState
<1>2. ControlTypes'
  BY DEF ControlTypes, Controller, Counts, Phase, QueueInv, QueueTypes, Contents
<1>3. Untouched'
  BY DEF Steady, Untouched
<1>4. Seen'
  BY DEF Seen, QueueInv, QueueTypes, Contents
<1>5. Clean' /\ Issuing'
  BY DEF Clean, Issuing, Phase, Requested
<1>6. Underway'
  BY DEF Clean, Issuing, Idle, Underway, Phase, Requested, Transferring, ControlTypes,
     Controller, QueueInv, QueueTypes, Contents, Data
<1>7. Resetting'
  BY DEF Resetting, Phase
<1>8. Counts'
  BY DEF Counts, Phase, Requested, Steady, QueueInv, QueueTypes, Contents
<1> QED
  BY <1>2, <1>3, <1>4, <1>5, <1>6, <1>7, <1>8

\* A full buffer means that blocks are left.
LEMMA WaitBufferReadyControl ==
  ASSUME QueueInv, ControlInv, WaitBufferReady
  PROVE  ControlInv'
<1>1. Steady /\ Proceeds
  BY ProcessingSteady DEF Processing
<1> USE <1>1 DEF ControlInv, WaitBufferReady, Rest, Ack
<1>2. ControlTypes'
  BY DEF ControlTypes, Controller, Counts
<1>3. Untouched'
  BY DEF Steady, Untouched
<1>4. Seen'
  BY DEF Seen, Waits
<1>5. Clean' /\ Issuing'
  BY DEF Clean, Issuing, Phase, Requested, Steady, Seen, Waits
<1>6. Underway'
  BY DEF Underway, Transferring, Steady, ControlTypes
<1>7. Resetting'
  BY DEF Resetting, Phase, Seen, Waits
<1>8. Counts'
  BY DEF Counts, Steady
<1> QED
  BY <1>2, <1>3, <1>4, <1>5, <1>6, <1>7, <1>8

\* Block and controller count down together.
LEMMA MoveControl ==
  ASSUME QueueInv, ControlInv, Move
  PROVE  ControlInv'
<1>1. Steady /\ Proceeds
  BY ProcessingSteady DEF Processing
<1> USE <1>1 DEF ControlInv, Move, Rest
<1>10. /\ op'[op_used].block_count = op[op_used].block_count - 1
       /\ op'[op_used].kind = op[op_used].kind
       /\ op'[op_used].state = op[op_used].state
  BY DEF QueueInv, QueueTypes
<1>11. ctl.left = op[op_used].block_count /\ ctl.left \in 1 .. MaxBlocks
  BY SDIOOpAssumption DEF Counts, Steady
<1>2. ControlTypes'
  <2>1. ctl.left - 1 \in 0 .. MaxBlocks
    BY <1>11, SDIOOpAssumption
  <2>2. ctl' \in Controller
    BY <2>1 DEF ControlTypes, Controller
  <2> QED
    BY <2>2 DEF ControlTypes
<1>3. Untouched'
  BY DEF Steady, Untouched
<1>4. Seen'
  BY <1>10 DEF Seen, Waits
<1>5. Clean' /\ Issuing'
  BY DEF Clean, Issuing, Phase, Requested
<1>6. Underway'
  BY DEF Underway, Transferring, Steady
<1>7. Resetting'
  BY DEF Resetting, Phase
<1>8. Counts'
  <2>1. \A q \in Block : op'[q].block_count \in 0 .. MaxBlocks
    BY <1>10, <1>11, SDIOOpAssumption DEF Counts
  <2>2. \A q \in Queued' :
          op'[q].kind \in Data /\ op'[q].state \in Requested => op'[q].block_count > 0
    BY <1>10 DEF Counts, Steady, Requested, Seen
  <2>3. ctl'.left = op'[op_used].block_count
    BY <1>10, <1>11 DEF ControlTypes, Controller
  <2>4. at' = "WAIT_BUFFER_READY" => op'[op_used].block_count > 0
    BY <1>10, <1>11
  <2> QED
    BY <2>1, <2>2, <2>3, <2>4 DEF Counts, Phase, Requested
<1> QED
  BY <1>2, <1>3, <1>4, <1>5, <1>6, <1>7, <1>8

\* The transfer is over, or is waited for.
LEMMA MovedControl ==
  ASSUME QueueInv, ControlInv, Moved
  PROVE  ControlInv'
<1>1. Steady /\ Proceeds
  BY ProcessingSteady DEF Processing
<1> USE <1>1 DEF ControlInv, Moved, Rest, switch_state, SetState
<1>2. ControlTypes'
  BY DEF ControlTypes
<1>3. Untouched'
  BY DEF Steady, Untouched
<1>4. Seen'
  BY DEF Seen, QueueInv, QueueTypes, Contents
<1>5. Clean' /\ Issuing'
  BY DEF Clean, Issuing, Idle, Phase, Requested, Underway, Transferring
<1>6. Underway'
  BY DEF Underway, Transferring, Steady, QueueInv, QueueTypes, Contents
<1>7. Resetting'
  BY DEF Resetting, Phase
<1>8. Counts'
  BY DEF Counts, Phase, Requested, Steady, Seen, QueueInv, QueueTypes, Contents
<1> QED
  BY <1>2, <1>3, <1>4, <1>5, <1>6, <1>7, <1>8

\* Complete means that the data line is free.
LEMMA WaitTransferCompleteControl ==
  ASSUME QueueInv, ControlInv, WaitTransferComplete
  PROVE  ControlInv'
<1>1. Steady /\ Proceeds
  BY ProcessingSteady DEF Processing
<1> USE <1>1 DEF ControlInv, WaitTransferComplete, Rest, completed, SetState, Ack
<1>2. ControlTypes'
  BY DEF ControlTypes, Controller
<1>3. Untouched'
  BY DEF Steady, Untouched
<1>4. Seen'
  BY DEF Seen, Waits
<1>5. Clean' /\ Issuing'
  BY DEF Clean, Issuing, Idle, Phase, Requested, Steady, Underway, Seen, Waits, Transferring
<1>6. Underway'
  BY DEF Underway, Transferring, Steady, QueueInv, QueueTypes, Contents
<1>7. Resetting'
  BY DEF Resetting, Phase, Seen, Waits
<1>8. Counts'
  BY DEF Counts, Phase, Requested, Steady, Seen, Waits, QueueInv, QueueTypes, Contents
<1> QED
  BY <1>2, <1>3, <1>4, <1>5, <1>6, <1>7, <1>8

\* The reset of the command line begins.
LEMMA ResetControl ==
  ASSUME QueueInv, ControlInv, Reset
  PROVE  ControlInv'
<1>1. Steady /\ Proceeds
  BY ProcessingSteady DEF Processing
<1> USE <1>1 DEF ControlInv, Reset, Rest, SetState
<1>2. ControlTypes'
  BY DEF ControlTypes, Controller
<1>3. Untouched'
  BY DEF Steady, Untouched
<1>4. Seen'
  BY DEF Seen, QueueInv, QueueTypes
<1>5. Clean' /\ Issuing'
  BY DEF Clean, Issuing, Phase, Requested
<1>6. Underway'
  BY DEF Underway, Phase, Transferring
<1>7. Resetting'
  BY DEF Resetting, Phase
<1>8. Counts'
  BY DEF Counts, Phase, Requested, Steady
<1> QED
  BY <1>2, <1>3, <1>4, <1>5, <1>6, <1>7, <1>8

\* Old bits are cleared with the line idle, so they do not come back.
LEMMA WaitCmdInhibitControl ==
  ASSUME QueueInv, ControlInv, NEW late \in BOOLEAN, WaitCmdInhibit(late)
  PROVE  ControlInv'
<1>1. Steady /\ Proceeds
  BY ProcessingSteady DEF Processing
<1> USE <1>1 DEF ControlInv, WaitCmdInhibit, Rest, switch_state, SetState, Ack
<1>2. ControlTypes'
  BY DEF ControlTypes, Controller
<1>3. Untouched'
  BY DEF Steady, Untouched
<1>4. Seen'
  BY DEF Seen, Waits, QueueInv, QueueTypes, Contents
<1>5. Clean' /\ Issuing'
  BY DEF Clean, Issuing, Idle, Phase, Requested, ControlTypes, Controller, Seen, Waits
<1>6. Underway'
  BY DEF Underway, Phase, Transferring, Seen, Waits
<1>7. Resetting'
  BY DEF Resetting, Phase, ControlTypes, Controller, Seen, Waits
<1>8. Counts'
  BY DEF Counts, Phase, Requested, Steady, ControlTypes, Seen, Waits, QueueInv, QueueTypes,
     Contents
<1> QED
  BY <1>2, <1>3, <1>4, <1>5, <1>6, <1>7, <1>8

\* The same of the data line.
LEMMA WaitDatInhibitControl ==
  ASSUME QueueInv, ControlInv, NEW late \in BOOLEAN, WaitDatInhibit(late)
  PROVE  ControlInv'
<1>1. Steady /\ Proceeds
  BY ProcessingSteady DEF Processing
<1> USE <1>1 DEF ControlInv, WaitDatInhibit, Rest, Ack
<1>2. ControlTypes'
  BY DEF ControlTypes, Controller
<1>3. Untouched'
  BY DEF Steady, Untouched
<1>4. Seen'
  BY DEF Seen, Waits
<1>5. Clean' /\ Issuing'
  BY DEF Clean, Issuing, Idle, Requested, Steady, ControlTypes, Controller
<1>6. Underway'
  BY DEF Underway, Phase, Transferring, Seen, Waits
<1>7. Resetting'
  BY DEF Resetting, Phase, ControlTypes, Controller, Seen, Waits
<1>8. Counts'
  BY DEF Counts, Phase, Requested, Steady, Seen, Waits
<1> QED
  BY <1>2, <1>3, <1>4, <1>5, <1>6, <1>7, <1>8

\* The command line is reset or given up.
LEMMA WaitResetCmdControl ==
  ASSUME QueueInv, ControlInv, NEW late \in BOOLEAN, WaitResetCmd(late)
  PROVE  ControlInv'
<1>1. Steady /\ Proceeds
  BY ProcessingSteady DEF Processing
<1> USE <1>1 DEF ControlInv, WaitResetCmd, Rest, SetState
<1>2. ControlTypes'
  BY DEF ControlTypes, Controller, Counts, Phase, QueueInv, QueueTypes, Contents
<1>3. Untouched'
  BY DEF Steady, Untouched
<1>4. Seen'
  BY DEF Seen, Waits, QueueInv, QueueTypes, Contents
<1>5. Clean' /\ Issuing'
  BY DEF Clean, Issuing, Phase, Requested, Steady, Seen, Waits
<1>6. Underway'
  BY DEF Underway, Phase, Transferring, Seen, Waits
<1>7. Resetting'
  BY DEF Resetting, Clean, Idle, Requested, Phase, Steady, ControlTypes, Controller, Seen,
     Waits, QueueInv
<1>8. Counts'
  BY DEF Counts, Phase, Requested, Steady, Seen, Waits, QueueInv, QueueTypes, Contents
<1> QED
  BY <1>2, <1>3, <1>4, <1>5, <1>6, <1>7, <1>8

\* The data line is reset or given up.
LEMMA WaitResetDatControl ==
  ASSUME QueueInv, ControlInv, NEW late \in BOOLEAN, WaitResetDat(late)
  PROVE  ControlInv'
<1>1. Steady /\ Proceeds
  BY ProcessingSteady DEF Processing
<1> USE <1>1 DEF ControlInv, WaitResetDat, Rest, completed, SetState
<1>2. ControlTypes'
  BY DEF ControlTypes, Controller, Counts, Phase, QueueInv, QueueTypes, Contents
<1>3. Untouched'
  BY DEF Steady, Untouched
<1>4. Seen'
  BY DEF Seen, Waits
<1>5. Clean' /\ Issuing'
  BY DEF Clean, Issuing, Idle, Phase, Requested, Steady, ControlTypes, Controller, Underway,
     Resetting, Seen, Waits, QueueInv, QueueTypes, Contents, Transferring, Data
<1>6. Underway'
  BY DEF Underway, Phase, Transferring, Seen, Waits
<1>7. Resetting'
  BY DEF Resetting, Phase, Steady, ControlTypes, Controller, Seen, Waits
<1>8. Counts'
  BY DEF Counts, Phase, Requested, Steady, Seen, Waits, QueueInv, QueueTypes, Contents
<1> QED
  BY <1>2, <1>3, <1>4, <1>5, <1>6, <1>7, <1>8

\* The command is over, or goes on to its data.
LEMMA WaitCommandCompleteControl ==
  ASSUME QueueInv, ControlInv, NEW cardError \in BOOLEAN, WaitCommandComplete(cardError)
  PROVE  ControlInv'
<1>1. Steady /\ Proceeds
  BY ProcessingSteady DEF Processing
<1> USE <1>1 DEF ControlInv, WaitCommandComplete, Rest, completed, switch_state, SetState,
   Ack
<1>2. ControlTypes'
  <2>1. tc' \in BOOLEAN
    <3>1. CASE "ERR" \in ctl.status \/ "CC" \notin ctl.status
      BY <3>1 DEF ControlTypes
    <3>2. CASE "ERR" \notin ctl.status /\ "CC" \in ctl.status
      <4>1. tc' = ("TC" \in ctl.status)
        BY <3>2
      <4> QED
        BY <4>1
    <3> QED
      BY <3>1, <3>2
  <2>2. ctl' \in Controller
    BY DEF ControlTypes, Controller
  <2> QED
    BY <2>1, <2>2 DEF ControlTypes
<1>3. Untouched'
  BY DEF Steady, Untouched
<1>4. Seen'
  BY DEF Seen, Waits, QueueInv, QueueTypes, Contents
<1>5. Clean' /\ Issuing'
  BY DEF Clean, Issuing, Idle, Phase, Requested, Steady, Underway, Seen, Waits
<1>6. Underway'
  BY DEF Underway, Phase, Transferring, Seen, Waits, QueueInv, QueueTypes, Contents
<1>7. Resetting'
  BY DEF Resetting, Phase, Seen, Waits
<1>8. Counts'
  BY DEF Counts, Phase, Requested, Steady, Seen, Waits, QueueInv, QueueTypes, Contents
<1> QED
  BY <1>2, <1>3, <1>4, <1>5, <1>6, <1>7, <1>8

\* Any step on the oldest block.
LEMMA ProcessingControl ==
  ASSUME QueueInv, ControlInv, Processing
  PROVE  ControlInv'
BY ReadyControl, IssueControl, WaitBufferReadyControl, MoveControl, MovedControl,
   WaitTransferCompleteControl, ResetControl, WaitCmdInhibitControl, WaitDatInhibitControl,
   WaitResetCmdControl, WaitResetDatControl, WaitCommandCompleteControl DEF Processing

\* A look at op_status changes no phase.
LEMMA TestStatusControl ==
  ASSUME QueueInv, ControlInv, TestStatus
  PROVE  ControlInv'
<1>1. /\ UNCHANGED <<op, op_used, op_free, tc, ctl, aborts>>
      /\ at \in Outside /\ at' \in Outside
  BY DEF TestStatus, queue, Outside
<1>2. Queued' = Queued /\ Phase' = Phase
  BY <1>1 DEF Queued, OpsUsed, Phase
<1> QED
  BY <1>1, <1>2 DEF ControlInv, ControlTypes, Untouched, Seen, Clean, Issuing, Underway,
     Resetting, Counts, Requested, Transferring, Waits, Idle, Outside

\* Nor does the loop's test.
LEMMA WhileControl ==
  ASSUME QueueInv, ControlInv, While
  PROVE  ControlInv'
<1>1. Queued' = Queued /\ Phase' = Phase
  BY DEF Queued, OpsUsed, While, Rest, Phase, Outside, QueueInv, QueueTypes, Contents, State
<1>2. Seen' /\ Issuing'
  BY <1>1 DEF ControlInv, Seen, Issuing, While, Rest, Waits, QueueInv, QueueTypes, Contents,
     State
<1>3. Underway'
  BY <1>1 DEF ControlInv, Underway, While, Rest, Transferring, QueueInv, QueueTypes,
     Contents, State, Phase
<1>4. Counts'
  <2>1. op_used # op_free => op_used \in Queued
    BY OldestQueued
  <2> QED
    BY <1>1, <2>1 DEF ControlInv, Counts, While, Rest, Requested
<1> QED
  BY <1>1, <1>2, <1>3, <1>4 DEF ControlInv, ControlTypes, Untouched, Clean, Resetting,
     Requested, Idle, While, Rest

\* The controller is idle when the client is answered.
LEMMA FinishControl ==
  ASSUME QueueInv, ControlInv, Finish
  PROVE  ControlInv'
<1>1. Queued' = Queued /\ Phase = at /\ Phase' = at'
  BY DEF Queued, OpsUsed, Finish, queue, Phase, Outside
<1> QED
  BY <1>1 DEF ControlInv, ControlTypes, Untouched, Seen, Clean, Issuing, Underway,
     Resetting,
     Counts, Requested, Transferring, Waits, Idle, Finish, queue

\* The next block has not got anywhere yet.
LEMMA AdvanceControl ==
  ASSUME QueueInv, ControlInv, Advance
  PROVE  ControlInv'
<1>1. /\ op_used' \in Block /\ op_free' = op_free
      /\ op_used \in Queued /\ Queued' = Queued \ {op_used} /\ Queued \subseteq Block
      /\ op_used' # op_free => op_used' \in Queued'
      /\ at = "advance" /\ at' = "while" /\ Phase = at
      /\ \A b \in Block \ {op_used} : op'[b] = op[b]
      /\ op'[op_used] = Unused
      /\ UNCHANGED <<tc, ctl, aborts>>
  BY QueuedIs, QueuedNext, RingAdvance, AfterIs DEF QueueInv, QueueTypes, Head, Advance,
     Ring, Phase, Outside
<1>2. Phase' \in {"READY", "NEVER_STARTED", "ABORT"}
  BY <1>1 DEF Phase, ControlInv, Untouched, Outside
<1>3. Clean' /\ Issuing' /\ Underway' /\ Resetting'
  BY <1>1, <1>2 DEF ControlInv, Clean, Issuing, Underway, Resetting, Requested,
     Transferring, Idle
<1>4. Counts'
  BY <1>1, <1>2, SDIOOpAssumption DEF ControlInv, Counts, Unused, Requested
<1> QED
  BY <1>1, <1>3, <1>4 DEF ControlInv, ControlTypes, Untouched, Seen, Waits

\* The foreground outside its wait.
LEMMA ForegroundStepControl ==
  ASSUME QueueInv, ControlInv, ForegroundOp \/ QueueTimeout \/ ForegroundReturns
  PROVE  ControlInv'
<1>1. UNCHANGED <<op, op_used, op_free, at, tc, ctl, aborts>>
  BY DEF ForegroundOp, QueueTimeout, ForegroundReturns, queue, poller
<1>2. Queued' = Queued /\ Phase' = Phase
  BY <1>1 DEF Queued, OpsUsed, Phase
<1> QED
  BY <1>1, <1>2 DEF ControlInv, ControlTypes, Untouched, Seen, Clean, Issuing, Underway,
     Resetting, Counts, Idle

\* Nothing happens.
LEMMA StillControl ==
  ASSUME QueueInv, ControlInv, UNCHANGED vars
  PROVE  ControlInv'
<1>1. UNCHANGED <<op, op_used, op_free, at, tc, ctl, aborts>>
  BY DEF vars, queue, poller
<1>2. Queued' = Queued /\ Phase' = Phase
  BY <1>1 DEF Queued, OpsUsed, Phase
<1> QED
  BY <1>1, <1>2 DEF ControlInv, ControlTypes, Untouched, Seen, Clean, Issuing, Underway,
     Resetting, Counts, Idle

\* An abort takes the oldest operation to reset, or keeps it from starting.
LEMMA AbortControl ==
  ASSUME QueueInv, ControlInv, NEW bs \in SUBSET Queued, op_abort(bs),
         UNCHANGED <<op_used, op_free, tc, ctl>>, aborts' \in 0 .. MaxAborts,
         at' = at \/ (at = "enter" /\ at' = "while")
  PROVE  ControlInv'
<1>1. Queued' = Queued /\ Queued \subseteq Block
  BY QueuedIs DEF Queued, OpsUsed, Ring, QueueInv, QueueTypes
<1>2. \A b \in Block :
        /\ op'[b].kind = op[b].kind /\ op'[b].block_count = op[b].block_count
        /\ \/ op'[b].state = op[b].state
           \/ b \in bs /\ op'[b].state = set_abort_state(op[b].state)
  <2> TAKE b \in Block
  <2>1. op[b] \in Contents
    BY DEF QueueInv, QueueTypes
  <2>2. CASE b \in bs
    BY <2>1, <2>2 DEF op_abort, Contents
  <2>3. CASE b \notin bs
    <3>1. op'[b] = op[b]
      BY <2>3 DEF op_abort
    <3> QED
      BY <3>1
  <2> QED
    BY <2>2, <2>3
<1>3. \/ Phase' = Phase
      \/ Phase' = "ABORT" /\ Phase # "READY"
      \/ Phase' = "NEVER_STARTED" /\ Phase = "READY"
  BY <1>1, <1>2 DEF Phase, Outside, set_abort_state, QueueInv, QueueTypes
<1>4. Untouched' /\ Seen'
  BY <1>1, <1>2 DEF ControlInv, Untouched, Seen, set_abort_state, Waits, QueueInv,
     QueueTypes
<1>5. Clean' /\ Issuing'
  BY <1>2, <1>3 DEF ControlInv, Clean, Issuing, Idle, Requested, QueueInv, QueueTypes
<1>6. Underway' /\ Resetting'
  BY <1>2, <1>3 DEF ControlInv, Underway, Resetting, Transferring, QueueInv, QueueTypes
<1>7. Counts'
  BY <1>1, <1>2, <1>3 DEF ControlInv, Counts, Requested, set_abort_state, QueueInv,
     QueueTypes
<1> QED
  BY <1>4, <1>5, <1>6, <1>7 DEF ControlInv, ControlTypes

\* All three ways to abort.
LEMMA AbortStepControl ==
  ASSUME QueueInv, ControlInv,
         AbortAll \/ ForegroundTimeout \/ \E b \in Block : AbortOp(b)
  PROVE  ControlInv'
<1>1. CASE AbortAll
  <2>1. aborts' \in 0 .. MaxAborts
    BY <1>1, SDIOOpAssumption DEF AbortAll, HandlerAborts, ControlInv, ControlTypes
  <2> QED
    BY <1>1, <2>1, AbortControl DEF AbortAll, HandlerAborts, poller
<1>2. ASSUME NEW b \in Block, AbortOp(b) PROVE ControlInv'
  <2>1. aborts' \in 0 .. MaxAborts
    BY <1>2, SDIOOpAssumption DEF AbortOp, HandlerAborts, ControlInv, ControlTypes
  <2>2. {b} \in SUBSET Queued /\ op_abort({b})
    BY <1>2 DEF AbortOp, HandlerAborts
  <2> QED
    BY <1>2, <2>1, <2>2, AbortControl DEF AbortOp, HandlerAborts, poller
<1>3. CASE ForegroundTimeout
  <2>1. {fgop} \in SUBSET Queued
    BY <1>3 DEF ForegroundTimeout, QueueInv, Caller
  <2> QED
    BY <1>3, <2>1, AbortControl DEF ForegroundTimeout, ControlInv, ControlTypes
<1> QED
  BY <1>1, <1>2, <1>3

\* What joins is ready, and does not change what op_poll works on.
LEMMA EnqueueControl ==
  ASSUME QueueInv, ControlInv, NEW needed \in 1 .. 2, NEW callback \in {"fg", "bg"},
         NEW kinds \in SUBSET {"none", "busy", "write", "read"},
         NEW r \in Requests(kinds, callback), Enqueue(needed, r),
         UNCHANGED <<at, tc, ctl, aborts>>
  PROVE  ControlInv'
<1>1. /\ Queued \subseteq Block /\ Queued \subseteq Queued' /\ Queued' \subseteq Block
      /\ \A q \in Queued : op'[q] = op[q]
      /\ \A q \in Block \ Queued : op'[q] \in {op[q], r, CMD55}
      /\ \A q \in Queued' \ Queued : op'[q] \in {r, CMD55}
      /\ op_used \in Block /\ op_used' = op_used /\ op_free' \in Block
      /\ at \notin Outside => op_used # op_free
  BY EnqueueKeeps, QueuedNext DEF QueueInv, QueueTypes, Head, Enqueue, Ring
<1>2. /\ r.state = "READY" /\ r.block_count \in 0 .. MaxBlocks
      /\ r.kind \in Data => r.block_count > 0
  BY SDIOOpAssumption DEF Requests, Request, Data
<1>3. op_used # op_free => op_used \in Queued
  BY OldestQueued
<1>4. Phase' = Phase
  <2>1. CASE op_used # op_free
    <3>1. op_used # op_free'
      BY <1>1, <1>3, <2>1, QueuedNext DEF Ring, Block
    <3> QED
      BY <1>1, <1>3, <2>1, <3>1 DEF Phase
  <2>2. CASE op_used = op_free
    <3>1. Queued = {}
      BY <1>1, <2>2, QueuedIs DEF Ring, Block
    <3>2. op_used' # op_free' => op_used' \in Queued'
      BY <1>1, QueuedNext, RingAdvance
    <3> QED
      BY <1>1, <1>2, <2>2, <3>1, <3>2 DEF Phase, CMD55
  <2> QED
    BY <2>1, <2>2
<1>5. Untouched' /\ Seen'
  BY <1>1, <1>2, <1>3 DEF ControlInv, Untouched, Seen, CMD55, Waits
<1>6. Clean' /\ Resetting'
  BY <1>4 DEF ControlInv, Clean, Resetting, Idle
<1>7. Phase \in Transferring \cup {"WAIT_COMMAND_COMPLETE", "issue", "move"} =>
        op_used \in Queued
  BY <1>1, <1>3 DEF Phase, Transferring
<1>8. Issuing' /\ Underway'
  BY <1>1, <1>3, <1>4, <1>7 DEF ControlInv, Issuing, Underway, Transferring, Phase
<1>9. Counts'
  <2>1. \A b \in Block : op'[b].block_count \in 0 .. MaxBlocks
    BY <1>1, <1>2, SDIOOpAssumption DEF ControlInv, Counts, CMD55
  <2>2. \A b \in Queued' :
          op'[b].kind \in Data /\ op'[b].state \in Requested => op'[b].block_count > 0
    BY <1>1, <1>2 DEF ControlInv, Counts, CMD55, Data
  <2> QED
    BY <1>1, <1>3, <1>4, <1>7, <2>1, <2>2 DEF ControlInv, Counts, Transferring, Requested
<1> QED
  BY <1>5, <1>6, <1>8, <1>9 DEF ControlInv, ControlTypes

\* Both ways to queue.
LEMMA QueueingControl ==
  ASSUME QueueInv, ControlInv, BackgroundOp \/ ForegroundQueues
  PROVE  ControlInv'
<1>1. CASE BackgroundOp
  BY <1>1, EnqueueControl, SDIOOpAssumption DEF BackgroundOp, poller
<1>2. CASE ForegroundQueues
  BY <1>2, EnqueueControl, SDIOOpAssumption DEF ForegroundQueues, poller
<1> QED
  BY <1>1, <1>2

\* What the controller does fits the phase.
LEMMA ControllerControl ==
  ASSUME QueueInv, ControlInv, ControllerStep
  PROVE  ControlInv'
<1>1. UNCHANGED <<op, op_used, op_free, at, tc, aborts>>
  BY DEF ControllerStep, CommandComplete, BufferReady, TransferComplete, BusyEnds, Fails,
     ResetComplete, Controls, queue, poller
<1>2. Queued' = Queued /\ Phase' = Phase
  BY <1>1 DEF Queued, OpsUsed, Phase
<1> USE DEF ControlInv, ControlTypes, Controller, Controls
<1> DEFINE Parts ==
      ctl' \in Controller /\ Clean' /\ Issuing' /\ Underway' /\ Resetting' /\ Counts'
<1>3. ASSUME CommandComplete PROVE Parts
  <2>1. ctl' \in Controller
    BY <1>3, SDIOOpAssumption DEF CommandComplete
  <2>2. Clean' /\ Issuing'
    BY <1>1, <1>2, <1>3 DEF CommandComplete, Clean, Issuing, Idle, Phase
  <2>3. Underway' /\ Resetting'
    BY <1>1, <1>2, <1>3 DEF CommandComplete, Underway, Resetting, Transferring
  <2>4. Counts'
    BY <1>1, <1>2, <1>3, SDIOOpAssumption DEF CommandComplete, Counts, Resetting
  <2> QED
    BY <2>1, <2>2, <2>3, <2>4
<1>4. ASSUME BufferReady PROVE Parts
  <2>1. ctl' \in Controller
    BY <1>4, SDIOOpAssumption DEF BufferReady
  <2>2. Clean' /\ Issuing'
    BY <1>1, <1>2, <1>4 DEF BufferReady, Clean, Issuing, Idle, Phase
  <2>3. Underway' /\ Resetting'
    BY <1>1, <1>2, <1>4 DEF BufferReady, Underway, Resetting, Transferring
  <2>4. Counts'
    BY <1>1, <1>2, <1>4, SDIOOpAssumption DEF BufferReady, Counts, Resetting
  <2> QED
    BY <2>1, <2>2, <2>3, <2>4
<1>5. ASSUME TransferComplete PROVE Parts
  <2>1. ctl' \in Controller
    BY <1>5, SDIOOpAssumption DEF TransferComplete
  <2>2. Clean' /\ Issuing'
    BY <1>1, <1>2, <1>5 DEF TransferComplete, Clean, Issuing, Idle, Phase
  <2>3. Underway' /\ Resetting'
    BY <1>1, <1>2, <1>5 DEF TransferComplete, Underway, Resetting, Transferring
  <2>4. Counts'
    BY <1>1, <1>2, <1>5, SDIOOpAssumption DEF TransferComplete, Counts, Resetting
  <2> QED
    BY <2>1, <2>2, <2>3, <2>4
<1>6. ASSUME BusyEnds PROVE Parts
  <2>1. ctl' \in Controller
    BY <1>6, SDIOOpAssumption DEF BusyEnds
  <2>2. Clean' /\ Issuing'
    BY <1>1, <1>2, <1>6 DEF BusyEnds, Clean, Issuing, Idle, Phase
  <2>3. Underway' /\ Resetting'
    BY <1>1, <1>2, <1>6 DEF BusyEnds, Underway, Resetting, Transferring
  <2>4. Counts'
    BY <1>1, <1>2, <1>6, SDIOOpAssumption DEF BusyEnds, Counts, Resetting
  <2> QED
    BY <2>1, <2>2, <2>3, <2>4
<1>7. ASSUME Fails PROVE Parts
  <2>1. ctl' \in Controller
    BY <1>7, SDIOOpAssumption DEF Fails
  <2>2. Clean' /\ Issuing'
    BY <1>1, <1>2, <1>7 DEF Fails, Clean, Issuing, Idle, Phase
  <2>3. Underway' /\ Resetting'
    BY <1>1, <1>2, <1>7 DEF Fails, Underway, Resetting, Transferring
  <2>4. Counts'
    BY <1>1, <1>2, <1>7, SDIOOpAssumption DEF Fails, Counts, Resetting
  <2> QED
    BY <2>1, <2>2, <2>3, <2>4
<1>8. ASSUME ResetComplete PROVE Parts
  <2>1. ctl' \in Controller
    <3>1. CASE ctl.reset = "cmd"
      <4>1. ctl' = [ctl EXCEPT !.reset = "none", !.cmd = "idle", !.status = @ \ {"CC", "ERR"}]
        BY <1>8, <3>1 DEF ResetComplete
      <4> QED
        BY <4>1
    <3>2. CASE ctl.reset = "dat"
      <4>1. ctl' = [ctl EXCEPT !.reset = "none", !.dat = "idle", !.buf = FALSE, !.left = 0,
                               !.status = @ \ {"TC", "ERR"}]
        BY <1>8, <3>2 DEF ResetComplete
      <4>2. 0 \in 0 .. MaxBlocks
        BY SDIOOpAssumption
      <4>3. ctl.status \ {"TC", "ERR"} \in SUBSET {"CC", "TC", "ERR"}
        OBVIOUS
      <4> QED
        BY <4>1, <4>2, <4>3
    <3> QED
      BY <1>8, <3>1, <3>2 DEF ResetComplete
  <2>2. Clean' /\ Issuing'
    <3>1. Phase' \in {"ABORT", "WAIT_RESET_CMD", "WAIT_RESET_DAT"}
      BY <1>2, <1>8 DEF ResetComplete, Resetting
    <3> QED
      BY <1>1, <3>1 DEF Clean, Issuing, Requested, Phase
  <2>3. Underway' /\ Resetting'
    BY <1>1, <1>2, <1>8 DEF ResetComplete, Underway, Resetting, Transferring
  <2>4. Counts'
    BY <1>1, <1>2, <1>8, SDIOOpAssumption DEF ResetComplete, Counts, Resetting
  <2> QED
    BY <2>1, <2>2, <2>3, <2>4
<1>9. Parts
  BY <1>3, <1>4, <1>5, <1>6, <1>7, <1>8 DEF ControllerStep
<1> QED
  BY <1>1, <1>2, <1>9 DEF Untouched, Seen

\* The controller is idle at first.
LEMMA InitControlInv == Init => ControlInv
<1> SUFFICES ASSUME Init PROVE ControlInv
  OBVIOUS
<1>1. QueueInv
  BY InitQueueInv
<1>2. Queued = {} /\ Phase = "READY"
  BY <1>1, QueuedIs DEF Init, Ring, Block, Phase, QueueInv, QueueTypes
<1>3. ctl \in Controller /\ tc \in BOOLEAN /\ aborts \in 0 .. MaxAborts
  <2>1. 0 \in 0 .. MaxBlocks /\ 0 \in 0 .. MaxAborts
    BY SDIOOpAssumption
  <2> QED
    BY <2>1 DEF Init, Controller
<1>4. Counts
  BY <1>2, SDIOOpAssumption DEF Init, Counts, Unused, Requested
<1> QED
  BY <1>2, <1>3, <1>4 DEF Init, ControlInv, ControlTypes, Untouched, Seen, Clean, Issuing,
     Underway, Resetting, Waits, Idle, Transferring

\* One case for each kind of step.
LEMMA StepControl ==
  ASSUME QueueInv, ControlInv, [Next]_vars
  PROVE  ControlInv'
<1>1. CASE op_poll
  BY <1>1, WhileControl, FinishControl, AdvanceControl, ProcessingControl
  DEF op_poll, Processing
<1>2. CASE ForegroundOp \/ QueueTimeout \/ ForegroundReturns
  BY <1>2, ForegroundStepControl
<1>7. CASE TestStatus
  BY <1>7, TestStatusControl
<1>3. CASE BackgroundOp \/ ForegroundQueues
  BY <1>3, QueueingControl
<1>4. CASE AbortAll \/ ForegroundTimeout \/ \E b \in Block : AbortOp(b)
  BY <1>4, AbortStepControl
<1>5. CASE ControllerStep
  BY <1>5, ControllerControl
<1>6. CASE UNCHANGED vars
  BY <1>6, StillControl
<1> QED
  BY <1>1, <1>2, <1>3, <1>4, <1>5, <1>6, <1>7 DEF Next, ControllerStep

\* The controller does what the state of the oldest operation says.
THEOREM ControlInvHolds == Spec => []ControlInv
<1>1. QueueInv /\ ControlInv /\ [Next]_vars => ControlInv'
  BY StepControl
<1> QED
  BY <1>1, InitControlInv, QueueInvHolds, PTL DEF Spec

\* Every field stays in its range: no block is counted down past zero, no request is
\* answered more often than its history can tell, whatever the controller does.
THEOREM TypeCorrect == Spec => []TypeOK
<1>1. QueueInv /\ ControlInv => TypeOK
  <2> SUFFICES ASSUME QueueInv, ControlInv PROVE TypeOK
    OBVIOUS
  <2>1. op \in [Block -> Operation]
    BY DEF QueueInv, QueueTypes, Contents, ControlInv, Counts, Operation
  <2>2. calls \in [Block -> 0 .. 2]
    BY DEF QueueInv, QueueTypes, Counted, Given, Answers
  <2> QED
    BY <2>1, <2>2 DEF TypeOK, QueueInv, QueueTypes, ControlInv, ControlTypes
<1> QED
  BY <1>1, QueueInvHolds, ControlInvHolds, PTL

\* When op_poll moves on to the next operation, the controller is done with the last one,
\* or its reset has been given up (op.c 598-691).
THEOREM HandoverIsClean == Spec => CleanHandover
<1>1. QueueInv /\ ControlInv /\ [Next]_vars => [HandsOver]_vars
  <2> SUFFICES ASSUME QueueInv, ControlInv, Next PROVE HandsOver
    BY DEF HandsOver, vars, queue
  <2>1. CASE Advance
    BY <2>1 DEF Advance, HandsOver, ControlInv, Clean, Idle, Phase
  <2>2. CASE op_poll /\ ~Advance
    <3>1. While \/ Finish \/ Processing
      BY <2>2 DEF op_poll, Processing
    <3>2. op_used' = op_used
      BY <3>1, ProcessingProceeds DEF While, Finish, Proceeds, Rest, queue
    <3> QED
      BY <3>2 DEF HandsOver
  <2>3. CASE ~op_poll
    <3>1. op_used' = op_used
      BY <2>3 DEF Next, ForegroundOp, ForegroundQueues, QueueTimeout, TestStatus,
         ForegroundTimeout, ForegroundReturns, BackgroundOp, AbortAll, AbortOp,
         HandlerAborts, Enqueue, CommandComplete,
         BufferReady, TransferComplete, BusyEnds, Fails, ResetComplete, Controls, queue
    <3> QED
      BY <3>1 DEF HandsOver
  <2> QED
    BY <2>1, <2>2, <2>3
<1> QED
  BY <1>1, QueueInvHolds, ControlInvHolds, PTL DEF Spec, CleanHandover
===============================================================================
