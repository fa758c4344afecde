------------------------ MODULE PersistStageProofs ------------------------
(***************************************************************************)
(* Proofs about a supervised stage, and about the persist stage under      *)
(* supervision.                                                            *)
(*                                                                         *)
(* First StageSupervisor, for every budget, every pipeline deadline and    *)
(* any number of events.  Then the composition: every behaviour of it is   *)
(* one of StageSupervisor and, with the stage token in the place of the    *)
(* flag, one of ReportPersist.  What is proved of either holds of the      *)
(* composition, and the report about the row is true for every budget,     *)
(* deadline, number of retries and behaviour of a failed RELEASE.          *)
(***************************************************************************)
EXTENDS PersistStage, SequenceTheorems, TLAPS

-----------------------------------------------------------------------------
(* The channel: a run of consecutively numbered events, then at most one   *)
(* Finished message.                                                       *)

Message == [kind : {"Event", "Finished"}, n : Nat, result : Results \union {None}]

Closed(c) == c # <<>> /\ c[Len(c)].kind = "Finished"
Pending(c) == IF Closed(c) THEN Len(c) - 1 ELSE Len(c)
Numbered(c, f) == \A k \in 1 .. Pending(c) : c[k] = Event(f + k)
ResultsIn(c, S) == \A k \in 1 .. Len(c) : c[k].result \in S

\* The fields of an event.
LEMMA EventFields ==
    \A n : Event(n).kind = "Event" /\ Event(n).n = n /\ Event(n).result = None
  BY DEF Event

\* Publishing continues the numbering.
LEMMA AppendEvent ==
    ASSUME NEW c \in Seq(Message), NEW f \in Nat, ~Closed(c), Numbered(c, f)
    PROVE  LET d == Append(c, Event(f + Len(c) + 1)) IN
           /\ d \in Seq(Message)
           /\ ~Closed(d)
           /\ Pending(d) = Pending(c) + 1
           /\ Numbered(d, f)
  <1> DEFINE e == Event(f + Len(c) + 1)
             d == Append(c, e)
  <1>1. e \in Message /\ e.kind = "Event" /\ e.n = f + Len(c) + 1
    BY DEF Event, Message
  <1>2. Pending(c) = Len(c)
    BY DEF Pending
  <1> HIDE DEF e
  <1>3. /\ d \in Seq(Message)
        /\ Len(d) = Len(c) + 1
        /\ d # <<>>
        /\ d[Len(c) + 1] = e
        /\ \A k \in 1 .. Len(c) : d[k] = c[k]
    BY <1>1
  <1>4. ~Closed(d)
    BY <1>1, <1>3 DEF Closed
  <1>5. Pending(d) = Len(c) + 1
    BY <1>3, <1>4 DEF Pending
  <1>6. Numbered(d, f)
    BY <1>2, <1>3, <1>5 DEF Numbered, e
  <1> QED BY <1>2, <1>3, <1>4, <1>5, <1>6 DEF e

\* The result closes the channel and leaves the events as they are.
LEMMA AppendFinished ==
    ASSUME NEW c \in Seq(Message), NEW f \in Nat, NEW r \in Results,
           ~Closed(c), Numbered(c, f)
    PROVE  LET d == Append(c, Finished(r)) IN
           /\ d \in Seq(Message)
           /\ Closed(d)
           /\ Pending(d) = Pending(c)
           /\ Numbered(d, f)
  <1> DEFINE e == Finished(r)
             d == Append(c, e)
  <1>1. e \in Message /\ e.kind = "Finished"
    BY DEF Finished, Message
  <1> HIDE DEF e
  <1>2. /\ d \in Seq(Message)
        /\ Len(d) = Len(c) + 1
        /\ d # <<>>
        /\ d[Len(c) + 1] = e
        /\ \A k \in 1 .. Len(c) : d[k] = c[k]
    BY <1>1
  <1>3. Closed(d)
    BY <1>1, <1>2 DEF Closed
  <1>4. Pending(d) = Len(c) /\ Pending(c) = Len(c)
    BY <1>2, <1>3 DEF Pending
  <1>5. Numbered(d, f)
    BY <1>2, <1>4 DEF Numbered
  <1> QED BY <1>2, <1>3, <1>4, <1>5 DEF e

\* Taking an event takes the next number.
LEMMA TakeEvent ==
    ASSUME NEW c \in Seq(Message), NEW f \in Nat, Numbered(c, f),
           c # <<>>, Head(c).kind = "Event"
    PROVE  /\ Head(c).n = f + 1
           /\ Tail(c) \in Seq(Message)
           /\ Closed(Tail(c)) <=> Closed(c)
           /\ Pending(Tail(c)) = Pending(c) - 1
           /\ Numbered(Tail(c), f + 1)
  <1> DEFINE d == Tail(c)
  <1>1. /\ Len(c) \in Nat /\ Len(c) >= 1
        /\ Head(c) = c[1]
        /\ d \in Seq(Message)
        /\ Len(d) = Len(c) - 1
        /\ \A k \in 1 .. Len(d) : d[k] = c[k + 1]
        /\ d = <<>> <=> Len(d) = 0
    <2>1. Len(c) \in Nat /\ Len(c) >= 1 /\ Head(c) = c[1]
      BY EmptySeq
    <2>2. /\ d \in Seq(Message)
          /\ Len(d) = Len(c) - 1
          /\ \A k \in 1 .. Len(d) : d[k] = c[k + 1]
      BY HeadTailProperties
    <2>3. d = <<>> <=> Len(d) = 0
      BY <2>2, EmptySeq
    <2> QED BY <2>1, <2>2, <2>3
  <1> HIDE DEF d
  <1>2. Closed(c) => Len(c) >= 2
    BY <1>1 DEF Closed
  <1>3. Pending(c) \in Nat /\ Pending(c) >= 1
    BY <1>1, <1>2 DEF Pending
  <1>4. Head(c).n = f + 1
    <2>1. c[1] = Event(f + 1)
      BY <1>3 DEF Numbered
    <2> QED BY <1>1, <2>1, EventFields
  <1>5. Closed(d) <=> Closed(c)
    <2>1. CASE Len(c) = 1
      BY <1>1, <1>2, <2>1 DEF Closed
    <2>2. CASE Len(c) >= 2
      <3>1. Len(d) \in 1 .. Len(d) /\ d[Len(d)] = c[Len(c)] /\ d # <<>>
        BY <1>1, <2>2
      <3> QED BY <3>1 DEF Closed
    <2> QED BY <1>1, <2>1, <2>2
  <1>6. Pending(d) = Pending(c) - 1
    BY <1>1, <1>5 DEF Pending
  <1>7. Numbered(d, f + 1)
    <2> SUFFICES ASSUME NEW k \in 1 .. Pending(d)
                 PROVE  d[k] = Event(f + 1 + k)
      BY DEF Numbered
    <2>1. k + 1 \in 1 .. Pending(c) /\ k \in 1 .. Len(d)
      BY <1>1, <1>3, <1>5, <1>6 DEF Pending
    <2>2. f + (k + 1) = f + 1 + k
      OBVIOUS
    <2> QED BY <1>1, <2>1, <2>2 DEF Numbered
  <1> QED BY <1>1, <1>4, <1>5, <1>6, <1>7 DEF d

\* A Finished message at the head is the only message.
LEMMA TakeFinished ==
    ASSUME NEW c \in Seq(Message), NEW f \in Nat, Numbered(c, f),
           c # <<>>, Head(c).kind = "Finished"
    PROVE  /\ Tail(c) = <<>>
           /\ Pending(c) = 0
           /\ Closed(c)
  <1>1. Len(c) \in Nat /\ Len(c) >= 1 /\ Head(c) = c[1] /\ c[1].kind # "Event"
    BY EmptySeq
  <1>2. Pending(c) = 0
    <2>1. Pending(c) \in Nat
      BY <1>1 DEF Pending
    <2>2. 1 \notin 1 .. Pending(c)
      BY <1>1, EventFields DEF Numbered
    <2> QED BY <2>1, <2>2
  <1>3. Len(c) = 1 /\ Closed(c)
    BY <1>1, <1>2 DEF Pending
  <1>4. Tail(c) = <<>>
    <2>1. Tail(c) \in Seq(Message) /\ Len(Tail(c)) = 0
      BY <1>3, HeadTailProperties
    <2> QED BY <2>1, EmptySeq
  <1> QED BY <1>2, <1>3, <1>4

\* The empty channel.
LEMMA EmptyChannel ==
    /\ <<>> \in Seq(Message)
    /\ ~Closed(<<>>)
    /\ Pending(<<>>) = 0
    /\ \A f \in Nat : Numbered(<<>>, f)
    /\ \A S : ResultsIn(<<>>, S)
  BY DEF Closed, Pending, Numbered, ResultsIn

\* Sending and receiving, as far as the results that are in transit go.
LEMMA TransitResults ==
    ASSUME NEW c \in Seq(Message), NEW S, ResultsIn(c, S)
    PROVE  /\ \A r \in S : ResultsIn(Append(c, Finished(r)), S)
           /\ \A n \in Nat : None \in S => ResultsIn(Append(c, Event(n)), S)
           /\ c # <<>> => Head(c).result \in S /\ ResultsIn(Tail(c), S)
  <1>1. ASSUME NEW e, e.result \in S PROVE ResultsIn(Append(c, e), S)
    <2>1. /\ Len(Append(c, e)) = Len(c) + 1
          /\ Append(c, e)[Len(c) + 1] = e
          /\ \A k \in 1 .. Len(c) : Append(c, e)[k] = c[k]
      OBVIOUS
    <2> QED BY <1>1, <2>1 DEF ResultsIn
  <1>2. ASSUME c # <<>> PROVE Head(c).result \in S /\ ResultsIn(Tail(c), S)
    <2>1. /\ Len(c) >= 1 /\ Head(c) = c[1]
          /\ Len(Tail(c)) = Len(c) - 1
          /\ \A k \in 1 .. Len(Tail(c)) : Tail(c)[k] = c[k + 1]
      BY <1>2
    <2> QED BY <2>1 DEF ResultsIn
  <1>3. \A r : Finished(r).result = r
    BY DEF Finished
  <1>4. \A n : Event(n).result = None
    BY DEF Event
  <1> QED BY <1>1, <1>2, <1>3, <1>4

-----------------------------------------------------------------------------
(* The inductive invariant.                                                *)

\* Which thread is where, and what exists by then.
Control ==
    /\ sup \in {"token", "timeout", "spawn"} =>
          worker = "none" /\ chan = <<>> /\ published = 0 /\ forwarded = <<>>
    /\ sup \in {"arm", "recv", "join_result", "join_timeout", "drain"} => worker # "none"
    /\ sup = "join_result" => worker \in {"sent", "exited", "panicked"} /\ chan = <<>>
    /\ sup = "drain" => WorkerGone
    /\ sup = "returned" => worker \in {"none", "exited", "panicked"} /\ chan = <<>>
    /\ sup \notin {"join_result", "returned"} => result = None
    /\ sup \notin {"join_timeout", "drain", "returned"} => timeoutError = None
    /\ Closed(chan) => worker \in {"sent", "exited", "panicked"}

\* What is forwarded and what is in transit are the published events, in order.
Queue ==
    /\ Numbered(chan, Len(forwarded))
    /\ Len(forwarded) + Pending(chan) = published
    /\ \A i \in 1 .. Len(forwarded) : forwarded[i] = i

\* The supervisor's deadline is never earlier than the token's.
Deadlines ==
    /\ sup # "token" =>
          /\ stageDeadline \in Nat /\ stageDeadline <= now + budget
          /\ token.deadline \in Nat /\ token.deadline <= stageDeadline
          /\ token.failure \in {"PipelineDeadline", "StageTimeout"}
          /\ mode = "token" => token = named_stage_token(pipelineDeadline, stageDeadline)
    /\ sup \in {"spawn", "arm"} => token.deadline <= now + timeout
    /\ sup \in {"recv", "join_timeout"} =>
          recvDeadline \in Nat /\ token.deadline <= recvDeadline
    /\ sup = "join_timeout" => recvDeadline <= now

\* The results that name a deadline name the token's.
Nameable == (Results \union {None}) \ ({"StageTimeout", "PipelineDeadline"} \ {token.failure})
Names ==
    mode = "token" /\ stop = {} =>
        result \in Nameable /\ timeoutError \in Nameable /\ ResultsIn(chan, Nameable)

IInv == TypeOK /\ Control /\ Queue /\ Deadlines /\ Names

LEMMA InitInv == Init => IInv
  <1> SUFFICES ASSUME Init PROVE IInv
    OBVIOUS
  <1>1. TypeOK
    BY ModesAssumption, TimeAssumption DEF Init, TypeOK
  <1>2. Control
    BY EmptyChannel DEF Init, Control
  <1>3. Queue
    BY EmptyChannel DEF Init, Queue
  <1>4. Deadlines
    BY DEF Init, Deadlines
  <1>5. Names
    BY EmptyChannel DEF Init, Names, Nameable, None
  <1> QED BY <1>1, <1>2, <1>3, <1>4, <1>5 DEF IInv

\* The error of a failed checkpoint, once the stage has its token.
LEMMA ExpirationError ==
    ASSUME IInv, sup # "token"
    PROVE  /\ expiration_error(token) \in
                 {"CtrlC", "CancelledByCaller", "PipelineDeadline", "StageTimeout"}
           /\ stop = {} => expiration_error(token) = token.failure
           /\ stop # {} => expiration_error(token) \in {"CtrlC", "CancelledByCaller"}
  BY DEF IInv, TypeOK, Deadlines, expiration_error

\* What a worker sends as its result.
Outcome(r) ==
    /\ r \in Results
    /\ \/ r \in OperationErrors
       \/ r = expiration_error(token)
       \/ r = "Ok" /\ (mode = "budget" \/ ~Tripped(token))

WorkerSilent ==
    /\ \/ worker = "running" /\ worker' \in {"fence", "panicked"}
       \/ worker = "sent" /\ worker' \in {"exited", "panicked"}
    /\ chan' = chan
    /\ published' = published
WorkerPublishes ==
    /\ worker = "running" /\ worker' = "running"
    /\ chan' = Append(chan, Event(published + 1))
    /\ published' = published + 1
WorkerSends ==
    /\ worker \in {"running", "fence"} /\ worker' = "sent"
    /\ \E r : Outcome(r) /\ chan' = Append(chan, Finished(r))
    /\ published' = published

\* A worker step publishes an event, sends the result or moves on silently.
LEMMA WorkerSteps ==
    ASSUME IInv, Worker
    PROVE  /\ UNCHANGED <<now, mode, budget, pipelineDeadline, stop, stageDeadline, token,
                          timeout, sup, recvDeadline, timeoutError, forwarded, result>>
           /\ sup # "token"
           /\ worker # "none"
           /\ WorkerSilent \/ WorkerPublishes \/ WorkerSends
  <1>0. UNCHANGED <<now, mode, budget, pipelineDeadline, stop, stageDeadline, token,
                    timeout, sup, recvDeadline, timeoutError, forwarded, result>>
    BY DEF Worker, Publish, OperationCancelled, OperationFails, OperationSucceeds, Fence,
           OperationPanics, WorkerExits, WorkerUnchanged, config, supVars
  <1>1. worker # "none" /\ sup # "token"
    BY DEF Worker, Publish, OperationCancelled, OperationFails, OperationSucceeds, Fence,
           OperationPanics, WorkerExits, IInv, Control
  <1>2. expiration_error(token) \in Results
    BY <1>1, ExpirationError DEF Results, Errors, CancelledErrors
  <1>3. WorkerSilent \/ WorkerPublishes \/ WorkerSends
    <2>1. CASE Publish
      BY <2>1 DEF Publish, Send, WorkerPublishes
    <2>2. CASE OperationCancelled
      BY <1>2, <2>2 DEF OperationCancelled, Send, WorkerSends, Outcome
    <2>3. CASE OperationFails
      BY <2>3 DEF OperationFails, Send, WorkerSends, Outcome, Results, Errors
    <2>4. CASE OperationSucceeds
      BY <2>4 DEF OperationSucceeds, Send, WorkerSends, WorkerSilent, Outcome, Results
    <2>5. CASE Fence
      <3>1. CASE Tripped(token)
        BY <1>2, <2>5, <3>1 DEF Fence, Send, WorkerSends, Outcome
      <3>2. CASE ~Tripped(token)
        BY <2>5, <3>2 DEF Fence, Send, WorkerSends, Outcome, Results
      <3> QED BY <3>1, <3>2
    <2>6. CASE OperationPanics
      BY <2>6 DEF OperationPanics, WorkerSilent
    <2>7. CASE WorkerExits
      BY <2>7 DEF WorkerExits, WorkerSilent
    <2> QED BY <2>1, <2>2, <2>3, <2>4, <2>5, <2>6, <2>7 DEF Worker
  <1> QED BY <1>0, <1>1, <1>3

\* The worker's part of the invariant.
LEMMA WorkerInv == IInv /\ Worker => IInv'
  <1> SUFFICES ASSUME IInv, Worker PROVE IInv'
    OBVIOUS
  <1>0. /\ UNCHANGED <<now, mode, budget, pipelineDeadline, stop, stageDeadline, token,
                       timeout, sup, recvDeadline, timeoutError, forwarded, result>>
        /\ sup # "token"
        /\ worker # "none"
    BY WorkerSteps
  <1>1. chan \in Seq(Message) /\ Len(forwarded) \in Nat /\ published \in Nat
    BY DEF IInv, TypeOK, Message
  <1>2. Deadlines'
    BY <1>0 DEF IInv, Deadlines
  <1>3. Nameable' = Nameable
    BY <1>0 DEF Nameable
  <1>4. CASE WorkerSilent
    <2>1. TypeOK'
      BY <1>0, <1>4 DEF IInv, TypeOK, WorkerSilent
    <2>2. Control'
      BY <1>0, <1>4 DEF IInv, TypeOK, Control, WorkerSilent, WorkerGone
    <2>3. Queue'
      BY <1>0, <1>4 DEF IInv, Queue, WorkerSilent
    <2>4. Names'
      BY <1>0, <1>3, <1>4 DEF IInv, Names, WorkerSilent
    <2> QED BY <1>2, <2>1, <2>2, <2>3, <2>4 DEF IInv
  <1>5. CASE WorkerPublishes
    <2>1. ~Closed(chan) /\ Pending(chan) = Len(chan)
      BY <1>5 DEF WorkerPublishes, IInv, Control, Pending
    <2>2. published = Len(forwarded) + Len(chan) /\ Numbered(chan, Len(forwarded))
      BY <2>1 DEF IInv, Queue
    <2>3. /\ chan' \in Seq(Message)
          /\ ~Closed(chan')
          /\ Pending(chan') = Pending(chan) + 1
          /\ Numbered(chan', Len(forwarded))
      BY <1>1, <1>5, <2>1, <2>2, AppendEvent DEF WorkerPublishes
    <2>4. TypeOK'
      BY <1>0, <1>5, <2>3 DEF IInv, TypeOK, WorkerPublishes, Message
    <2>5. Control'
      BY <1>0, <1>5, <2>3 DEF IInv, Control, WorkerPublishes, WorkerGone
    <2>6. Queue'
      BY <1>0, <1>1, <1>5, <2>1, <2>2, <2>3 DEF IInv, Queue, WorkerPublishes
    <2>7. Names'
      <3>1. None \in Nameable
        BY DEF Nameable, None
      <3> QED
        BY <1>0, <1>1, <1>3, <1>5, <3>1, TransitResults DEF IInv, Names, WorkerPublishes
    <2> QED BY <1>2, <2>4, <2>5, <2>6, <2>7 DEF IInv
  <1>6. CASE WorkerSends
    <2>1. PICK r : Outcome(r) /\ chan' = Append(chan, Finished(r))
      BY <1>6 DEF WorkerSends
    <2>2. ~Closed(chan) /\ Numbered(chan, Len(forwarded)) /\ r \in Results
      BY <1>6, <2>1 DEF WorkerSends, IInv, Control, Queue, Outcome
    <2>3. /\ chan' \in Seq(Message)
          /\ Closed(chan')
          /\ Pending(chan') = Pending(chan)
          /\ Numbered(chan', Len(forwarded))
      BY <1>1, <2>1, <2>2, AppendFinished
    <2>4. TypeOK'
      BY <1>0, <1>6, <2>3 DEF IInv, TypeOK, WorkerSends, Message
    <2>5. Control'
      BY <1>0, <1>6, <2>3 DEF IInv, Control, WorkerSends, WorkerGone
    <2>6. Queue'
      BY <1>0, <1>6, <2>3 DEF IInv, Queue, WorkerSends
    <2>7. Names'
      <3> SUFFICES ASSUME mode = "token", stop = {} PROVE Names'
        BY <1>0 DEF Names
      <3>1. r \in OperationErrors \/ r = token.failure \/ r = "Ok"
        BY <1>0, <2>1, ExpirationError DEF Outcome
      <3>2. r \in Nameable
        BY <2>2, <3>1 DEF Nameable, OperationErrors
      <3>3. ResultsIn(chan', Nameable)
        BY <1>1, <2>1, <3>2, TransitResults DEF IInv, Names
      <3> QED BY <1>0, <1>3, <3>3 DEF IInv, Names
    <2> QED BY <1>2, <2>4, <2>5, <2>6, <2>7 DEF IInv
  <1> QED BY <1>4, <1>5, <1>6, WorkerSteps

\* Setting up: the token, the time-out, the spawn and the receive deadline.
LEMMA SetupInv ==
    IInv /\ (MakeToken \/ ComputeTimeout \/ Spawn \/ SpawnFails \/ Arm) => IInv'
  <1> SUFFICES ASSUME IInv, MakeToken \/ ComputeTimeout \/ Spawn \/ SpawnFails \/ Arm
               PROVE  IInv'
    OBVIOUS
  <1>1. CASE MakeToken
    <2>1. /\ stageDeadline' = now + budget /\ stageDeadline' \in Nat
          /\ pipelineDeadline \in Nat \union {NoDeadline} /\ NoDeadline \notin Nat
      BY <1>1, TimeAssumption DEF MakeToken, IInv, TypeOK
    <2>2. /\ token' \in [deadline : Nat, failure : {"PipelineDeadline", "StageTimeout"}]
          /\ token'.deadline <= stageDeadline'
          /\ mode = "token" => token' = named_stage_token(pipelineDeadline, stageDeadline')
      BY <1>1, <2>1 DEF MakeToken, stage_token, named_stage_token, Before
    <2>3. TypeOK'
      BY <1>1, <2>1, <2>2 DEF MakeToken, config, IInv, TypeOK, Errors, CancelledErrors
    <2>4. Control'
      BY <1>1 DEF MakeToken, IInv, Control, WorkerGone
    <2>5. Queue'
      BY <1>1 DEF MakeToken, IInv, Queue
    <2>6. Deadlines'
      BY <1>1, <2>1, <2>2 DEF MakeToken, config, IInv, TypeOK, Deadlines
    <2>7. Names'
      <3>1. result' = None /\ timeoutError' = None /\ chan' = <<>>
        BY <1>1 DEF MakeToken, IInv, Control
      <3>2. None \in Nameable'
        BY DEF Nameable, None
      <3> QED BY <3>1, <3>2, EmptyChannel DEF Names
    <2> QED BY <2>3, <2>4, <2>5, <2>6, <2>7 DEF IInv
  <1>2. CASE ComputeTimeout
    <2>1. /\ now \in Nat /\ budget \in Nat /\ stageDeadline \in Nat /\ token.deadline \in Nat
          /\ token.deadline <= stageDeadline /\ stageDeadline <= now + budget
      BY <1>2 DEF ComputeTimeout, IInv, TypeOK, Deadlines
    <2>2. timeout' \in Nat /\ token.deadline <= now + timeout'
      BY <1>2, <2>1 DEF ComputeTimeout, remaining, budget_duration, MaxOf
    <2>3. TypeOK'
      BY <1>2, <2>2 DEF ComputeTimeout, config, IInv, TypeOK
    <2>4. Control'
      BY <1>2 DEF ComputeTimeout, IInv, Control, WorkerGone
    <2>5. Queue'
      BY <1>2 DEF ComputeTimeout, IInv, Queue
    <2>6. Deadlines'
      BY <1>2, <2>2 DEF ComputeTimeout, config, IInv, Deadlines
    <2>7. Names'
      BY <1>2 DEF ComputeTimeout, config, IInv, Names, Nameable
    <2> QED BY <2>3, <2>4, <2>5, <2>6, <2>7 DEF IInv
  <1>3. CASE Spawn
    <2>1. TypeOK'
      BY <1>3 DEF Spawn, config, IInv, TypeOK
    <2>2. Control'
      BY <1>3, EmptyChannel DEF Spawn, IInv, Control, WorkerGone
    <2>3. Queue'
      BY <1>3 DEF Spawn, IInv, Queue
    <2>4. Deadlines'
      BY <1>3 DEF Spawn, config, IInv, Deadlines
    <2>5. Names'
      BY <1>3 DEF Spawn, config, IInv, Names, Nameable
    <2> QED BY <2>1, <2>2, <2>3, <2>4, <2>5 DEF IInv
  <1>4. CASE SpawnFails
    <2>1. TypeOK'
      BY <1>4 DEF SpawnFails, config, IInv, TypeOK, Results, Errors
    <2>2. Control'
      BY <1>4 DEF SpawnFails, IInv, Control, WorkerGone
    <2>3. Queue'
      BY <1>4 DEF SpawnFails, IInv, Queue
    <2>4. Deadlines'
      BY <1>4 DEF SpawnFails, config, IInv, Deadlines
    <2>5. Names'
      BY <1>4 DEF SpawnFails, config, IInv, Names, Nameable, Results, Errors
    <2> QED BY <2>1, <2>2, <2>3, <2>4, <2>5 DEF IInv
  <1>5. CASE Arm
    <2>1. recvDeadline' \in Nat /\ token.deadline <= recvDeadline'
      BY <1>5 DEF Arm, IInv, TypeOK, Deadlines
    <2>2. TypeOK'
      BY <1>5, <2>1 DEF Arm, config, IInv, TypeOK
    <2>3. Control'
      BY <1>5 DEF Arm, IInv, Control, WorkerGone
    <2>4. Queue'
      BY <1>5 DEF Arm, IInv, Queue
    <2>5. Deadlines'
      BY <1>5, <2>1 DEF Arm, config, IInv, Deadlines
    <2>6. Names'
      BY <1>5 DEF Arm, config, IInv, Names, Nameable
    <2> QED BY <2>2, <2>3, <2>4, <2>5, <2>6 DEF IInv
  <1> QED BY <1>1, <1>2, <1>3, <1>4, <1>5

\* An event is taken from the channel and handed to on_event.
LEMMA ForwardInv ==
    ASSUME IInv, chan # <<>>, Head(chan).kind = "Event",
           sup \in {"recv", "drain"},
           forwarded' = Append(forwarded, Head(chan).n), chan' = Tail(chan),
           UNCHANGED <<now, config, stop, stageDeadline, token, sup, timeout, recvDeadline,
                       timeoutError, result, worker, published>>
    PROVE  IInv'
  <1>1. /\ chan \in Seq(Message) /\ forwarded \in Seq(Nat) /\ Len(forwarded) \in Nat
        /\ Numbered(chan, Len(forwarded))
    BY DEF IInv, TypeOK, Message, Queue
  <1>2. /\ Head(chan).n = Len(forwarded) + 1
        /\ chan' \in Seq(Message)
        /\ Closed(chan') <=> Closed(chan)
        /\ Pending(chan') = Pending(chan) - 1
        /\ Numbered(chan', Len(forwarded) + 1)
    BY <1>1, TakeEvent
  <1>3. /\ forwarded' \in Seq(Nat)
        /\ Len(forwarded') = Len(forwarded) + 1
        /\ forwarded'[Len(forwarded) + 1] = Len(forwarded) + 1
        /\ \A i \in 1 .. Len(forwarded) : forwarded'[i] = forwarded[i]
    BY <1>1, <1>2, AppendProperties
  <1>4. TypeOK'
    BY <1>2, <1>3 DEF config, IInv, TypeOK, Message
  <1>5. Control'
    BY <1>2 DEF IInv, Control, WorkerGone
  <1>6. Queue'
    <2>1. Pending(chan) \in Int
      BY <1>1, EmptySeq DEF Pending
    <2> QED BY <1>1, <1>2, <1>3, <2>1 DEF IInv, Queue
  <1>7. Deadlines'
    BY DEF config, IInv, Deadlines
  <1>8. Names'
    BY <1>1, TransitResults DEF config, IInv, Names, Nameable
  <1> QED BY <1>4, <1>5, <1>6, <1>7, <1>8 DEF IInv

\* Receiving, joining and draining.
LEMMA ReceiveInv ==
    IInv /\ (RecvEvent \/ RecvFinished \/ RecvTimeout \/ RecvDisconnected \/ JoinAfterResult
             \/ JoinAfterTimeout \/ DrainOne \/ DrainEnd) => IInv'
  <1> SUFFICES ASSUME IInv,
                      RecvEvent \/ RecvFinished \/ RecvTimeout \/ RecvDisconnected
                      \/ JoinAfterResult \/ JoinAfterTimeout \/ DrainOne \/ DrainEnd
               PROVE  IInv'
    OBVIOUS
  <1>0. /\ chan \in Seq(Message) /\ Len(forwarded) \in Nat
        /\ Numbered(chan, Len(forwarded))
    BY DEF IInv, TypeOK, Message, Queue
  <1>1. CASE RecvEvent
    BY <1>1, ForwardInv DEF RecvEvent
  <1>2. CASE RecvFinished
    <2>1. chan' = <<>> /\ Pending(chan) = 0 /\ Closed(chan)
      BY <1>0, <1>2, TakeFinished DEF RecvFinished
    <2>2. Head(chan) \in Message
      BY <1>0, <1>2, HeadTailProperties DEF RecvFinished
    <2>3. TypeOK'
      BY <1>2, <2>1, <2>2, EmptyChannel DEF RecvFinished, config, IInv, TypeOK, Message
    <2>4. Control'
      BY <1>2, <2>1, EmptyChannel DEF RecvFinished, IInv, Control, WorkerGone
    <2>5. Queue'
      BY <1>0, <1>2, <2>1, EmptyChannel DEF RecvFinished, IInv, Queue
    <2>6. Deadlines'
      BY <1>2 DEF RecvFinished, config, IInv, Deadlines
    <2>7. Names'
      BY <1>0, <1>2, TransitResults DEF RecvFinished, config, IInv, Names, Nameable
    <2> QED BY <2>3, <2>4, <2>5, <2>6, <2>7 DEF IInv
  <1>3. CASE RecvTimeout
    <2>1. timeoutError' \in {"CtrlC", "CancelledByCaller", "PipelineDeadline", "StageTimeout"}
      BY <1>3, ExpirationError DEF RecvTimeout
    <2>2. TypeOK'
      BY <1>3, <2>1 DEF RecvTimeout, config, IInv, TypeOK, Errors, CancelledErrors
    <2>3. Control'
      BY <1>3 DEF RecvTimeout, IInv, Control, WorkerGone
    <2>4. Queue'
      BY <1>3 DEF RecvTimeout, IInv, Queue
    <2>5. Deadlines'
      BY <1>3 DEF RecvTimeout, config, IInv, Deadlines
    <2>6. Names'
      <3>1. mode = "token" /\ stop = {} => timeoutError' = token.failure
        BY <1>3, ExpirationError DEF RecvTimeout
      <3>2. Nameable' = Nameable
        BY <1>3 DEF RecvTimeout, Nameable
      <3>3. mode = "token" /\ stop = {} => timeoutError' \in Nameable
        BY <2>2, <3>1 DEF TypeOK, Nameable, Results
      <3> QED
        BY <1>3, <3>2, <3>3 DEF RecvTimeout, config, IInv, Names
    <2> QED BY <2>2, <2>3, <2>4, <2>5, <2>6 DEF IInv
  <1>4. CASE RecvDisconnected
    <2>1. TypeOK'
      BY <1>4 DEF RecvDisconnected, config, IInv, TypeOK, Results, Errors
    <2>2. Control'
      BY <1>4 DEF RecvDisconnected, IInv, Control, WorkerGone
    <2>3. Queue'
      BY <1>4 DEF RecvDisconnected, IInv, Queue
    <2>4. Deadlines'
      BY <1>4 DEF RecvDisconnected, config, IInv, Deadlines
    <2>5. Names'
      BY <1>4 DEF RecvDisconnected, config, IInv, Names, Nameable, Results, Errors
    <2> QED BY <2>1, <2>2, <2>3, <2>4, <2>5 DEF IInv
  <1>5. CASE JoinAfterResult
    <2>1. TypeOK'
      BY <1>5 DEF JoinAfterResult, config, IInv, TypeOK, Results, Errors
    <2>2. Control'
      BY <1>5 DEF JoinAfterResult, IInv, Control, WorkerGone
    <2>3. Queue'
      BY <1>5 DEF JoinAfterResult, IInv, Queue
    <2>4. Deadlines'
      BY <1>5 DEF JoinAfterResult, config, IInv, Deadlines
    <2>5. Names'
      BY <1>5 DEF JoinAfterResult, config, IInv, Names, Nameable, Results, Errors
    <2> QED BY <2>1, <2>2, <2>3, <2>4, <2>5 DEF IInv
  <1>6. CASE JoinAfterTimeout
    <2>1. TypeOK'
      BY <1>6 DEF JoinAfterTimeout, config, IInv, TypeOK
    <2>2. Control'
      BY <1>6 DEF JoinAfterTimeout, IInv, Control, WorkerGone
    <2>3. Queue'
      BY <1>6 DEF JoinAfterTimeout, IInv, Queue
    <2>4. Deadlines'
      BY <1>6 DEF JoinAfterTimeout, config, IInv, Deadlines
    <2>5. Names'
      BY <1>6 DEF JoinAfterTimeout, config, IInv, Names, Nameable
    <2> QED BY <2>1, <2>2, <2>3, <2>4, <2>5 DEF IInv
  <1>7. CASE DrainOne
    <2>1. CASE Head(chan).kind = "Event"
      BY <1>7, <2>1, ForwardInv DEF DrainOne
    <2>2. CASE Head(chan).kind # "Event"
      <3>1. Head(chan).kind = "Finished" /\ forwarded' = forwarded
        <4>1. Head(chan) \in Message
          BY <1>0, <1>7, HeadTailProperties DEF DrainOne
        <4> QED BY <1>7, <2>2, <4>1 DEF DrainOne, Message
      <3>2. chan' = <<>> /\ Pending(chan) = 0
        BY <1>0, <1>7, <3>1, TakeFinished DEF DrainOne
      <3>3. TypeOK'
        BY <1>7, <3>1, <3>2, EmptyChannel DEF DrainOne, config, IInv, TypeOK, Message
      <3>4. Control'
        BY <1>7, <3>1, <3>2, EmptyChannel DEF DrainOne, IInv, Control, WorkerGone
      <3>5. Queue'
        BY <1>0, <1>7, <3>1, <3>2, EmptyChannel DEF DrainOne, IInv, Queue
      <3>6. Deadlines'
        BY <1>7 DEF DrainOne, config, IInv, Deadlines
      <3>7. Names'
        BY <1>7, <3>2, EmptyChannel DEF DrainOne, config, IInv, Names, Nameable
      <3> QED BY <3>3, <3>4, <3>5, <3>6, <3>7 DEF IInv
    <2> QED BY <2>1, <2>2
  <1>8. CASE DrainEnd
    <2>1. TypeOK'
      BY <1>8 DEF DrainEnd, config, IInv, TypeOK, Results
    <2>2. Control'
      BY <1>8 DEF DrainEnd, IInv, Control, WorkerGone
    <2>3. Queue'
      BY <1>8 DEF DrainEnd, IInv, Queue
    <2>4. Deadlines'
      BY <1>8 DEF DrainEnd, config, IInv, Deadlines
    <2>5. Names'
      BY <1>8 DEF DrainEnd, config, IInv, Names, Nameable
    <2> QED BY <2>1, <2>2, <2>3, <2>4, <2>5 DEF IInv
  <1> QED BY <1>1, <1>2, <1>3, <1>4, <1>5, <1>6, <1>7, <1>8

\* Stop requests and the clock.
LEMMA EnvironmentInv == IInv /\ (RequestStop \/ Tick \/ UNCHANGED vars) => IInv'
  <1> SUFFICES ASSUME IInv, RequestStop \/ Tick \/ UNCHANGED vars PROVE IInv'
    OBVIOUS
  <1>1. CASE RequestStop
    <2>1. TypeOK'
      BY <1>1 DEF RequestStop, config, supVars, IInv, TypeOK
    <2>2. Control' /\ Queue' /\ Deadlines'
      BY <1>1 DEF RequestStop, config, supVars, IInv, Control, Queue, Deadlines, WorkerGone
    <2>3. Names'
      BY <1>1 DEF RequestStop, config, supVars, Names
    <2> QED BY <2>1, <2>2, <2>3 DEF IInv
  <1>2. CASE Tick
    <2>1. TypeOK'
      BY <1>2 DEF Tick, config, supVars, IInv, TypeOK
    <2>2. Control' /\ Queue'
      BY <1>2 DEF Tick, config, supVars, IInv, Control, Queue, WorkerGone
    <2>3. Deadlines'
      BY <1>2 DEF Tick, config, supVars, IInv, TypeOK, Deadlines
    <2>4. Names'
      BY <1>2 DEF Tick, config, supVars, IInv, Names, Nameable
    <2> QED BY <2>1, <2>2, <2>3, <2>4 DEF IInv
  <1>3. CASE UNCHANGED vars
    BY <1>3 DEF vars, config, supVars, IInv, TypeOK, Control, Queue, Deadlines, Names,
                Nameable, WorkerGone
  <1> QED BY <1>1, <1>2, <1>3

LEMMA StepInv == IInv /\ [Next]_vars => IInv'
  BY WorkerInv, SetupInv, ReceiveInv, EnvironmentInv DEF Next, Supervisor, Returned

\* Every reachable state satisfies the invariant.
THEOREM Invariance == Spec => []IInv
  BY InitInv, StepInv, PTL DEF Spec

-----------------------------------------------------------------------------
(* What it implies.                                                        *)

\* The types of the supervised stage: a time-out that is a duration, a result that
\* is one of FwError's.
THEOREM TypeCorrect == Spec => []TypeOK
  <1>1. IInv => TypeOK
    BY DEF IInv
  <1> QED BY <1>1, Invariance, PTL

\* No return path of run_stage_with_timeout_streaming leaves its worker behind.
THEOREM NoWorkLeftBehind == Spec => []Quiescent
  <1>1. IInv => Quiescent
    BY DEF IInv, Control, Quiescent
  <1> QED BY <1>1, Invariance, PTL

\* Events are forwarded exactly once, in order and completely, for any number of
\* events and every end of the stage.
THEOREM NoEventLost == Spec => []EventsForwarded
  <1>1. IInv => EventsForwarded
    <2> SUFFICES ASSUME IInv PROVE EventsForwarded
      OBVIOUS
    <2>1. chan \in Seq(Message) /\ Len(forwarded) \in Nat /\ published \in Nat
      BY DEF IInv, TypeOK, Message
    <2>2. Pending(chan) \in Nat
      BY <2>1, EmptySeq DEF Pending, Closed
    <2>3. sup = "returned" => Pending(chan) = 0
      BY EmptyChannel DEF IInv, Control
    <2> QED BY <2>1, <2>2, <2>3 DEF IInv, Queue, EventsForwarded
  <1> QED BY <1>1, Invariance, PTL

\* The unbounded join after a time-out always meets a worker whose checkpoint fails,
\* for every budget, every pipeline deadline and however late either thread runs.
THEOREM JoinMeetsTrippedToken == Spec => []TimedOutWorkerIsTold
  <1>1. IInv => TimedOutWorkerIsTold
    BY DEF IInv, TypeOK, Deadlines, TimedOutWorkerIsTold, Tripped
  <1> QED BY <1>1, Invariance, PTL

\* A deadline failure names the deadline that came first, on every path.
THEOREM FailureNamesDeadline == Spec => []DeadlineFailureNamesTheDeadline
  <1>1. IInv => DeadlineFailureNamesTheDeadline
    <2> SUFFICES ASSUME IInv, sup = "returned", mode = "token", stop = {},
                        result \in {"StageTimeout", "PipelineDeadline"}
                 PROVE  result = "PipelineDeadline"
                            <=> Before(pipelineDeadline, stageDeadline)
      BY DEF DeadlineFailureNamesTheDeadline
    <2>1. result = token.failure
      BY DEF IInv, Names, Nameable
    <2>2. token = named_stage_token(pipelineDeadline, stageDeadline)
      BY DEF IInv, Deadlines
    <2> QED BY <2>1, <2>2 DEF named_stage_token
  <1> QED BY <1>1, Invariance, PTL

-----------------------------------------------------------------------------
(* Results that can no longer be returned.                                 *)

\* Result r is neither returned nor on its way.
Unsaid(r) ==
    /\ sup \notin {"token", "timeout", "spawn"}
    /\ result # r
    /\ timeoutError # r
    /\ ResultsIn(chan, (Results \union {None}) \ {r})

\* A step keeps r unsaid when neither a worker's outcome nor the supervisor's
\* time-out can be r.
LEMMA StaysUnsaid ==
    ASSUME IInv, [Next]_vars, NEW r \in {"Ok", "StageTimeout"}, Unsaid(r),
           \A x : Outcome(x) => x # r,
           RecvTimeout => timeoutError' # r
    PROVE  Unsaid(r)'
  <1> DEFINE Others == (Results \union {None}) \ {r}
  <1>0. /\ chan \in Seq(Message) /\ result # r /\ timeoutError # r
        /\ ResultsIn(chan, Others) /\ None \in Others
        /\ sup \notin {"token", "timeout", "spawn"}
    BY DEF IInv, TypeOK, Message, Unsaid, None
  <1>1. CASE Worker
    <2>1. UNCHANGED <<sup, result, timeoutError>>
      BY <1>1, WorkerSteps
    <2>2. CASE WorkerSilent
      BY <1>0, <2>1, <2>2 DEF Unsaid, WorkerSilent
    <2>3. CASE WorkerPublishes
      <3>1. published + 1 \in Nat
        BY DEF IInv, TypeOK
      <3>2. ResultsIn(chan', Others)
        BY <1>0, <2>3, <3>1, TransitResults DEF WorkerPublishes
      <3> QED BY <1>0, <2>1, <3>2 DEF Unsaid
    <2>4. CASE WorkerSends
      <3>1. PICK x : Outcome(x) /\ chan' = Append(chan, Finished(x))
        BY <2>4 DEF WorkerSends
      <3>2. x \in Others
        BY <3>1 DEF Outcome
      <3>3. ResultsIn(chan', Others)
        BY <1>0, <3>1, <3>2, TransitResults
      <3> QED BY <1>0, <2>1, <3>3 DEF Unsaid
    <2> QED BY <1>1, <2>2, <2>3, <2>4, WorkerSteps
  <1>2. CASE MakeToken \/ ComputeTimeout \/ Spawn \/ SpawnFails
    BY <1>0, <1>2 DEF MakeToken, ComputeTimeout, Spawn, SpawnFails
  <1>3. CASE Arm
    BY <1>3 DEF Arm, Unsaid
  <1>4. CASE RecvEvent
    BY <1>0, <1>4, TransitResults DEF RecvEvent, Unsaid
  <1>5. CASE RecvFinished
    <2>1. Head(chan).result \in Others /\ ResultsIn(Tail(chan), Others)
      BY <1>0, <1>5, TransitResults DEF RecvFinished
    <2> QED BY <1>0, <1>5, <2>1 DEF RecvFinished, Unsaid
  <1>6. CASE RecvTimeout
    BY <1>0, <1>6 DEF RecvTimeout, Unsaid
  <1>7. CASE RecvDisconnected
    BY <1>0, <1>7 DEF RecvDisconnected, Unsaid
  <1>8. CASE JoinAfterResult
    BY <1>0, <1>8 DEF JoinAfterResult, Unsaid
  <1>9. CASE JoinAfterTimeout
    BY <1>0, <1>9 DEF JoinAfterTimeout, Unsaid
  <1>10. CASE DrainOne
    BY <1>0, <1>10, TransitResults DEF DrainOne, Unsaid
  <1>11. CASE DrainEnd
    BY <1>0, <1>11 DEF DrainEnd, Unsaid
  <1>12. CASE RequestStop \/ Tick
    BY <1>0, <1>12 DEF RequestStop, Tick, supVars, Unsaid
  <1>13. CASE UNCHANGED vars
    BY <1>0, <1>13 DEF vars, supVars, Unsaid
  <1> QED
    BY <1>1, <1>2, <1>3, <1>4, <1>5, <1>6, <1>7, <1>8, <1>9, <1>10, <1>11, <1>12, <1>13
       DEF Next, Supervisor, Returned

\* While the operation or its fence is to come, no result is on its way.
LEMMA NothingSaidYet ==
    ASSUME IInv, worker \in {"running", "fence"}, NEW r \in {"Ok", "StageTimeout"},
           timeoutError # r
    PROVE  Unsaid(r)
  <1>1. sup \in {"arm", "recv", "join_timeout"} /\ result = None /\ ~Closed(chan)
    BY DEF IInv, TypeOK, Control, WorkerGone
  <1>2. \A k \in 1 .. Len(chan) : chan[k] = Event(Len(forwarded) + k)
    BY <1>1 DEF IInv, Queue, Numbered, Pending
  <1>3. ResultsIn(chan, (Results \union {None}) \ {r})
    <2>1. None \in (Results \union {None}) \ {r}
      BY DEF None
    <2>2. \A k \in 1 .. Len(chan) : chan[k].result = None
      BY <1>2, EventFields
    <2> QED BY <2>1, <2>2 DEF ResultsIn
  <1> QED BY <1>1, <1>3 DEF Unsaid, None

\* The token is fixed, and a failing checkpoint keeps failing.
LEMMA Monotone ==
    ASSUME IInv, [Next]_vars, sup # "token"
    PROVE  /\ token' = token /\ mode' = mode
           /\ stop # {} => stop' # {}
           /\ Tripped(token) => Tripped(token)'
  <1>1. token' = token /\ mode' = mode
    <2>1. CASE Worker
      BY <2>1, WorkerSteps
    <2>2. CASE Supervisor
      BY <2>2 DEF Supervisor, MakeToken, ComputeTimeout, Spawn, SpawnFails, Arm, RecvEvent,
                  RecvFinished, RecvTimeout, RecvDisconnected, JoinAfterResult,
                  JoinAfterTimeout, DrainOne, DrainEnd, config
    <2>3. CASE RequestStop \/ Tick \/ UNCHANGED vars
      BY <2>3 DEF RequestStop, Tick, vars, config
    <2> QED BY <2>1, <2>2, <2>3 DEF Next, Returned
  <1>2. \/ stop' = stop /\ now' \in {now, now + 1}
        \/ stop' # {} /\ now' = now
    <2>1. CASE Worker
      BY <2>1, WorkerSteps
    <2>2. CASE Supervisor
      BY <2>2 DEF Supervisor, MakeToken, ComputeTimeout, Spawn, SpawnFails, Arm, RecvEvent,
                  RecvFinished, RecvTimeout, RecvDisconnected, JoinAfterResult,
                  JoinAfterTimeout, DrainOne, DrainEnd
    <2>3. CASE RequestStop
      BY <2>3 DEF RequestStop
    <2>4. CASE Tick \/ UNCHANGED vars
      BY <2>4 DEF Tick, vars
    <2> QED BY <2>1, <2>2, <2>3, <2>4 DEF Next, Returned
  <1>3. Tripped(token) => Tripped(token)'
    BY <1>1, <1>2 DEF IInv, TypeOK, Deadlines, Tripped
  <1> QED BY <1>1, <1>2, <1>3

\* Closed under every step: the value is refused from here on.
TooLate == mode = "token" /\ Tripped(token) /\ Unsaid("Ok")

\* A value that is not through the fence when the token trips is never returned.
THEOREM NoLateValue == Spec => LateValueNotAdmitted
  <1>1. IInv /\ LateValue => TooLate
    BY NothingSaidYet DEF IInv, TypeOK, LateValue, TooLate, Errors, CancelledErrors,
       OperationErrors, None
  <1>2. IInv /\ TooLate /\ [Next]_vars => TooLate'
    <2> SUFFICES ASSUME IInv, TooLate, [Next]_vars PROVE TooLate'
      OBVIOUS
    <2>1. sup # "token" /\ mode = "token" /\ Tripped(token)
      BY DEF TooLate, Unsaid
    <2>2. expiration_error(token) # "Ok"
      BY <2>1, ExpirationError
    <2>3. \A x : Outcome(x) => x # "Ok"
      BY <2>1, <2>2 DEF Outcome, OperationErrors
    <2>4. RecvTimeout => timeoutError' # "Ok"
      BY <2>2 DEF RecvTimeout
    <2>5. Unsaid("Ok")'
      BY <2>3, <2>4, StaysUnsaid DEF TooLate
    <2> QED BY <2>1, <2>5, Monotone DEF TooLate
  <1>3. TooLate => result # "Ok"
    BY DEF TooLate, Unsaid
  <1> QED BY <1>1, <1>2, <1>3, Invariance, PTL DEF Spec, LateValueNotAdmitted

\* Closed under every step: the stop is what the stage reports.
StopSeen == mode = "token" /\ stop # {} /\ Unsaid("StageTimeout")

\* A stop request that is raised in time is never reported as a stage time-out.
THEOREM StopWins == Spec => StopOutranksTimeout
  <1>1. IInv /\ StoppedInTime => StopSeen
    <2> SUFFICES ASSUME IInv, StoppedInTime PROVE StopSeen
      OBVIOUS
    <2>1. timeoutError # "StageTimeout" /\ worker \in {"running", "fence"}
      BY DEF IInv, Control, StoppedInTime, None
    <2>2. Unsaid("StageTimeout")
      BY <2>1, NothingSaidYet
    <2> QED BY <2>2 DEF StoppedInTime, StopSeen
  <1>2. IInv /\ StopSeen /\ [Next]_vars => StopSeen'
    <2> SUFFICES ASSUME IInv, StopSeen, [Next]_vars PROVE StopSeen'
      OBVIOUS
    <2>1. sup # "token" /\ mode = "token" /\ stop # {}
      BY DEF StopSeen, Unsaid
    <2>2. expiration_error(token) # "StageTimeout"
      BY <2>1, ExpirationError
    <2>3. \A x : Outcome(x) => x # "StageTimeout"
      BY <2>2 DEF Outcome, OperationErrors
    <2>4. RecvTimeout => timeoutError' # "StageTimeout"
      BY <2>1, <2>2 DEF RecvTimeout
    <2>5. Unsaid("StageTimeout")'
      BY <2>3, <2>4, StaysUnsaid DEF StopSeen
    <2> QED BY <2>1, <2>5, Monotone DEF StopSeen
  <1>3. StopSeen => result # "StageTimeout"
    BY DEF StopSeen, Unsaid
  <1> QED BY <1>1, <1>2, <1>3, Invariance, PTL DEF Spec, StopOutranksTimeout

-----------------------------------------------------------------------------
(* The persist stage under supervision.                                    *)

\* The proofs about the operation, with the substitution of PersistStage.
P == INSTANCE ReportPersistProofs WITH
        tripped <- worker # "none" /\ Tripped(token),
        pc <- step, result <- answer

-----------------------------------------------------------------------------
(* The supervised stage.                                                   *)

\* Every step of the composition is one of the supervised stage, or leaves it alone.
LEMMA StageStep == [StageNext]_stageVars => [Next]_vars
  <1>1. Supervise \/ Environment \/ OtherStage \/ Exit \/ StageReturned => [Next]_vars
    BY DEF Supervise, Environment, OtherStage, Exit, StageReturned, Next, Worker
  <1>2. Work => UNCHANGED vars
    BY DEF Work
  <1>3. Answer \/ Panic => Next
    BY DEF Answer, Panic, Next, Worker
  <1>4. UNCHANGED stageVars => UNCHANGED vars
    BY DEF stageVars
  <1> QED BY <1>1, <1>2, <1>3, <1>4 DEF StageNext

\* The composition implements the supervised stage, so that all that was proved of a
\* supervised stage is true of the persist stage.
THEOREM ImplementsSupervision == StageSpec => Spec
  <1>1. StageInit => Init
    BY DEF StageInit
  <1> QED BY <1>1, StageStep, PTL DEF StageSpec, Spec

-----------------------------------------------------------------------------
(* The persist operation.                                                  *)

\* Checkpoints of the operation, once they fail, keep failing.
LEMMA TripsForGood ==
    ASSUME IInv, [Next]_vars, worker # "none", Tripped(token)
    PROVE  worker' # "none" /\ Tripped(token)'
  <1>1. sup # "token"
    BY DEF IInv, Control
  <1>2. worker' # "none"
    BY DEF Next, Supervisor, Worker, MakeToken, ComputeTimeout, Spawn, SpawnFails, Arm, RecvEvent,
           RecvFinished, RecvTimeout, RecvDisconnected, JoinAfterResult, JoinAfterTimeout,
           DrainOne, DrainEnd, Publish, OperationCancelled, OperationFails, OperationSucceeds,
           Fence, OperationPanics, WorkerExits, RequestStop, Tick, Returned, vars
  <1> QED BY <1>1, <1>2, Monotone

\* A step that leaves the operation alone is at most a trip of its token.
LEMMA OperationIdle ==
    ASSUME IInv, [Next]_vars, UNCHANGED operation
    PROVE  [R!Next]_(R!vars)
  <1> DEFINE t == worker # "none" /\ Tripped(token)
  <1>1. UNCHANGED <<conn, step, attempt, answer>>
    BY DEF operation
  <1>2. CASE t
    <2>1. t'
      BY <1>2, TripsForGood
    <2> QED BY <1>1, <1>2, <2>1 DEF R!vars
  <1>3. CASE ~t /\ ~t'
    BY <1>1, <1>3 DEF R!vars
  <1>4. CASE ~t /\ t'
    BY <1>1, <1>4 DEF R!Next, R!Trip
  <1> QED BY <1>2, <1>3, <1>4

\* Every step of the composition is one of the persist operation, or leaves it alone.
LEMMA OperationStep == IInv /\ [StageNext]_stageVars => [R!Next]_(R!vars)
  <1> SUFFICES ASSUME IInv, [StageNext]_stageVars PROVE [R!Next]_(R!vars)
    OBVIOUS
  <1>1. [Next]_vars
    BY StageStep
  <1>2. CASE UNCHANGED operation
    BY <1>1, <1>2, OperationIdle
  <1>3. CASE Work
    BY <1>3 DEF Work, R!Next
  <1>4. CASE Answer
    BY <1>4 DEF Answer, R!Next
  <1>5. CASE Panic
    BY <1>5 DEF Panic, R!Next
  <1> QED
    BY <1>2, <1>3, <1>4, <1>5 DEF StageNext, stageVars, Supervise, Environment, OtherStage,
       Exit, StageReturned

\* The composition implements the persist operation: under the supervisor, with the stage
\* token for the flag, persist_report_cancellable makes no step it could not make alone.
THEOREM ImplementsPersist == StageSpec => PersistOperation
  <1>1. StageInit => R!Init
    BY DEF StageInit, Init, R!Init, R!None
  <1>2. StageSpec => []IInv
    BY ImplementsSupervision, Invariance, PTL
  <1> QED BY <1>1, <1>2, OperationStep, PTL DEF StageSpec, PersistOperation, R!Spec

\* The invariant of the operation holds under the supervisor.
LEMMA OperationInvariance == StageSpec => []P!IInv
  <1>1. StageInit => P!Init
    BY DEF StageInit, Init, P!Init, P!None, R!NewConnection, P!NewConnection
  <1>2. [R!Next]_(R!vars) => [P!Next]_(P!vars)
    BY DEF R!Init, P!Init, R!Next, P!Next, R!vars, P!vars, R!Statement, P!Statement,
           R!OpenFails, P!OpenFails, R!open, P!open, R!BeginAttempt, P!BeginAttempt,
           R!SavepointFails, P!SavepointFails, R!InsertRun, P!InsertRun, R!InsertPart,
           P!InsertPart, R!InsertFails, P!InsertFails, R!CheckpointBeforeCommit,
           P!CheckpointBeforeCommit, R!Commit, P!Commit, R!CommitFails, P!CommitFails,
           R!CloseStore, P!CloseStore, R!Crash, P!Crash, R!Trip, P!Trip, R!Ended, P!Ended,
           R!AttemptError, P!AttemptError, R!Return, P!Return, R!Following, P!Following,
           R!Parts, P!Parts, R!None, P!None, R!StatementErrors, P!StatementErrors, R!Retries,
           P!Retries, R!ReleaseFails, P!ReleaseFails, R!Release, P!Release, R!NewConnection,
           P!NewConnection, R!Savepoint, P!Savepoint, R!Write, P!Write, R!Innermost,
           P!Innermost, R!Pop, P!Pop, R!rollback_savepoint, P!rollback_savepoint
  <1>3. P!Init => P!IInv
    BY P!InitInv, StoreAssumption DEF P!EngineAssumption
  <1>4. P!IInv /\ [P!Next]_(P!vars) => P!IInv'
    BY P!StepInv, StoreAssumption DEF P!EngineAssumption
  <1>5. StageSpec => []IInv
    BY ImplementsSupervision, Invariance, PTL
  <1> QED BY <1>1, <1>2, <1>3, <1>4, <1>5, OperationStep, PTL DEF StageSpec

-----------------------------------------------------------------------------
(* What the caller is told.                                                *)

\* The results of the persist stage that may be on their way: the supervisor's own, and
\* once the store is closed those that agree with the operation's answer.
Sayable ==
    {None, "StageTimeout", "BackendUnavailable", "Io"} \union
    (IF step = "closed" THEN (IF answer = "Ok" THEN {"Ok"} ELSE Errors) ELSE {})

Told ==
    job = "persist" =>
        /\ mode = "budget"
        /\ worker # "fence"
        /\ timeoutError \in {None, "StageTimeout"}
        /\ result \in Sayable
        /\ ResultsIn(chan, Sayable)

\* More may be said of a channel than has been.
LEMMA WiderResults ==
    ASSUME NEW c, NEW S, NEW T, ResultsIn(c, S), S \subseteq T
    PROVE  ResultsIn(c, T)
  BY DEF ResultsIn

\* No statement closes the store, and a closed store executes none.
LEMMA StatementsKeepOpen == R!Statement => step # "closed" /\ step' # "closed"
  <1>1. R!OpenFails \/ R!open \/ R!BeginAttempt => step # "closed" /\ step' # "closed"
    BY DEF R!OpenFails, R!open, R!BeginAttempt, R!Return
  <1>2. R!SavepointFails \/ R!InsertFails \/ R!CommitFails => step # "closed" /\ step' # "closed"
    BY DEF R!SavepointFails, R!InsertFails, R!CommitFails, R!AttemptError, R!Return, R!Following
  <1>3. R!InsertRun => step # "closed" /\ step' # "closed"
    BY DEF R!InsertRun, R!AttemptError, R!Return
  <1>4. R!InsertPart => step # "closed" /\ step' # "closed"
    BY DEF R!InsertPart, R!Return, R!Following
  <1>5. R!CheckpointBeforeCommit \/ R!Commit => step # "closed" /\ step' # "closed"
    BY DEF R!CheckpointBeforeCommit, R!Commit, R!Return
  <1> QED BY <1>1, <1>2, <1>3, <1>4, <1>5 DEF R!Statement

\* The supervising thread passes on what it received, or names its time-out.
LEMMA SuperviseTold ==
    ASSUME IInv, Told, Supervisor, UNCHANGED operation
    PROVE  Told'
  <1> SUFFICES ASSUME job = "persist" PROVE Told'
    BY DEF Told, operation
  <1>0. /\ job' = job /\ Sayable' = Sayable /\ chan \in Seq(Message) /\ None \in Sayable
        /\ "BackendUnavailable" \in Sayable /\ "Io" \in Sayable /\ "StageTimeout" \in Sayable
    BY DEF operation, Sayable, IInv, TypeOK, Message
  <1>1. /\ mode = "budget" /\ worker # "fence" /\ timeoutError \in {None, "StageTimeout"}
        /\ result \in Sayable /\ ResultsIn(chan, Sayable)
    BY DEF Told
  <1> HIDE DEF Sayable
  <1>2. CASE MakeToken \/ ComputeTimeout \/ Spawn \/ SpawnFails \/ Arm
    BY <1>0, <1>1, <1>2 DEF Told, MakeToken, ComputeTimeout, Spawn, SpawnFails, Arm, config
  <1>3. CASE RecvEvent \/ RecvFinished \/ DrainOne
    <2>1. chan # <<>> => Head(chan).result \in Sayable /\ ResultsIn(Tail(chan), Sayable)
      BY <1>0, <1>1, TransitResults
    <2> QED
      BY <1>0, <1>1, <1>3, <2>1 DEF Told, RecvEvent, RecvFinished, DrainOne, config
  <1>4. CASE RecvTimeout \/ RecvDisconnected \/ JoinAfterResult \/ JoinAfterTimeout \/ DrainEnd
    BY <1>0, <1>1, <1>4 DEF Told, RecvTimeout, RecvDisconnected, JoinAfterResult,
       JoinAfterTimeout, DrainEnd, config
  <1> QED BY <1>2, <1>3, <1>4 DEF Supervisor

\* What the closure sends is the operation's answer.
LEMMA AnswerTold ==
    ASSUME IInv, Told, Answer
    PROVE  Told'
  <1>0. /\ job = "persist" /\ job' = job /\ worker = "running" /\ worker' = "sent"
        /\ UNCHANGED <<mode, timeoutError, result>>
        /\ step = "returned" /\ step' = "closed" /\ answer' = answer
        /\ mode = "budget"
    BY DEF Answer, R!CloseStore, Told, OperationSucceeds, OperationCancelled, OperationFails,
           WorkerUnchanged, config, supVars
  <1>1. sup # "token" /\ chan \in Seq(Message)
    BY <1>0 DEF IInv, Control, TypeOK, Message
  <1>2. PICK x \in Sayable' : chan' = Append(chan, Finished(x))
    <2>1. CASE answer = "Ok" /\ OperationSucceeds
      BY <1>0, <2>1 DEF OperationSucceeds, Send, Sayable
    <2>2. CASE answer = "Cancelled" /\ OperationCancelled
      <3>1. expiration_error(token) \in Errors
        BY <1>1, ExpirationError DEF Errors, CancelledErrors
      <3> QED BY <1>0, <2>2, <3>1 DEF OperationCancelled, Send, Sayable
    <2>3. CASE answer \in {"Busy", "Storage"} /\ OperationFails
      BY <1>0, <2>3 DEF OperationFails, Send, Sayable, Errors
    <2> QED BY <2>1, <2>2, <2>3 DEF Answer
  <1>3. Sayable \subseteq Sayable'
    BY <1>0 DEF Sayable
  <1>4. ResultsIn(chan, Sayable') /\ result' \in Sayable'
    BY <1>0, <1>3, WiderResults DEF Told
  <1>5. ResultsIn(chan', Sayable')
    BY <1>1, <1>2, <1>4, TransitResults
  <1> QED BY <1>0, <1>4, <1>5 DEF Told

\* No step makes the caller hear what the operation did not answer.
LEMMA ToldStep == IInv /\ Told /\ [StageNext]_stageVars => Told'
  <1> SUFFICES ASSUME IInv, Told, [StageNext]_stageVars PROVE Told'
    OBVIOUS
  <1>1. CASE Supervise
    BY <1>1, SuperviseTold DEF Supervise
  <1>2. CASE Environment
    BY <1>2 DEF Environment, RequestStop, Tick, operation, config, supVars, Told, Sayable
  <1>3. CASE OtherStage
    BY <1>3 DEF OtherStage, operation, Told
  <1>4. CASE Work
    <2>1. step # "closed" /\ step' # "closed"
      BY <1>4, StatementsKeepOpen DEF Work
    <2>2. Sayable' = Sayable
      BY <2>1 DEF Sayable
    <2> QED BY <1>4, <2>2 DEF Work, vars, config, supVars, Told
  <1>5. CASE Answer
    BY <1>5, AnswerTold
  <1>6. CASE Panic
    <2>1. step # "closed" /\ step' # "closed"
      BY <1>6 DEF Panic, R!Crash
    <2>2. Sayable' = Sayable
      BY <2>1 DEF Sayable
    <2> QED BY <1>6, <2>2 DEF Panic, OperationPanics, WorkerUnchanged, config, supVars, Told
  <1>7. CASE Exit
    BY <1>7 DEF Exit, WorkerExits, WorkerUnchanged, operation, config, supVars, Told, Sayable
  <1>8. CASE StageReturned \/ UNCHANGED stageVars
    BY <1>8 DEF StageReturned, Returned, stageVars, vars, operation, config, supVars, Told, Sayable
  <1> QED BY <1>1, <1>2, <1>3, <1>4, <1>5, <1>6, <1>7, <1>8 DEF StageNext

\* What the caller of the persist stage is told of the row is true, whatever the budget and
\* the deadlines, however often the database is busy, and whenever a stop comes.
THEOREM ReportIsTruthful == StageSpec => []TruthfulReport
  <1>1. StageInit => Told
    BY EmptyChannel DEF StageInit, Init, Told, Sayable
  <1>2. StageSpec => []IInv
    BY ImplementsSupervision, Invariance, PTL
  <1>3. P!IInv /\ Told => TruthfulReport
    <2> SUFFICES ASSUME P!IInv, Told, sup = "returned", job = "persist"
                 PROVE  /\ result = "Ok" => conn.durable = R!Parts
                        /\ result \in CancelledErrors => conn.durable = {}
      BY DEF TruthfulReport
    <2>1. step = "closed" => conn.durable = IF answer = "Ok" THEN R!Parts ELSE {}
      BY DEF P!IInv, P!AnswerAt, P!Parts, R!Parts
    <2>2. result = "Ok" => step = "closed" /\ answer = "Ok"
      BY DEF Told, Sayable, None, Errors, CancelledErrors, OperationErrors
    <2>3. result \in CancelledErrors => step = "closed" /\ answer # "Ok"
      BY DEF Told, Sayable, None, CancelledErrors
    <2> QED BY <2>1, <2>2, <2>3
  <1> QED BY <1>1, <1>2, <1>3, ToldStep, OperationInvariance, PTL DEF StageSpec
=============================================================================
