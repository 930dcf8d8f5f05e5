--------------------------- MODULE ChatLoop_proofs ---------------------------
(***************************************************************************)
(* Proofs about the chat loop, for any set of sessions and any bounds.     *)
(***************************************************************************)
EXTENDS ChatLoop, SequenceTheorems, TLAPS

\* A queue of callbacks whose _on_sigint closures belong to turns 1..n.
Queue(q, n) ==
  /\ q \in Seq(Callback)
  /\ \A i \in DOMAIN q : q[i].cb \in {"sigint", "intr"} => q[i].owner \in 1..n

\* A stream to the gateway whose texts belong to turns 1..n.
Stream(q, n) ==
  /\ q \in Seq(ToGwFrame)
  /\ \A i \in DOMAIN q : q[i].kind = "text" => q[i].turn \in 1..n

\* The type invariant, strengthened: a turn that runs has begun, and a text on
\* its way names a turn begun.
TypeInv == /\ TypeOK
           /\ Stream(toGw, Turn)
           /\ pc \in {"title", "turn"} \/ stage # "none" => Turn # 0

-----------------------------------------------------------------------------
(* Lemmas on the sequences of the model. *)

\* What is in the tail of a sequence was in the sequence.
LEMMA TailElements ==
  ASSUME NEW S, NEW q \in Seq(S), q # <<>>
  PROVE  /\ Tail(q) \in Seq(S) /\ Head(q) = q[1] /\ Head(q) \in S
         /\ Len(Tail(q)) = Len(q) - 1 /\ Len(q) >= 1
         /\ \A i \in DOMAIN Tail(q) : i + 1 \in DOMAIN q /\ Tail(q)[i] = q[i + 1]
  BY SMT

\* Appending adds one element at the end and keeps the others.
LEMMA AppendElements ==
  ASSUME NEW S, NEW q \in Seq(S), NEW e \in S
  PROVE  /\ Append(q, e) \in Seq(S) /\ Len(Append(q, e)) = Len(q) + 1
         /\ \A i \in DOMAIN Append(q, e) :
              \/ i \in DOMAIN q /\ Append(q, e)[i] = q[i]
              \/ i = Len(q) + 1 /\ Append(q, e)[i] = e
  BY SMT

\* Running the first callback leaves a queue.
LEMMA QueueTail ==
  ASSUME NEW q, NEW n \in Nat, Queue(q, n), q # <<>>
  PROVE  Queue(Tail(q), n) /\ Head(q) \in Callback
         /\ (Head(q).cb \in {"sigint", "intr"} => Head(q).owner \in 1..n)
  <1>1. q \in Seq(Callback)
    BY DEF Queue
  <1>2. /\ Tail(q) \in Seq(Callback) /\ Head(q) = q[1] /\ 1 \in DOMAIN q
        /\ Head(q) \in Callback
        /\ \A i \in DOMAIN Tail(q) : i + 1 \in DOMAIN q /\ Tail(q)[i] = q[i + 1]
    BY <1>1, TailElements
  <1> QED
    BY <1>2 DEF Queue

\* Scheduling a callback leaves a queue.
LEMMA QueueAppend ==
  ASSUME NEW q, NEW n \in Nat, Queue(q, n), NEW c \in Callback,
         c.cb \in {"sigint", "intr"} => c.owner \in 1..n
  PROVE  Queue(Append(q, c), n)
  <1>1. q \in Seq(Callback)
    BY DEF Queue
  <1>2. /\ Append(q, c) \in Seq(Callback)
        /\ \A i \in DOMAIN Append(q, c) :
             \/ i \in DOMAIN q /\ Append(q, c)[i] = q[i]
             \/ Append(q, c)[i] = c
    BY <1>1, AppendElements
  <1> QED
    BY <1>2 DEF Queue

\* Waking a task schedules a callback that is no closure of a turn.
LEMMA QueueWake ==
  ASSUME NEW q, NEW n \in Nat, Queue(q, n), NEW k \in {"main", "turn", "listen"}
  PROVE  Queue(Append(q, Wake(k)), n)
  <1>1. Wake(k) \in Callback /\ Wake(k).cb \notin {"sigint", "intr"}
    BY DEF Wake, Callback
  <1> QED
    BY <1>1, QueueAppend

\* The gateway reads the first frame of a stream.
LEMMA StreamTail ==
  ASSUME NEW q, NEW n \in Nat, Stream(q, n), q # <<>>
  PROVE  Stream(Tail(q), n) /\ Head(q) \in ToGwFrame
         /\ (Head(q).kind = "text" => Head(q).turn \in 1..n)
  <1>1. q \in Seq(ToGwFrame)
    BY DEF Stream
  <1>2. /\ Tail(q) \in Seq(ToGwFrame) /\ Head(q) = q[1] /\ 1 \in DOMAIN q
        /\ Head(q) \in ToGwFrame
        /\ \A i \in DOMAIN Tail(q) : i + 1 \in DOMAIN q /\ Tail(q)[i] = q[i + 1]
    BY <1>1, TailElements
  <1> QED
    BY <1>2 DEF Stream

\* The client sends a frame.
LEMMA StreamAppend ==
  ASSUME NEW q, NEW n \in Nat, Stream(q, n),
         NEW k \in {"open", "text", "interrupt", "command"}, NEW s \in Sessions, NEW t \in Nat,
         k = "text" => t \in 1..n
  PROVE  Stream(Append(q, Frame(k, s, t)), n)
  <1>1. q \in Seq(ToGwFrame) /\ Frame(k, s, t) \in ToGwFrame
    BY DEF Stream, Frame, ToGwFrame
  <1>2. /\ Append(q, Frame(k, s, t)) \in Seq(ToGwFrame)
        /\ \A i \in DOMAIN Append(q, Frame(k, s, t)) :
             \/ i \in DOMAIN q /\ Append(q, Frame(k, s, t))[i] = q[i]
             \/ Append(q, Frame(k, s, t))[i] = Frame(k, s, t)
    BY <1>1, AppendElements
  <1>3. Frame(k, s, t).kind = k /\ Frame(k, s, t).turn = t
    BY DEF Frame
  <1> QED
    BY <1>2, <1>3 DEF Stream

\* The gateway sends a frame.
LEMMA Emitted ==
  ASSUME NEW k \in ChatKinds \cup {"status", "command_result", "malformed"},
         NEW s \in Sessions, NEW t \in Nat, toClient \in Seq(ToClientFrame), Emit(k, s, t)
  PROVE  toClient' \in Seq(ToClientFrame)
  <1>1. Frame(k, s, t) \in ToClientFrame
    BY DEF Frame, ToClientFrame
  <1> QED
    BY <1>1, AppendElements DEF Emit

\* What the steps below use of the type invariant.
LEMMA TypeFacts ==
  ASSUME TypeInv
  PROVE  /\ Turn \in Nat /\ Queue(ready, Turn) /\ turns \in Seq(Sessions)
         /\ \A t \in 1..Turn : turns[t] \in Sessions
         /\ Turn # 0 => Active \in Sessions
  BY DEF TypeInv, TypeOK, Queue, Turn, Active

\* A longer history of turns keeps a queue and a stream well typed.
LEMMA Longer ==
  ASSUME NEW q, NEW n \in Nat
  PROVE  (Queue(q, n) => Queue(q, n + 1)) /\ (Stream(q, n) => Stream(q, n + 1))
  BY DEF Queue, Stream

\* The steps of the user.
LEMMA TypeUser == ASSUME TypeInv, User PROVE TypeInv'
  <1> USE TypeFacts DEF TypeInv, TypeOK
  <1>1. ASSUME NEW s \in Sessions, UserMessage(s) PROVE TypeInv'
    <2>1. Turn' = Turn + 1 /\ Turn' \in Nat /\ turns' \in Seq(Sessions)
      BY <1>1 DEF UserMessage, Turn
    <2>2. Queue(ready, Turn') /\ Stream(toGw, Turn')
      BY <2>1, Longer DEF TypeInv
    <2>3. Queue(ready', Turn')
      BY <1>1, <2>1, <2>2, QueueWake DEF UserMessage, StartTurn
    <2>4. 0..Turn \subseteq 0..Turn' /\ 1..Turn \subseteq 1..Turn' /\ Turn' \in 0..Turn'
      <3> Turn \in Nat
        OBVIOUS
      <3> HIDE TypeFacts DEF TypeInv, TypeOK
      <3> QED
        BY <2>1
    <2>5. handler' \in 0..Turn'
      BY <1>1, <2>1, <2>4 DEF UserMessage, StartTurn
    <2>6. pending' \in [Sessions -> 0..Turn'] /\ interrupted' \subseteq 1..Turn'
      BY <1>1, <2>1, <2>4 DEF UserMessage, collVars
    <2>7. /\ gwTurn' \in 0..Turn' /\ gwOpen' \subseteq Sessions
          /\ presses' \in 0..MaxPresses /\ opened' \subseteq Sessions
      BY <1>1, <2>1, <2>4 DEF UserMessage, gwVars
    <2>8. pc' \in Places /\ stage' \in Stages
      BY <1>1 DEF UserMessage, StartTurn, Places, Stages
    <2>9. /\ coll' \in Collector /\ reply' \in Reply /\ future' \in {"none", "waiting", "done"}
          /\ listener' \in {"running", "ended"} /\ ws' \in {"open", "closed", "none"}
          /\ toClient' \in Seq(ToClientFrame) /\ toGw' = toGw
      BY <1>1 DEF UserMessage, collVars, connVars
    <2> QED
      <3>1. Queue(ready', Turn') /\ Stream(toGw', Turn') /\ toGw' \in Seq(ToGwFrame)
        BY <2>2, <2>3, <2>9
      <3>2. Turn' # 0
        BY <2>1
      <3> QED
        BY <3>1, <3>2, <2>1, <2>5, <2>6, <2>7, <2>8, <2>9 DEF Queue
  <1>2. ASSUME NEW s \in Sessions, UserCommand(s) PROVE TypeInv'
    <2>1. Turn' = Turn /\ Stream(toGw', Turn)
      BY <1>2, StreamAppend DEF TypeInv, UserCommand, Turn
    <2> QED
      BY <1>2, <2>1
         DEF TypeInv, TypeOK, UserCommand, Stream, Places, turnVars, collVars, gwVars
  <1>3. ASSUME NEW s \in Sessions, UserStop(s) PROVE TypeInv'
    <2>1. Turn' = Turn /\ Stream(toGw', Turn)
      BY <1>3, StreamAppend DEF TypeInv, UserStop, replVars, Turn
    <2> QED
      BY <1>3, <2>1
         DEF TypeInv, TypeOK, UserStop, Stream, replVars, turnVars, collVars, connVars, gwVars
  <1>4. CASE UserQuit
    <2>1. Turn' = Turn /\ Queue(<<>>, Turn) /\ Stream(<<>>, Turn)
      BY <1>4 DEF UserQuit, Turn, Queue, Stream
    <2> QED
      BY <1>4, <2>1 DEF TypeInv, TypeOK, UserQuit, Queue, Places
  <1>5. CASE UserAbort
    <2>1. Turn' = Turn /\ Queue(<<>>, Turn)
      BY <1>5 DEF UserAbort, Turn, Queue
    <2> QED
      BY <1>5, <2>1
         DEF TypeInv, TypeOK, UserAbort, Queue, Places, turnVars, collVars, gwVars
  <1>6. CASE PressCtrlC
    <2>1. Turn' = Turn
      BY <1>6 DEF PressCtrlC, Turn
    <2>2. Queue(ready', Turn)
      <3>1. [cb |-> "pipe", owner |-> 0, pressed |-> Turn] \in Callback
        BY DEF Callback
      <3> QED
        BY <1>6, <3>1, QueueAppend DEF PressCtrlC
    <2>3. presses' \in 0..MaxPresses
      BY <1>6, BoundsAssumption DEF PressCtrlC
    <2>4. TypeOK'
      BY <1>6, <2>1, <2>2, <2>3
         DEF PressCtrlC, Queue, turnVars, collVars, connVars, gwVars
    <2> QED
      BY <1>6, <2>1, <2>2, <2>4 DEF PressCtrlC, turnVars, connVars
  <1> QED
    BY <1>1, <1>2, <1>3, <1>4, <1>5, <1>6 DEF User

\* Running a callback: what the first one is and what is left.
LEMMA TypeRun ==
  ASSUME TypeInv, LoopRuns
  PROVE  Queue(Tail(ready), Turn) /\ Head(ready) \in Callback
         /\ (Head(ready).cb \in {"sigint", "intr"} => Head(ready).owner \in 1..Turn)
  BY TypeFacts, QueueTail DEF LoopRuns

\* The REPL coroutine and what makes tasks ready again.
LEMMA TypeRepl ==
  ASSUME TypeInv, RunMain \/ HttpAnswered \/ Drained \/ Readable
  PROVE  TypeInv'
  <1> USE TypeFacts DEF TypeInv, TypeOK
  <1>1. CASE RunMain
    <2>1. Turn' = Turn /\ Queue(Tail(ready), Turn)
      BY <1>1, TypeRun DEF RunMain, Running, Turn
    <2>2. Queue(ready', Turn)
      BY <1>1, <2>1, QueueWake DEF RunMain, StartTurn
    <2>3. handler' \in 0..Turn /\ stage' \in Stages /\ pc' \in Places
          /\ future' \in {"none", "waiting", "done"}
      <3>1. handler' \in 0..Turn
        BY <1>1, SMTT(30) DEF RunMain, StartTurn
      <3>2. stage' \in Stages
        BY <1>1, SMTT(30) DEF RunMain, StartTurn, Stages
      <3>3. pc' \in Places
        BY <1>1, SMTT(30) DEF RunMain, StartTurn, Places
      <3>4. future' \in {"none", "waiting", "done"}
        BY <1>1, SMTT(30) DEF RunMain, StartTurn
      <3> QED
        BY <3>1, <3>2, <3>3, <3>4
    <2>4. pc' \in {"title", "turn"} \/ stage' # "none" => Turn # 0
      BY <1>1 DEF RunMain, StartTurn
    <2> QED
      BY <1>1, <2>1, <2>2, <2>3, <2>4, SMTT(30) DEF RunMain, Queue, collVars, gwVars
  <1>2. CASE HttpAnswered
    <2>1. Turn' = Turn /\ Queue(ready', Turn)
      BY <1>2, QueueWake, ZenonT(30) DEF HttpAnswered, replVars, Turn
    <2> QED
      BY <1>2, <2>1, ZenonT(30) DEF HttpAnswered, Queue, replVars, turnVars, collVars, connVars, gwVars
  <1>3. CASE Drained
    <2>1. Turn' = Turn /\ Queue(ready', Turn)
      BY <1>3, QueueWake, ZenonT(30) DEF Drained, replVars, Turn
    <2> QED
      BY <1>3, <2>1, ZenonT(30) DEF Drained, Queue, replVars, turnVars, collVars, connVars, gwVars
  <1>4. CASE Readable
    <2>1. Turn' = Turn /\ Queue(ready', Turn)
      BY <1>4, QueueWake, SMTT(30) DEF Readable, replVars, Turn
    <2> QED
      BY <1>4, <2>1, SMTT(30) DEF Readable, Queue, replVars, turnVars, collVars, connVars, gwVars
  <1> QED
    BY <1>1, <1>2, <1>3, <1>4

\* The end of send_message.
LEMMA TypeEndTurn ==
  ASSUME TypeInv, LoopRuns, NEW k \in {"response", "error", "raised"},
         NEW fs \in SUBSET Nat, EndTurn(k, fs)
  PROVE  reply' \in Reply /\ stage' = "none" /\ Queue(ready', Turn)
  <1>1. Queue(Tail(ready), Turn) /\ Turn \in Nat
    BY TypeRun, TypeFacts
  <1> QED
    BY <1>1, QueueWake DEF EndTurn, Reply

\* The send_message task.
LEMMA TypeTurn ==
  ASSUME TypeInv, SendOpen \/ SendText \/ TextSendFailed \/ AwaitDone \/ TurnDone
  PROVE  TypeInv'
  <1> USE TypeFacts DEF TypeInv, TypeOK
  <1>1. /\ LoopRuns /\ Turn' = Turn /\ Active' = Active /\ stage # "none"
        /\ Queue(Tail(ready), Turn)
    BY TypeRun
       DEF SendOpen, SendText, TextSendFailed, AwaitDone, TurnDone, Running, replVars, Turn, Active
  <1>2. Active \in Sessions /\ Turn \in 1..Turn /\ Turn \in Nat /\ 0 \in 0..Turn
    BY <1>1
  <1>3. Deregistered \in [Sessions -> 0..Turn]
    <2>1. pending \in [Sessions -> 0..Turn]
      OBVIOUS
    <2> HIDE TypeFacts DEF TypeInv, TypeOK
    <2> QED
      BY <1>2, <2>1 DEF Deregistered
  <1>4. {} \in SUBSET Nat /\ coll.folded \in SUBSET Nat
    BY DEF Collector
  <1>5. CASE SendOpen
    <2>1. /\ reply' \in Reply /\ stage' \in Stages /\ Queue(ready', Turn) /\ Stream(toGw', Turn)
      <3>1. CASE ws = "open"
        <4>1. toGw' = Append(toGw, Frame("open", Active, Turn))
          BY <1>5, <3>1 DEF SendOpen
        <4>2. Stream(Append(toGw, Frame("open", Active, Turn)), Turn)
          BY <1>2, StreamAppend
        <4> QED
          BY <1>1, <1>5, <3>1, <4>1, <4>2 DEF SendOpen, SentOrSuspended, Stages
      <3>2. CASE ws # "open"
        <4>1. EndTurn("raised", {}) /\ toGw' = toGw
          BY <1>5, <3>2 DEF SendOpen
        <4>2. reply' \in Reply /\ stage' = "none" /\ Queue(ready', Turn)
          BY <1>1, <1>4, <4>1, TypeEndTurn
        <4> QED
          BY <4>1, <4>2 DEF Stages
      <3> QED
        BY <3>1, <3>2
    <2> QED
      BY <1>1, <1>2, <1>5, <2>1, SMTT(30)
         DEF SendOpen, Queue, Stream, replVars, collVars, connVars, gwVars
  <1>6. CASE SendText
    <2>1. /\ reply' \in Reply /\ stage' \in Stages /\ Queue(ready', Turn) /\ Stream(toGw', Turn)
      <3>1. CASE ws = "open"
        <4>1. toGw' = Append(toGw, Frame("text", Active, Turn))
          BY <1>6, <3>1 DEF SendText
        <4>2. Stream(Append(toGw, Frame("text", Active, Turn)), Turn)
          BY <1>2, StreamAppend
        <4> QED
          BY <1>1, <1>6, <3>1, <4>1, <4>2 DEF SendText, SentOrSuspended, Stages
      <3>2. CASE ws # "open"
        <4>1. EndTurn("raised", {}) /\ toGw' = toGw
          BY <1>6, <3>2 DEF SendText
        <4>2. reply' \in Reply /\ stage' = "none" /\ Queue(ready', Turn)
          BY <1>1, <1>4, <4>1, TypeEndTurn
        <4> QED
          BY <4>1, <4>2 DEF Stages
      <3> QED
        BY <3>1, <3>2
    <2>2. pending' \in [Sessions -> 0..Turn] /\ coll' \in Collector /\ opened' \subseteq Sessions
      <3>1. coll' \in Collector
        BY <1>6 DEF SendText, NewCollector, EmptyCollector, Collector
      <3>2. opened' \subseteq Sessions
        BY <1>2, <1>6 DEF SendText, MarkOpened
      <3>3. [pending EXCEPT ![Active] = Turn] \in [Sessions -> 0..Turn]
        <4>1. pending \in [Sessions -> 0..Turn] /\ Turn \in 0..Turn
          BY <1>2
        <4> HIDE TypeFacts DEF TypeInv, TypeOK
        <4> QED
          BY <4>1
      <3>4. pending' \in [Sessions -> 0..Turn]
        BY <1>3, <1>6, <3>3 DEF SendText
      <3> QED
        BY <3>1, <3>2, <3>4
    <2>3. /\ UNCHANGED <<pc, turns, handler, interrupted, presses, future, listener, ws>>
          /\ UNCHANGED <<toClient, gwOpen, gwTurn>>
      BY <1>6, SMTT(30) DEF SendText, replVars, connVars, gwVars
    <2>4. Turn' # 0
      BY <1>1, <1>2
    <2>5. Queue(ready', Turn') /\ Stream(toGw', Turn') /\ pending' \in [Sessions -> 0..Turn']
      BY <1>1, <2>1, <2>2
    <2>6. /\ handler' \in 0..Turn' /\ interrupted' \subseteq 1..Turn' /\ gwTurn' \in 0..Turn'
          /\ presses' \in 0..MaxPresses /\ turns' \in Seq(Sessions)
      BY <1>1, <2>3
    <2> QED
      BY <2>1, <2>2, <2>3, <2>4, <2>5, <2>6 DEF Queue, Stream
  <1>7. CASE TextSendFailed
    <2>1. reply' \in Reply /\ stage' \in Stages /\ Queue(ready', Turn)
      BY <1>1, <1>4, <1>7, TypeEndTurn DEF TextSendFailed, Stages
    <2> QED
      BY <1>1, <1>2, <1>3, <1>7, <2>1, SMTT(30) DEF TextSendFailed, Queue, replVars, connVars, gwVars
  <1>8. CASE AwaitDone
    BY <1>1, <1>2, <1>8, SMTT(30)
       DEF AwaitDone, Stages, Queue, replVars, collVars, connVars, gwVars
  <1>9. CASE TurnDone
    <2>1. reply' \in Reply /\ stage' \in Stages /\ Queue(ready', Turn)
      BY <1>1, <1>4, <1>9, TypeEndTurn DEF TurnDone, Stages
    <2> QED
      BY <1>1, <1>2, <1>3, <1>9, <2>1, SMTT(30) DEF TurnDone, Queue, replVars, connVars, gwVars
  <1> QED
    BY <1>5, <1>6, <1>7, <1>8, <1>9

\* Ctrl-C on the loop.
LEMMA TypeSigint == ASSUME TypeInv, RunPipe \/ RunSigint \/ RunInterrupt PROVE TypeInv'
  <1> USE TypeFacts DEF TypeInv, TypeOK
  <1> DEFINE c == Head(ready)
  <1>1. /\ Turn' = Turn /\ Queue(Tail(ready), Turn) /\ c \in Callback
        /\ (c.cb \in {"sigint", "intr"} => c.owner \in 1..Turn)
    BY TypeRun DEF RunPipe, RunSigint, RunInterrupt, Running, replVars, Turn
  <1>2. CASE RunPipe
    <2>1. ASSUME handler # 0
          PROVE  Queue(Append(Tail(ready), [cb |-> "sigint", owner |-> handler, pressed |-> c.pressed]),
                       Turn)
      <3>1. [cb |-> "sigint", owner |-> handler, pressed |-> c.pressed] \in Callback
        BY <1>1 DEF Callback
      <3> QED
        BY <1>1, <2>1, <3>1, QueueAppend
    <2>2. Queue(ready', Turn)
      BY <1>1, <1>2, <2>1 DEF RunPipe
    <2> QED
      BY <1>1, <1>2, <2>2, SMTT(30) DEF RunPipe, Queue, replVars, turnVars, collVars, connVars, gwVars
  <1>3. CASE RunSigint
    <2>1. c.owner \in 1..Turn
      BY <1>1, <1>3 DEF RunSigint, Running
    <2>2. Queue(Append(Tail(ready), [c EXCEPT !.cb = "intr"]), Turn)
      <3>1. [c EXCEPT !.cb = "intr"] \in Callback /\ [c EXCEPT !.cb = "intr"].owner = c.owner
        BY <1>1 DEF Callback
      <3> QED
        BY <1>1, <2>1, <3>1, QueueAppend
    <2>3. Queue(ready', Turn) /\ interrupted' \subseteq 1..Turn
      BY <1>1, <1>3, <2>1, <2>2 DEF RunSigint
    <2> QED
      BY <1>1, <1>3, <2>3, ZenonT(30) DEF RunSigint, Queue, turnVars, collVars, connVars, gwVars
  <1>4. CASE RunInterrupt
    <2>1. turns[c.owner] \in Sessions /\ c.pressed \in Nat
      BY <1>1, <1>4 DEF RunInterrupt, Running, Callback
    <2>2. Stream(Append(toGw, Frame("interrupt", turns[c.owner], c.pressed)), Turn)
      BY <2>1, StreamAppend
    <2>3. Stream(toGw', Turn) /\ Queue(ready', Turn)
      BY <1>1, <1>4, <2>2 DEF RunInterrupt
    <2> QED
      BY <1>1, <1>4, <2>3, ZenonT(30) DEF RunInterrupt, Queue, Stream, replVars, turnVars, collVars, connVars, gwVars
  <1> QED
    BY <1>2, <1>3, <1>4

\* The listener task.
LEMMA TypeListen == ASSUME TypeInv, ListenFrame \/ ListenEnd PROVE TypeInv'
  <1> USE TypeFacts DEF TypeInv, TypeOK
  <1>1. /\ Turn' = Turn /\ Queue(Tail(ready), Turn) /\ Queue(ready, Turn)
    BY TypeRun DEF ListenFrame, ListenEnd, Running, replVars, Turn
  <1>2. ASSUME NEW q, Queue(q, Turn)
        PROVE  Queue(WakeTurn(q), Turn) /\ Queue(Append(q, Wake("main")), Turn)
    BY <1>2, QueueWake DEF WakeTurn
  <1>3. toClient # <<>> => /\ Tail(toClient) \in Seq(ToClientFrame)
                           /\ Head(toClient) \in ToClientFrame
    BY TailElements
  <1>4. CASE ListenFrame
    <2> DEFINE f == Head(toClient)
    <2>1. PICK rest \in Rest :
            \/ /\ coll' = Fold(coll, f) /\ UNCHANGED future
               /\ ready' = WakeTurn(rest) \/ ready' = rest
            \/ /\ future' = "done" /\ UNCHANGED coll /\ ready' = Append(rest, Wake("main"))
            \/ ready' = rest /\ UNCHANGED <<coll, future>>
      BY <1>4 DEF ListenFrame
    <2>2. Queue(rest, Turn)
      BY <1>1, <2>1 DEF Rest
    <2>3. Queue(ready', Turn)
      BY <1>2, <2>1, <2>2
    <2>4. coll' \in Collector /\ future' \in {"none", "waiting", "done"}
      <3>1. Fold(coll, f) \in Collector
        BY <1>3, <1>4 DEF ListenFrame, Fold, Collector, ToClientFrame
      <3> QED
        BY <2>1, <3>1
    <2>5. toClient' \in Seq(ToClientFrame)
      BY <1>3, <1>4 DEF ListenFrame
    <2> QED
      BY <1>1, <1>4, <2>3, <2>4, <2>5, SMTT(30) DEF ListenFrame, Queue, replVars, turnVars, gwVars
  <1>5. CASE ListenEnd
    <2>1. /\ Queue(ready', Turn) /\ listener' = "ended"
          /\ future' \in {"none", "waiting", "done"}
      BY <1>1, <1>2, <1>5 DEF ListenEnd, ReleaseWaiters
    <2>2. coll' \in Collector
      BY <1>5 DEF ListenEnd, ReleaseWaiters, Collector
    <2>3. toClient' \in Seq(ToClientFrame)
      BY <1>3, <1>5 DEF ListenEnd
    <2> QED
      BY <1>1, <1>5, <2>1, <2>2, <2>3, SMTT(30) DEF ListenEnd, Queue, replVars, turnVars, gwVars
  <1> QED
    BY <1>4, <1>5

\* The gateway and the network.
LEMMA TypeGateway == ASSUME TypeInv, Gateway PROVE TypeInv'
  <1> USE TypeFacts DEF TypeInv, TypeOK
  <1>1. Turn' = Turn
    BY DEF Gateway, GwReceive, GwProgress, GwFinish, GwMalformed, ConnectionLost, replVars, Turn
  <1>2. gwTurn # 0 => turns[gwTurn] \in Sessions /\ gwTurn \in Nat
    OBVIOUS
  <1>3. CASE GwReceive
    <2>1. /\ Stream(Tail(toGw), Turn) /\ Head(toGw) \in ToGwFrame
          /\ (Head(toGw).kind = "text" => Head(toGw).turn \in 1..Turn)
      BY <1>3, StreamTail DEF GwReceive
    <2>2. Head(toGw).sid \in Sessions
      BY <2>1 DEF ToGwFrame
    <2>3. toClient' \in Seq(ToClientFrame)
      <3>1. \/ UNCHANGED toClient
            \/ gwTurn # 0 /\ Emit("turn_complete", Head(toGw).sid, gwTurn)
            \/ Emit("command_result", Head(toGw).sid, 0)
        BY <1>3 DEF GwReceive
      <3> QED
        BY <1>2, <2>2, <3>1, Emitted DEF ChatKinds
    <2>4. gwOpen' \subseteq Sessions /\ gwTurn' \in 0..Turn
      <3>1. gwOpen' = gwOpen \/ gwOpen' = gwOpen \cup {Head(toGw).sid}
        BY <1>3 DEF GwReceive
      <3>2. \/ gwTurn' = gwTurn \/ gwTurn' = 0
            \/ Head(toGw).kind = "text" /\ gwTurn' = Head(toGw).turn
        BY <1>3 DEF GwReceive
      <3>3. gwOpen \subseteq Sessions /\ gwTurn \in 0..Turn /\ Turn \in Nat
        OBVIOUS
      <3> HIDE DEF TypeInv, TypeOK
      <3> QED
        BY <2>1, <2>2, <3>1, <3>2, <3>3
    <2>5. Stream(toGw', Turn)
      BY <1>3, <2>1 DEF GwReceive
    <2> QED
      BY <1>1, <1>3, <2>3, <2>4, <2>5, SMTT(30)
         DEF GwReceive, Stream, replVars, turnVars, collVars, connVars
  <1>4. CASE GwProgress
    <2>1. toClient' \in Seq(ToClientFrame)
      BY <1>2, <1>4, Emitted DEF GwProgress, ChatKinds
    <2> QED
      BY <1>1, <1>4, <2>1, SMTT(30) DEF GwProgress, replVars, turnVars, collVars, connVars, gwVars
  <1>5. CASE GwFinish
    <2>1. toClient' \in Seq(ToClientFrame)
      BY <1>2, <1>5, Emitted DEF GwFinish, Terminal, ChatKinds
    <2> QED
      BY <1>1, <1>5, <2>1, SMTT(30) DEF GwFinish, replVars, turnVars, collVars, connVars
  <1>6. CASE GwMalformed
    <2>1. toClient' \in Seq(ToClientFrame)
      BY <1>6, Emitted DEF GwMalformed
    <2> QED
      BY <1>1, <1>6, <2>1, SMTT(30) DEF GwMalformed, replVars, turnVars, collVars, connVars, gwVars
  <1>7. CASE ConnectionLost
    <2>1. toClient' \in Seq(ToClientFrame)
      BY <1>7 DEF ConnectionLost
    <2>2. Stream(<<>>, Turn)
      BY DEF Stream
    <2> QED
      BY <1>1, <1>7, <2>1, <2>2, SMTT(30) DEF ConnectionLost, replVars, turnVars, collVars
  <1> QED
    BY <1>3, <1>4, <1>5, <1>6, <1>7 DEF Gateway

\* Every step keeps the type invariant.
LEMMA TypeStep == ASSUME TypeInv, [Next]_vars PROVE TypeInv'
  <1>1. CASE Next
    BY <1>1, TypeUser, TypeRepl, TypeTurn, TypeSigint, TypeListen, TypeGateway DEF Next, Loop
  <1>2. CASE UNCHANGED vars
    BY <1>2 DEF vars, TypeInv, TypeOK, Turn, Stream
  <1> QED
    BY <1>1, <1>2

\* In every state of every chat each variable has its type: the session of
\* every callback, frame and registered turn is one the user has spoken in.
THEOREM TypeCorrect == Spec => []TypeOK
  <1>1. Init => TypeInv
    BY BoundsAssumption
       DEF Init, TypeInv, TypeOK, Turn, Stream, Places, Stages, EmptyCollector, Collector, Reply
  <1>2. TypeInv /\ [Next]_vars => TypeInv'
    BY TypeStep
  <1>3. TypeInv => TypeOK
    BY DEF TypeInv
  <1> QED
    BY <1>1, <1>2, <1>3, PTL DEF Spec

-----------------------------------------------------------------------------
(* No collector outlives its turn.  NoCollectorLeft is not inductive: that  *)
(* the REPL goes back to its prompt only after send_message is over depends *)
(* on its being woken once, and by whoever it waits for.                    *)

NoMain(q)  == \A i \in DOMAIN q : q[i].cb # "main"
OneMain(q) == \A i, j \in DOMAIN q : q[i].cb = "main" /\ q[j].cb = "main" => i = j

\* The REPL coroutine is woken at most once, and only when what it awaits is there.
WokenOnce ==
  /\ OneMain(ready)
  /\ \/ NoMain(ready)
     \/ pc = "title"
     \/ pc = "turn" /\ stage = "none"
     \/ pc = "command" /\ future = "done"

ReplInv ==
  /\ WokenOnce
  /\ future # "none" <=> pc = "command"
  /\ stage # "none" => pc = "turn"
  /\ NoCollectorLeft

\* Callbacks that wake somebody else leave the wake-ups of the REPL alone.
LEMMA MainAppend ==
  ASSUME NEW q \in Seq(Callback), NEW c \in Callback
  PROVE  /\ Append(q, c) \in Seq(Callback)
         /\ c.cb # "main" => /\ NoMain(q) => NoMain(Append(q, c))
                             /\ OneMain(q) => OneMain(Append(q, c))
         /\ NoMain(q) => OneMain(Append(q, c))
  <1>1. /\ Append(q, c) \in Seq(Callback) /\ Len(q) \in Nat /\ DOMAIN q = 1..Len(q)
        /\ \A i \in DOMAIN Append(q, c) :
             \/ i \in DOMAIN q /\ Append(q, c)[i] = q[i]
             \/ i = Len(q) + 1 /\ Append(q, c)[i] = c
    BY AppendElements
  <1> QED
    BY <1>1 DEF NoMain, OneMain

\* Waking a task other than the REPL, and waking the REPL.
LEMMA MainWake ==
  ASSUME NEW q \in Seq(Callback)
  PROVE  /\ \A k \in {"turn", "listen"} :
              /\ Append(q, Wake(k)) \in Seq(Callback)
              /\ NoMain(q) => NoMain(Append(q, Wake(k)))
              /\ OneMain(q) => OneMain(Append(q, Wake(k)))
         /\ Append(q, Wake("main")) \in Seq(Callback)
         /\ NoMain(q) => OneMain(Append(q, Wake("main")))
  <1>1. \A k \in {"main", "turn", "listen"} : Wake(k) \in Callback /\ Wake(k).cb = k
    BY DEF Wake, Callback
  <1> QED
    BY <1>1, MainAppend

\* Running the first callback: if it was the one that wakes the REPL, no other is left.
LEMMA MainTail ==
  ASSUME NEW q \in Seq(Callback), q # <<>>
  PROVE  /\ Tail(q) \in Seq(Callback)
         /\ NoMain(q) => NoMain(Tail(q)) /\ Head(q).cb # "main"
         /\ OneMain(q) => OneMain(Tail(q))
         /\ OneMain(q) /\ Head(q).cb = "main" => NoMain(Tail(q))
  <1>1. /\ Tail(q) \in Seq(Callback) /\ Head(q) = q[1] /\ Len(q) >= 1
        /\ DOMAIN q = 1..Len(q) /\ Len(q) \in Nat /\ DOMAIN Tail(q) \subseteq Nat \ {0}
        /\ \A i \in DOMAIN Tail(q) : i + 1 \in DOMAIN q /\ Tail(q)[i] = q[i + 1]
    BY TailElements
  <1> QED
    BY <1>1 DEF NoMain, OneMain

\* Steps that leave the turn's collector, the REPL's place and what it waits for alone
\* keep the invariant when they schedule no second wake-up of the REPL.
LEMMA ReplFrame ==
  ASSUME TypeInv, ReplInv, UNCHANGED <<pc, turns, stage, pending, future>>,
         OneMain(ready'), NoMain(ready) => NoMain(ready')
  PROVE  ReplInv'
  BY DEF ReplInv, WokenOnce, NoCollectorLeft, Turn, Active

\* The steps of the user: none of them is taken during a turn but Ctrl-C.
LEMMA ReplUser == ASSUME TypeInv, ReplInv, User PROVE ReplInv'
  <1>1. ready \in Seq(Callback) /\ NoMain(<<>>) /\ OneMain(<<>>)
    BY DEF TypeInv, TypeOK, NoMain, OneMain
  <1>2. ASSUME NEW s \in Sessions, UserMessage(s) PROVE ReplInv'
    <2>1. pc = "prompt" /\ NoMain(ready) /\ stage = "none" /\ \A x \in Sessions : pending[x] = 0
      BY <1>2 DEF UserMessage, ReplInv, WokenOnce, NoCollectorLeft
    <2>2. NoMain(ready') /\ OneMain(ready')
      BY <1>1, <1>2, <2>1, MainWake DEF UserMessage, StartTurn, OneMain, NoMain
    <2>3. /\ pc' \in {"turn", "title"} /\ (stage' # "none" => pc' = "turn")
          /\ UNCHANGED <<pending, future>>
      BY <1>2, <2>1 DEF UserMessage, StartTurn, collVars, connVars
    <2> QED
      BY <2>1, <2>2, <2>3 DEF ReplInv, WokenOnce, NoCollectorLeft
  <1>3. ASSUME NEW s \in Sessions, UserCommand(s) PROVE ReplInv'
    BY <1>3 DEF UserCommand, turnVars, collVars, ReplInv, WokenOnce, NoCollectorLeft
  <1>4. ASSUME NEW s \in Sessions, UserStop(s) PROVE ReplInv'
    BY <1>4, ReplFrame DEF UserStop, replVars, turnVars, collVars, connVars, ReplInv, WokenOnce
  <1>5. CASE UserQuit
    BY <1>1, <1>5 DEF UserQuit, ReplInv, WokenOnce, NoCollectorLeft
  <1>6. CASE UserAbort
    BY <1>1, <1>6 DEF UserAbort, turnVars, collVars, ReplInv, WokenOnce, NoCollectorLeft
  <1>7. CASE PressCtrlC
    <2>1. [cb |-> "pipe", owner |-> 0, pressed |-> Turn] \in Callback
      BY TypeFacts DEF Callback
    <2>2. OneMain(ready') /\ (NoMain(ready) => NoMain(ready'))
      BY <1>1, <1>7, <2>1, MainAppend DEF PressCtrlC, ReplInv, WokenOnce
    <2> QED
      BY <1>7, <2>2, ReplFrame DEF PressCtrlC, turnVars, collVars, connVars
  <1> QED
    BY <1>2, <1>3, <1>4, <1>5, <1>6, <1>7 DEF User

\* The REPL coroutine and what makes tasks ready again.
LEMMA ReplRepl ==
  ASSUME TypeInv, ReplInv, RunMain \/ HttpAnswered \/ Drained \/ Readable
  PROVE  ReplInv'
  <1>1. ready \in Seq(Callback) /\ OneMain(ready)
    BY DEF TypeInv, TypeOK, ReplInv, WokenOnce
  <1>2. CASE RunMain
    <2>1. /\ NoMain(Tail(ready)) /\ Tail(ready) \in Seq(Callback)
          /\ pc = "title" \/ (pc = "turn" /\ stage = "none") \/ pc = "command"
      BY <1>1, <1>2, MainTail DEF RunMain, Running, LoopRuns, ReplInv, WokenOnce
    <2>2. stage = "none" /\ \A x \in Sessions : pending[x] = 0
      BY <2>1 DEF ReplInv, NoCollectorLeft
    <2>3. NoMain(ready') /\ OneMain(ready') /\ UNCHANGED pending
      BY <1>2, <2>1, MainWake DEF RunMain, StartTurn, collVars, OneMain, NoMain
    <2>4. (future' # "none" <=> pc' = "command") /\ (stage' # "none" => pc' = "turn")
      BY <1>2, <2>2 DEF RunMain, StartTurn, ReplInv
    <2> QED
      BY <2>2, <2>3, <2>4 DEF ReplInv, WokenOnce, NoCollectorLeft
  <1>3. CASE HttpAnswered
    <2>1. NoMain(ready)
      BY <1>3 DEF HttpAnswered, Scheduled, NoMain
    <2>2. OneMain(ready') /\ pc' = "title" /\ UNCHANGED <<pc, turns, stage, pending, future>>
      BY <1>1, <1>3, <2>1, MainWake DEF HttpAnswered, replVars, turnVars, collVars, connVars
    <2> QED
      BY <2>2 DEF ReplInv, WokenOnce, NoCollectorLeft, Turn, Active
  <1>4. CASE Drained \/ Readable
    <2>1. /\ UNCHANGED <<pc, turns, stage, pending, future>>
          /\ OneMain(ready') /\ (NoMain(ready) => NoMain(ready'))
      BY <1>1, <1>4, MainWake
         DEF Drained, Readable, replVars, turnVars, collVars, connVars
    <2> QED
      BY <2>1, ReplFrame
  <1> QED
    BY <1>2, <1>3, <1>4

\* The send_message task: it wakes the REPL when it is over, with its collector removed.
LEMMA ReplTurn ==
  ASSUME TypeInv, ReplInv, SendOpen \/ SendText \/ TextSendFailed \/ AwaitDone \/ TurnDone
  PROVE  ReplInv'
  <1>1. /\ LoopRuns /\ Running("turn") /\ stage # "none"
        /\ UNCHANGED <<pc, turns, future>>
    BY DEF SendOpen, SendText, TextSendFailed, AwaitDone, TurnDone, Running, replVars, connVars
  <1>2. pc = "turn" /\ NoMain(ready) /\ OneMain(ready) /\ future = "none"
    BY <1>1 DEF ReplInv, WokenOnce
  <1>3. NoMain(Tail(ready)) /\ Tail(ready) \in Seq(Callback) /\ OneMain(Tail(ready))
    BY <1>1, <1>2, MainTail DEF LoopRuns, TypeInv, TypeOK
  <1>4. ASSUME NEW k, NEW fs, EndTurn(k, fs)
        PROVE  stage' = "none" /\ OneMain(ready')
    BY <1>3, <1>4, MainWake DEF EndTurn
  <1>5. \A x \in Sessions : x # Active => pending[x] = 0
    BY DEF ReplInv, NoCollectorLeft
  <1>6. pending \in [Sessions -> Nat] /\ Active \in Sessions /\ Turn' = Turn /\ Active' = Active
    BY <1>1, <1>2, TypeFacts DEF TypeInv, TypeOK, Turn, Active
  <1>7. \A x \in Sessions : Deregistered[x] = 0
    BY <1>5, <1>6 DEF Deregistered
  <1>8. CASE SendOpen
    <2>1. \A x \in Sessions : pending'[x] = 0
      BY <1>8 DEF SendOpen, collVars, ReplInv, NoCollectorLeft
    <2>2. \/ stage' = "opening" /\ NoMain(ready') /\ OneMain(ready')
          \/ stage' = "none" /\ OneMain(ready')
      BY <1>2, <1>3, <1>4, <1>8 DEF SendOpen, SentOrSuspended
    <2> QED
      BY <1>1, <1>2, <2>1, <2>2 DEF ReplInv, WokenOnce, NoCollectorLeft
  <1>9. CASE SendText
    <2>1. CASE ws = "open"
      <3>1. stage' = "sent" /\ NoMain(ready') /\ OneMain(ready')
        BY <1>2, <1>3, <1>9, <2>1 DEF SendText, SentOrSuspended
      <3>2. \A x \in Sessions : pending'[x] # 0 => x = Active /\ pending'[x] = Turn
        BY <1>5, <1>6, <1>9, <2>1 DEF SendText
      <3> QED
        BY <1>1, <1>2, <1>6, <3>1, <3>2 DEF ReplInv, WokenOnce, NoCollectorLeft
    <2>2. CASE ws # "open"
      <3>1. stage' = "none" /\ OneMain(ready') /\ pending' = Deregistered
        BY <1>4, <1>9, <2>2 DEF SendText
      <3> QED
        BY <1>1, <1>2, <1>7, <3>1 DEF ReplInv, WokenOnce, NoCollectorLeft
    <2> QED
      BY <2>1, <2>2
  <1>10. CASE AwaitDone
    BY <1>1, <1>2, <1>3, <1>6, <1>10
       DEF AwaitDone, collVars, ReplInv, WokenOnce, NoCollectorLeft
  <1>11. CASE TextSendFailed \/ TurnDone
    <2>1. stage' = "none" /\ OneMain(ready') /\ pending' = Deregistered
      BY <1>4, <1>11 DEF TextSendFailed, TurnDone
    <2> QED
      BY <1>1, <1>2, <1>7, <2>1 DEF ReplInv, WokenOnce, NoCollectorLeft
  <1> QED
    BY <1>8, <1>9, <1>10, <1>11

\* Ctrl-C on the loop wakes nobody.
LEMMA ReplSigint ==
  ASSUME TypeInv, ReplInv, RunPipe \/ RunSigint \/ RunInterrupt PROVE ReplInv'
  <1>1. /\ ready # <<>> /\ ready \in Seq(Callback) /\ OneMain(ready) /\ Head(ready) \in Callback
        /\ UNCHANGED <<pc, turns, stage, pending, future>>
    BY TypeRun DEF RunPipe, RunSigint, RunInterrupt, Running, LoopRuns, TypeInv, TypeOK, ReplInv,
                   WokenOnce, replVars, turnVars, collVars, connVars
  <1>2. \/ ready' = Tail(ready)
        \/ \E c \in Callback : c.cb # "main" /\ ready' = Append(Tail(ready), c)
    <2>1. CASE RunPipe
      <3>1. [cb |-> "sigint", owner |-> handler, pressed |-> Head(ready).pressed] \in Callback
        BY <1>1 DEF Callback, TypeInv, TypeOK, Turn
      <3> QED
        BY <2>1, <3>1 DEF RunPipe
    <2>2. CASE RunSigint
      <3>1. [Head(ready) EXCEPT !.cb = "intr"] \in Callback
            /\ [Head(ready) EXCEPT !.cb = "intr"].cb = "intr"
        BY <1>1 DEF Callback
      <3> QED
        BY <2>2, <3>1 DEF RunSigint
    <2>3. CASE RunInterrupt
      BY <2>3 DEF RunInterrupt
    <2> QED
      BY <2>1, <2>2, <2>3
  <1>3. OneMain(ready') /\ (NoMain(ready) => NoMain(ready'))
    BY <1>1, <1>2, MainTail, MainAppend
  <1> QED
    BY <1>1, <1>3, ReplFrame

\* The listener wakes the REPL only by completing the command it waits for.
LEMMA ReplListen == ASSUME TypeInv, ReplInv, ListenFrame \/ ListenEnd PROVE ReplInv'
  <1>1. /\ ready # <<>> /\ ready \in Seq(Callback) /\ OneMain(ready)
        /\ UNCHANGED <<pc, turns, stage, pending>>
    BY DEF ListenFrame, ListenEnd, Running, LoopRuns, TypeInv, TypeOK, ReplInv, WokenOnce,
           replVars, turnVars
  <1>2. ASSUME NEW q \in {ready, Tail(ready)}
        PROVE  /\ q \in Seq(Callback) /\ OneMain(q) /\ (NoMain(ready) => NoMain(q))
               /\ WakeTurn(q) \in Seq(Callback) /\ OneMain(WakeTurn(q))
               /\ NoMain(ready) => NoMain(WakeTurn(q))
    BY <1>1, MainTail, MainWake DEF WakeTurn
  <1>3. future = "waiting" => pc = "command" /\ NoMain(ready)
    BY DEF ReplInv, WokenOnce
  <1>4. CASE UNCHANGED future /\ \E q \in {ready, Tail(ready)} : ready' \in {q, WakeTurn(q)}
    BY <1>1, <1>2, <1>4, ReplFrame
  <1>5. ASSUME future = "waiting", future' = "done",
               NEW q \in {ready, Tail(ready)}, NEW r \in {q, WakeTurn(q)},
               ready' = Append(r, Wake("main"))
        PROVE  ReplInv'
    <2>1. OneMain(ready')
      BY <1>2, <1>3, <1>5, MainWake
    <2> QED
      BY <1>1, <1>3, <1>5, <2>1 DEF ReplInv, WokenOnce, NoCollectorLeft, Turn, Active
  <1>6. CASE ListenFrame
    BY <1>4, <1>5, <1>6 DEF ListenFrame, Rest
  <1>7. CASE ListenEnd
    BY <1>4, <1>5, <1>7 DEF ListenEnd, ReleaseWaiters
  <1> QED
    BY <1>6, <1>7

\* The REPL's invariant holds.
LEMMA ReplStep ==
  ASSUME TypeInv, ReplInv, [Next]_vars PROVE TypeInv' /\ ReplInv'
  <1>1. CASE Gateway
    BY <1>1, TypeStep, ReplFrame
       DEF Gateway, GwReceive, GwProgress, GwFinish, GwMalformed, ConnectionLost, replVars,
           turnVars, collVars, connVars, ReplInv, WokenOnce
  <1>2. CASE UNCHANGED vars
    BY <1>2, TypeStep DEF vars, ReplInv, WokenOnce, NoCollectorLeft, Turn, Active
  <1> QED
    BY <1>1, <1>2, TypeStep, ReplUser, ReplRepl, ReplTurn, ReplSigint, ReplListen DEF Next, Loop

\* And it holds to begin with.
LEMMA ReplInit == Init => TypeInv /\ ReplInv
  BY BoundsAssumption
     DEF Init, TypeInv, TypeOK, Turn, Stream, Places, Stages, EmptyCollector, Collector, Reply,
         ReplInv, WokenOnce, NoMain, OneMain, NoCollectorLeft

\* A collector is registered only while the turn it was made for is sent or awaited,
\* and under that turn's session: send_message removes it on every way out.
THEOREM CollectorsAreRemoved == Spec => []NoCollectorLeft
  <1>1. ReplInv => NoCollectorLeft
    BY DEF ReplInv
  <1> QED
    BY <1>1, ReplInit, ReplStep, PTL DEF Spec

-----------------------------------------------------------------------------
(* What is in flight is of the current turn.                                *)

\* The listener is woken at most once, and not after its end.
NoListen(q)  == \A i \in DOMAIN q : q[i].cb # "listen"
OneListen(q) == \A i, j \in DOMAIN q : q[i].cb = "listen" /\ q[j].cb = "listen" => i = j
ListenOnce   == OneListen(ready) /\ (listener = "ended" => NoListen(ready))

IsText(f) == f.kind = "text"
IsChat(f) == f.kind \in ChatKinds
IsEnd(f)  == f.kind \in Terminal
NoText(q) == \A i \in DOMAIN q : ~IsText(q[i])
NoChat(q) == \A i \in DOMAIN q : ~IsChat(q[i])
NoEnd(q)  == \A i \in DOMAIN q : ~IsEnd(q[i])

\* At most one text, of turn t.
Texts(q, t) ==
  /\ \A i, j \in DOMAIN q : IsText(q[i]) /\ IsText(q[j]) => i = j
  /\ \A i \in DOMAIN q : IsText(q[i]) => q[i].turn = t

\* Chat frames of turn t of session s, nothing after a terminal one.
Frames(q, t, s) ==
  /\ \A i \in DOMAIN q : IsChat(q[i]) => q[i].turn = t /\ q[i].sid = s
  /\ \A i, j \in DOMAIN q : IsEnd(q[i]) /\ IsChat(q[j]) => j <= i

\* Something of a turn is on its way to the gateway, at work there, or on its way back.
InFlight == ~NoText(toGw) \/ gwTurn # 0 \/ ~NoChat(toClient)

Waits  == pc = "turn" /\ stage \in {"sent", "waiting"}
Raised == pc = "turn" /\ stage = "none" /\ reply.kind = "raised"

\* The current turn, and no other, passes from one place to the next: its text, its
\* execution, and its frames, the last of which is a terminal one.
OneFlight ==
  /\ Texts(toGw, Turn) /\ gwTurn \in {0, Turn} /\ Frames(toClient, Turn, Active)
  /\ NoText(toGw) \/ (gwTurn = 0 /\ NoChat(toClient))
  /\ gwTurn = 0 \/ NoEnd(toClient)

OwnInv ==
  /\ ListenOnce
  /\ ReplyIsOwn
  /\ pc = "turn" /\ stage = "none" => reply.turn = Turn
  /\ Waits => coll.folded \subseteq {Turn} /\ pending[Active] = Turn
  /\ listener = "running" /\ pc # "gone" =>
       OneFlight /\ (InFlight => Raised \/ (Waits /\ ~coll.done))

\* Callbacks that wake somebody else leave the wake-up of the listener alone.
LEMMA ListenAppend ==
  ASSUME NEW q \in Seq(Callback), NEW c \in Callback
  PROVE  /\ Append(q, c) \in Seq(Callback)
         /\ c.cb # "listen" => /\ NoListen(q) => NoListen(Append(q, c))
                               /\ OneListen(q) => OneListen(Append(q, c))
         /\ NoListen(q) => OneListen(Append(q, c))
  <1>1. /\ Append(q, c) \in Seq(Callback) /\ Len(q) \in Nat /\ DOMAIN q = 1..Len(q)
        /\ \A i \in DOMAIN Append(q, c) :
             \/ i \in DOMAIN q /\ Append(q, c)[i] = q[i]
             \/ i = Len(q) + 1 /\ Append(q, c)[i] = c
    BY AppendElements
  <1> QED
    BY <1>1 DEF NoListen, OneListen

\* Running the first callback: if it was the listener's, no other is left.
LEMMA ListenTail ==
  ASSUME NEW q \in Seq(Callback), q # <<>>
  PROVE  /\ Tail(q) \in Seq(Callback)
         /\ NoListen(q) => NoListen(Tail(q)) /\ Head(q).cb # "listen"
         /\ OneListen(q) => OneListen(Tail(q))
         /\ OneListen(q) /\ Head(q).cb = "listen" => NoListen(Tail(q))
  <1>1. /\ Tail(q) \in Seq(Callback) /\ Head(q) = q[1] /\ Len(q) >= 1
        /\ DOMAIN q = 1..Len(q) /\ Len(q) \in Nat /\ DOMAIN Tail(q) \subseteq Nat \ {0}
        /\ \A i \in DOMAIN Tail(q) : i + 1 \in DOMAIN q /\ Tail(q)[i] = q[i + 1]
    BY TailElements
  <1> QED
    BY <1>1 DEF NoListen, OneListen

\* A queue that holds no more of the listener's callbacks than the one of this state.
NoMore(q) == /\ q \in Seq(Callback)
             /\ OneListen(ready) => OneListen(q)
             /\ NoListen(ready) => NoListen(q)

\* How the steps make such queues: they take the first callback and schedule others.
LEMMA NoMoreMade ==
  ASSUME TypeInv
  PROVE  /\ NoMore(ready) /\ NoMore(<<>>) /\ (ready # <<>> => NoMore(Tail(ready)))
         /\ \A q, c : NoMore(q) /\ c \in Callback /\ c.cb # "listen" => NoMore(Append(q, c))
         /\ \A q, k : NoMore(q) /\ k \in {"main", "turn"} => NoMore(Append(q, Wake(k)))
         /\ \A q : NoMore(q) => NoMore(WakeTurn(q))
  <1>1. ready \in Seq(Callback)
    BY DEF TypeInv, TypeOK
  <1>2. NoMore(ready) /\ (ready # <<>> => NoMore(Tail(ready)))
    BY <1>1, ListenTail DEF NoMore
  <1>3. NoMore(<<>>)
    BY DEF NoMore, NoListen, OneListen
  <1>4. ASSUME NEW q, NEW c \in Callback, NoMore(q), c.cb # "listen" PROVE NoMore(Append(q, c))
    BY <1>4, ListenAppend DEF NoMore
  <1>5. \A k \in {"main", "turn"} : Wake(k) \in Callback /\ Wake(k).cb # "listen"
    BY DEF Wake, Callback
  <1>6. ASSUME NEW q, NEW k \in {"main", "turn"}, NoMore(q) PROVE NoMore(Append(q, Wake(k)))
    BY <1>4, <1>5, <1>6
  <1>7. ASSUME NEW q, NoMore(q) PROVE NoMore(WakeTurn(q))
    BY <1>6, <1>7 DEF WakeTurn
  <1> QED
    BY <1>2, <1>3, <1>4, <1>6, <1>7

\* The listener is woken by Readable only, when it is not on the queue yet.
LEMMA ListenStep == ASSUME TypeInv, ListenOnce, [Next]_vars PROVE ListenOnce'
  <1>1. ASSUME NoMore(ready'), UNCHANGED listener PROVE ListenOnce'
    BY <1>1 DEF ListenOnce, NoMore
  <1>2. CASE User
    <2>1. ASSUME NEW s \in Sessions, UserMessage(s) PROVE ListenOnce'
      BY <1>1, <2>1, NoMoreMade DEF UserMessage, StartTurn, connVars
    <2>2. CASE PressCtrlC
      <3>1. [cb |-> "pipe", owner |-> 0, pressed |-> Turn] \in Callback
        BY TypeFacts DEF Callback
      <3> QED
        BY <1>1, <2>2, <3>1, NoMoreMade DEF PressCtrlC, connVars
    <2>3. CASE UserQuit
      BY <2>3 DEF UserQuit, ListenOnce, OneListen, NoListen
    <2>4. CASE UserAbort
      BY <1>1, <2>4, NoMoreMade DEF UserAbort
    <2>5. ASSUME NEW s \in Sessions, UserCommand(s) \/ UserStop(s) PROVE ListenOnce'
      BY <1>1, <2>5, NoMoreMade DEF UserCommand, UserStop, connVars
    <2> QED
      BY <1>2, <2>1, <2>2, <2>3, <2>4, <2>5 DEF User
  <1>3. CASE HttpAnswered \/ Drained
    BY <1>1, <1>3, NoMoreMade DEF HttpAnswered, Drained, connVars
  <1>4. CASE Readable
    <2>1. ready \in Seq(Callback) /\ NoListen(ready) /\ Wake("listen") \in Callback
      BY <1>4 DEF Readable, Scheduled, NoListen, TypeInv, TypeOK, Wake, Callback
    <2> QED
      BY <1>4, <2>1, ListenAppend DEF Readable, ListenOnce, connVars
  <1>5. CASE RunMain
    BY <1>1, <1>5, NoMoreMade DEF RunMain, Running, LoopRuns, StartTurn
  <1>6. ASSUME NEW k, NEW fs, ready # <<>>, EndTurn(k, fs) PROVE NoMore(ready')
    BY <1>6, NoMoreMade DEF EndTurn
  <1>7. CASE SendOpen \/ SendText \/ TextSendFailed \/ AwaitDone \/ TurnDone
    <2>1. UNCHANGED listener /\ ready # <<>>
      BY <1>7 DEF SendOpen, SendText, TextSendFailed, AwaitDone, TurnDone, connVars, Running,
                  LoopRuns
    <2>2. NoMore(ready')
      BY <1>6, <1>7, <2>1, NoMoreMade
         DEF SendOpen, SendText, TextSendFailed, AwaitDone, TurnDone, SentOrSuspended
    <2> QED
      BY <1>1, <2>1, <2>2
  <1>8. CASE RunPipe \/ RunSigint \/ RunInterrupt
    <2>1. UNCHANGED listener /\ LoopRuns /\ ready # <<>> /\ Head(ready) \in Callback
      BY <1>8, TypeRun DEF RunPipe, RunSigint, RunInterrupt, connVars, Running, LoopRuns
    <2>2. [cb |-> "sigint", owner |-> handler, pressed |-> Head(ready).pressed] \in Callback
      BY <2>1 DEF Callback, TypeInv, TypeOK, Turn
    <2>3. /\ [Head(ready) EXCEPT !.cb = "intr"] \in Callback
          /\ [Head(ready) EXCEPT !.cb = "intr"].cb = "intr"
      BY <2>1 DEF Callback
    <2>4. NoMore(ready')
      BY <1>8, <2>1, <2>2, <2>3, NoMoreMade DEF RunPipe, RunSigint, RunInterrupt
    <2> QED
      BY <1>1, <2>1, <2>4
  <1>9. CASE ListenFrame
    <2>1. UNCHANGED listener /\ ready # <<>>
      BY <1>9 DEF ListenFrame, Running, LoopRuns
    <2>2. NoMore(ready')
      BY <1>9, <2>1, NoMoreMade DEF ListenFrame, Rest
    <2> QED
      BY <1>1, <2>1, <2>2
  <1>10. CASE ListenEnd
    <2>1. ready # <<>> /\ Head(ready).cb = "listen" /\ ready \in Seq(Callback)
      BY <1>10 DEF ListenEnd, Running, LoopRuns, TypeInv, TypeOK
    <2>2. NoListen(Tail(ready)) /\ Tail(ready) \in Seq(Callback)
      BY <2>1, ListenTail DEF ListenOnce
    <2>3. ASSUME NEW q \in Seq(Callback), NoListen(q), NEW k \in {"main", "turn"}
          PROVE  Append(q, Wake(k)) \in Seq(Callback) /\ NoListen(Append(q, Wake(k)))
      <3>1. Wake(k) \in Callback /\ Wake(k).cb # "listen"
        BY DEF Wake, Callback
      <3> QED
        BY <2>3, <3>1, ListenAppend
    <2>4. NoListen(ready')
      BY <1>10, <2>2, <2>3 DEF ListenEnd, ReleaseWaiters, WakeTurn
    <2> QED
      BY <2>4 DEF ListenOnce, NoListen, OneListen
  <1>11. CASE Gateway
    BY <1>1, <1>11, NoMoreMade
       DEF Gateway, GwReceive, GwProgress, GwFinish, GwMalformed, ConnectionLost, connVars
  <1>12. CASE UNCHANGED vars
    BY <1>12 DEF vars, ListenOnce
  <1> QED
    BY <1>2, <1>3, <1>4, <1>5, <1>7, <1>8, <1>9, <1>10, <1>11, <1>12 DEF Next, Loop

\* The gateway reads a frame, and the client sends one.
LEMMA TextTail ==
  ASSUME NEW q \in Seq(ToGwFrame), q # <<>>, NEW t
  PROVE  /\ Texts(q, t) => Texts(Tail(q), t)
         /\ NoText(q) => NoText(Tail(q))
         /\ Texts(q, t) /\ IsText(Head(q)) => NoText(Tail(q)) /\ Head(q).turn = t
  <1>1. /\ Head(q) = q[1] /\ 1 \in DOMAIN q /\ DOMAIN Tail(q) \subseteq Nat \ {0}
        /\ \A i \in DOMAIN Tail(q) : i + 1 \in DOMAIN q /\ Tail(q)[i] = q[i + 1]
    BY TailElements
  <1> QED
    BY <1>1 DEF Texts, NoText

\* A text is sent when none is on its way.
LEMMA TextAppend ==
  ASSUME NEW q \in Seq(ToGwFrame), NEW f \in ToGwFrame, NEW t
  PROVE  /\ ~IsText(f) /\ Texts(q, t) => Texts(Append(q, f), t)
         /\ ~IsText(f) /\ NoText(q) => NoText(Append(q, f))
         /\ NoText(q) /\ f.turn = t => Texts(Append(q, f), t)
  <1>1. /\ Len(q) \in Nat /\ DOMAIN q = 1..Len(q)
        /\ \A i \in DOMAIN Append(q, f) :
             \/ i \in DOMAIN q /\ Append(q, f)[i] = q[i]
             \/ i = Len(q) + 1 /\ Append(q, f)[i] = f
    BY AppendElements
  <1> QED
    BY <1>1 DEF Texts, NoText

\* The listener reads a frame: after a terminal one there is none of the chat.
LEMMA FrameTail ==
  ASSUME NEW q \in Seq(ToClientFrame), q # <<>>, NEW t, NEW s
  PROVE  /\ Frames(q, t, s) => Frames(Tail(q), t, s)
         /\ NoChat(q) => NoChat(Tail(q))
         /\ NoEnd(q) => NoEnd(Tail(q))
         /\ Frames(q, t, s) /\ IsChat(Head(q)) => Head(q).turn = t /\ Head(q).sid = s
         /\ IsChat(Head(q)) => ~NoChat(q)
         /\ Frames(q, t, s) /\ IsEnd(Head(q)) => NoChat(Tail(q))
  <1>1. /\ Head(q) = q[1] /\ 1 \in DOMAIN q /\ DOMAIN Tail(q) \subseteq Nat \ {0}
        /\ \A i \in DOMAIN Tail(q) : i + 1 \in DOMAIN q /\ Tail(q)[i] = q[i + 1]
    BY TailElements
  <1>2. \A i \in DOMAIN Tail(q) : ~(i + 1 <= 1)
    BY <1>1
  <1>3. Frames(q, t, s) => Frames(Tail(q), t, s)
    BY <1>1 DEF Frames
  <1>4. (NoChat(q) => NoChat(Tail(q))) /\ (NoEnd(q) => NoEnd(Tail(q)))
    BY <1>1 DEF NoChat, NoEnd
  <1>5. /\ Frames(q, t, s) /\ IsChat(Head(q)) => Head(q).turn = t /\ Head(q).sid = s
        /\ IsChat(Head(q)) => ~NoChat(q)
    BY <1>1 DEF Frames, NoChat
  <1>6. Frames(q, t, s) /\ IsEnd(Head(q)) => NoChat(Tail(q))
    BY <1>1, <1>2 DEF Frames, NoChat
  <1> QED
    BY <1>3, <1>4, <1>5, <1>6

\* The gateway sends a frame, after which the turn may go on or not.
LEMMA FrameAppend ==
  ASSUME NEW q \in Seq(ToClientFrame), NEW f \in ToClientFrame, NEW t, NEW s
  PROVE  /\ ~IsChat(f) /\ ~IsEnd(f) =>
              /\ Frames(q, t, s) => Frames(Append(q, f), t, s)
              /\ NoChat(q) => NoChat(Append(q, f))
         /\ ~IsEnd(f) /\ NoEnd(q) => NoEnd(Append(q, f))
         /\ Frames(q, t, s) /\ NoEnd(q) /\ f.turn = t /\ f.sid = s
              => Frames(Append(q, f), t, s)
  <1>1. /\ Len(q) \in Nat /\ DOMAIN q = 1..Len(q)
        /\ \A i \in DOMAIN Append(q, f) :
             \/ i \in DOMAIN q /\ Append(q, f)[i] = q[i]
             \/ i = Len(q) + 1 /\ Append(q, f)[i] = f
    BY AppendElements
  <1> QED
    BY <1>1 DEF Frames, NoChat, NoEnd

\* Of the frames in flight when the connection is lost the first ones may arrive.
LEMMA FramePrefix ==
  ASSUME NEW q \in Seq(ToClientFrame), NEW n \in 0..Len(q), NEW t, NEW s
  PROVE  /\ Frames(q, t, s) => Frames(SubSeq(q, 1, n), t, s)
         /\ NoChat(q) => NoChat(SubSeq(q, 1, n))
  <1>1. Len(q) \in Nat /\ \A i \in 1..n : q[i] \in ToClientFrame
    OBVIOUS
  <1>2. DOMAIN SubSeq(q, 1, n) = 1..n /\ \A i \in 1..n : i \in DOMAIN q /\ SubSeq(q, 1, n)[i] = q[i]
    BY <1>1, SubSeqProperties
  <1> QED
    BY <1>2 DEF Frames, NoChat

\* A terminal frame is one of the chat.
LEMMA EndIsChat == \A q : NoChat(q) => NoEnd(q)
  BY DEF NoChat, NoEnd, IsChat, IsEnd, ChatKinds, Terminal

\* What the steps below use of the invariants: the streams are sequences of frames,
\* and when the turn has nothing to wait for, nothing is in flight.
LEMMA OwnFacts ==
  ASSUME TypeInv, ReplInv, OwnInv
  PROVE  /\ toGw \in Seq(ToGwFrame) /\ toClient \in Seq(ToClientFrame) /\ Turn \in Nat
         /\ listener = "running" /\ pc # "gone" /\ ~Raised /\ ~(Waits /\ ~coll.done) =>
              NoText(toGw) /\ gwTurn = 0 /\ NoChat(toClient)
         /\ NoText(<<>>) /\ NoChat(<<>>) /\ NoEnd(<<>>)
  BY TypeFacts DEF TypeInv, TypeOK, OwnInv, InFlight, NoText, NoChat, NoEnd

\* Nothing in flight fits any turn.
LEMMA Nothing ==
  ASSUME NEW t, NEW s, NEW p, NEW q, NoText(p), NoChat(q)
  PROVE  Texts(p, t) /\ Frames(q, t, s) /\ NoEnd(q)
  BY EndIsChat DEF NoText, NoChat, Texts, Frames

\* Steps that keep the turn and add nothing to what is in flight.
LEMMA FlightLess ==
  ASSUME OneFlight, UNCHANGED turns, Texts(toGw', Turn), NoText(toGw) => NoText(toGw'),
         gwTurn' \in {0, gwTurn}, Frames(toClient', Turn, Active),
         NoChat(toClient) => NoChat(toClient'), gwTurn' = 0 \/ (NoEnd(toClient) => NoEnd(toClient'))
  PROVE  OneFlight' /\ (InFlight' => InFlight)
  <1>1. Turn' = Turn /\ Active' = Active
    BY DEF Turn, Active
  <1> QED
    BY <1>1 DEF OneFlight, InFlight

\* The client writes a frame that is no text.
LEMMA FlightWrites ==
  ASSUME TypeInv, NEW f \in ToGwFrame, ~IsText(f), toGw' \in {toGw, Append(toGw, f)},
         UNCHANGED <<turns, gwTurn, toClient>>, OneFlight
  PROVE  OneFlight' /\ (InFlight' => InFlight)
  <1>1. Texts(toGw, Turn) /\ Frames(toClient, Turn, Active)
    BY DEF OneFlight
  <1>2. Texts(toGw', Turn) /\ (NoText(toGw) => NoText(toGw'))
    BY <1>1, TextAppend DEF TypeInv, TypeOK
  <1> QED
    BY <1>1, <1>2, FlightLess

\* Steps that leave the turn, its collector and what is in flight alone.
LEMMA OwnFrame ==
  ASSUME OwnInv, ListenOnce', UNCHANGED <<pc, turns, stage, reply, coll, pending, listener>>,
         OneFlight => OneFlight' /\ (InFlight' => InFlight)
  PROVE  OwnInv'
  BY DEF OwnInv, ReplyIsOwn, Waits, Raised, Turn, Active

\* The frames the client writes besides the text of a turn.
LEMMA OtherFrames ==
  ASSUME NEW k \in {"open", "interrupt", "command"}, NEW s \in Sessions, NEW t \in Nat
  PROVE  Frame(k, s, t) \in ToGwFrame /\ ~IsText(Frame(k, s, t))
  BY DEF Frame, ToGwFrame, IsText

\* At the prompt, or before its text is sent, nothing of a turn is in flight.
LEMMA OwnUser == ASSUME TypeInv, ReplInv, OwnInv, User, ListenOnce' PROVE OwnInv'
  <1> USE OwnFacts
  <1>1. pc # "turn" => stage = "none" /\ ~Waits /\ ~Raised
    BY DEF ReplInv, Waits, Raised
  <1>2. ASSUME NEW s \in Sessions, UserMessage(s) PROVE OwnInv'
    <2>1. /\ pc = "prompt" /\ pc' \in {"turn", "title"} /\ (pc' = "turn" => stage' = "start")
          /\ UNCHANGED <<reply, toGw, toClient, gwTurn, listener, pending, coll>>
          /\ pc' = "title" => stage' = stage
      BY <1>2 DEF UserMessage, StartTurn, collVars, connVars, gwVars
    <2>2. listener = "running" => NoText(toGw) /\ gwTurn = 0 /\ NoChat(toClient)
      BY <1>1, <2>1
    <2>3. listener = "running" => OneFlight' /\ ~InFlight'
      BY <2>1, <2>2, Nothing DEF OneFlight, InFlight
    <2> QED
      BY <2>1, <2>3 DEF OwnInv, ReplyIsOwn, Waits
  <1>3. ASSUME NEW s \in Sessions, UserCommand(s) \/ UserStop(s) PROVE OwnInv'
    <2>1. /\ pc = "prompt" /\ pc' \in {"prompt", "command"} /\ stage' = stage
          /\ UNCHANGED <<turns, reply, toClient, gwTurn, listener, pending, coll>>
      BY <1>3 DEF UserCommand, UserStop, replVars, turnVars, collVars, connVars, gwVars
    <2>2. \E k \in {"interrupt", "command"} : toGw' = Append(toGw, Frame(k, s, 0))
      BY <1>3 DEF UserCommand, UserStop
    <2>3. OneFlight => OneFlight' /\ (InFlight' => InFlight)
      BY <2>1, <2>2, OtherFrames, FlightWrites
    <2> QED
      BY <1>1, <2>1, <2>3 DEF OwnInv, ReplyIsOwn, Waits, Raised
  <1>4. CASE UserQuit \/ UserAbort
    BY <1>4 DEF UserQuit, UserAbort, turnVars, OwnInv, ReplyIsOwn, Waits
  <1>5. CASE PressCtrlC
    BY <1>5, OwnFrame DEF PressCtrlC, turnVars, collVars, connVars, gwVars, OneFlight, InFlight,
                          Turn, Active
  <1> QED
    BY <1>2, <1>3, <1>4, <1>5 DEF User

\* The REPL goes on after a turn that was answered, or leaves after one that raised.
LEMMA OwnRepl ==
  ASSUME TypeInv, ReplInv, OwnInv, RunMain \/ HttpAnswered \/ Drained \/ Readable, ListenOnce'
  PROVE  OwnInv'
  <1>1. CASE HttpAnswered \/ Drained \/ Readable
    BY <1>1, OwnFrame DEF HttpAnswered, Drained, Readable, replVars, turnVars, collVars, connVars,
                          gwVars, OneFlight, InFlight, Turn, Active
  <1>2. CASE RunMain
    <2>1. pc = "title" \/ (pc = "turn" /\ stage = "none") \/ pc = "command"
      BY <1>2, MainTail DEF RunMain, Running, LoopRuns, ReplInv, WokenOnce, TypeInv, TypeOK
    <2>2. stage = "none" /\ pc # "gone"
      BY <2>1 DEF ReplInv
    <2>3. /\ UNCHANGED <<turns, reply, coll, pending, listener, toGw, toClient, gwTurn>>
          /\ \/ pc = "title" /\ pc' = "turn" /\ stage' = "start"
             \/ /\ pc = "turn" /\ pc' = (IF reply.kind = "raised" THEN "gone" ELSE "prompt")
                /\ stage' = "none"
             \/ pc = "command" /\ pc' = "prompt" /\ stage' = "none"
      BY <1>2, <2>2 DEF RunMain, StartTurn, collVars, gwVars
    <2>4. ~Waits /\ ~Waits'
      BY <2>2, <2>3 DEF Waits
    <2>5. OneFlight' = OneFlight /\ InFlight' = InFlight
      BY <2>3 DEF OneFlight, InFlight, Turn, Active
    <2>6. pc' # "gone" => ~Raised
      BY <2>2, <2>3 DEF Raised
    <2> QED
      BY <2>2, <2>3, <2>4, <2>5, <2>6 DEF OwnInv, ReplyIsOwn, Turn
  <1> QED
    BY <1>1, <1>2

\* The task sends its text when nothing is in flight, and waits while something is.
LEMMA OwnTurn ==
  ASSUME TypeInv, ReplInv, OwnInv, ListenOnce',
         SendOpen \/ SendText \/ TextSendFailed \/ AwaitDone \/ TurnDone
  PROVE  OwnInv'
  <1> USE OwnFacts
  <1>1. /\ stage # "none" /\ UNCHANGED <<pc, turns, listener, toClient, gwTurn>>
        /\ Turn' = Turn /\ Active' = Active
    BY DEF SendOpen, SendText, TextSendFailed, AwaitDone, TurnDone, replVars, connVars, gwVars,
           Turn, Active
  <1>2. pc = "turn" /\ ~Raised /\ Turn # 0 /\ Active \in Sessions /\ pending \in [Sessions -> 0..Turn]
    BY <1>1, TypeFacts DEF ReplInv, Raised, TypeInv, TypeOK
  <1>3. ASSUME NEW k, NEW fs, fs \subseteq {Turn}, EndTurn(k, fs), toGw' = toGw,
               k = "raised" \/ (listener = "running" => ~InFlight)
        PROVE  OwnInv'
    <2>1. /\ reply'.kind = k /\ reply'.turn = Turn /\ reply'.folded = fs /\ stage' = "none"
      BY <1>3 DEF EndTurn
    <2>2. OneFlight' = OneFlight /\ InFlight' = InFlight
      BY <1>1, <1>3 DEF OneFlight, InFlight
    <2> QED
      BY <1>1, <1>2, <1>3, <2>1, <2>2 DEF OwnInv, ReplyIsOwn, Waits, Raised
  <1>4. stage \in {"start", "opening"} =>
          (listener = "running" => NoText(toGw) /\ gwTurn = 0 /\ NoChat(toClient))
    BY <1>2 DEF Waits
  <1>5. CASE SendOpen
    <2>1. CASE ws # "open"
      BY <1>3, <1>5, <2>1 DEF SendOpen
    <2>2. CASE ws = "open"
      <3>1. /\ stage' = "opening" /\ toGw' = Append(toGw, Frame("open", Active, Turn))
            /\ UNCHANGED <<reply, coll, pending>> /\ stage = "start"
        BY <1>5, <2>2 DEF SendOpen, collVars
      <3>2. OneFlight => OneFlight' /\ (InFlight' => InFlight)
        BY <1>1, <1>2, <3>1, OtherFrames, FlightWrites
      <3> QED
        BY <1>1, <1>2, <1>4, <3>1, <3>2 DEF OwnInv, ReplyIsOwn, Waits, InFlight
    <2> QED
      BY <2>1, <2>2
  <1>6. CASE SendText
    <2>1. CASE ws # "open"
      BY <1>3, <1>6, <2>1 DEF SendText
    <2>2. CASE ws = "open"
      <3>1. /\ stage' = "sent" /\ toGw' = Append(toGw, Frame("text", Active, Turn))
            /\ pending' = [pending EXCEPT ![Active] = Turn]
            /\ coll'.folded = {} /\ ~coll'.done /\ UNCHANGED reply
            /\ stage \in {"start", "opening"}
        BY <1>6, <2>2 DEF SendText, NewCollector, EmptyCollector
      <3>2. Frame("text", Active, Turn) \in ToGwFrame /\ Frame("text", Active, Turn).turn = Turn
        BY <1>2 DEF Frame, ToGwFrame
      <3>3. NoText(toGw) => Texts(toGw', Turn)
        BY <3>1, <3>2, TextAppend
      <3>4. listener = "running" => OneFlight'
        BY <1>1, <1>4, <3>1, <3>3, Nothing DEF OneFlight
      <3> QED
        BY <1>1, <1>2, <3>1, <3>4 DEF OwnInv, ReplyIsOwn, Waits
    <2> QED
      BY <2>1, <2>2
  <1>7. CASE TextSendFailed
    BY <1>3, <1>7 DEF TextSendFailed
  <1>8. CASE AwaitDone
    <2>1. /\ stage = "sent" /\ stage' = "waiting" /\ ~coll.done
          /\ UNCHANGED <<reply, coll, pending, toGw>>
      BY <1>8 DEF AwaitDone, collVars
    <2>2. OneFlight' = OneFlight /\ InFlight' = InFlight
      BY <1>1, <2>1 DEF OneFlight, InFlight
    <2> QED
      BY <1>1, <1>2, <2>1, <2>2 DEF OwnInv, ReplyIsOwn, Waits
  <1>9. CASE TurnDone
    <2>1. /\ EndTurn(IF coll.errored THEN "error" ELSE "response", coll.folded)
          /\ toGw' = toGw /\ coll.done /\ stage \in {"sent", "waiting"}
      BY <1>9 DEF TurnDone
    <2>2. coll.folded \subseteq {Turn} /\ (listener = "running" => ~InFlight)
      BY <1>2, <2>1 DEF OwnInv, Waits, InFlight
    <2> QED
      BY <1>3, <2>1, <2>2
  <1> QED
    BY <1>5, <1>6, <1>7, <1>8, <1>9

\* An interrupt is no text.
LEMMA OwnSigint ==
  ASSUME TypeInv, ReplInv, OwnInv, RunPipe \/ RunSigint \/ RunInterrupt, ListenOnce'
  PROVE  OwnInv'
  <1>1. UNCHANGED <<pc, turns, stage, reply, coll, pending, listener, toClient, gwTurn>>
    BY DEF RunPipe, RunSigint, RunInterrupt, replVars, turnVars, collVars, connVars, gwVars
  <1>2. CASE RunPipe \/ RunSigint
    <2>1. toGw' = toGw
      BY <1>2 DEF RunPipe, RunSigint
    <2> QED
      BY <1>1, <2>1, OwnFrame DEF OneFlight, InFlight, Turn, Active
  <1>3. CASE RunInterrupt
    <2> DEFINE f == Frame("interrupt", turns[Head(ready).owner], Head(ready).pressed)
    <2>1. Head(ready) \in Callback /\ Head(ready).owner \in 1..Turn
      BY <1>3, TypeRun DEF RunInterrupt, Running
    <2>2. f \in ToGwFrame /\ ~IsText(f)
      BY <2>1, TypeFacts, OtherFrames DEF Callback
    <2>3. toGw' \in {toGw, Append(toGw, f)}
      BY <1>3 DEF RunInterrupt
    <2> HIDE DEF f
    <2>4. OneFlight => OneFlight' /\ (InFlight' => InFlight)
      BY <1>1, <2>2, <2>3, FlightWrites
    <2> QED
      BY <1>1, <2>4, OwnFrame
  <1> QED
    BY <1>2, <1>3

\* The listener folds into the collector a frame of its own turn, and after a terminal one
\* finds no other.
LEMMA OwnListen ==
  ASSUME TypeInv, ReplInv, OwnInv, ListenFrame \/ ListenEnd, ListenOnce' PROVE OwnInv'
  <1> USE OwnFacts
  <1>1. /\ UNCHANGED <<pc, turns, stage, reply, pending, toGw, gwTurn>>
        /\ Turn' = Turn /\ Active' = Active /\ pc # "gone" /\ coll \in Collector
    BY DEF ListenFrame, ListenEnd, replVars, turnVars, gwVars, Turn, Active, Running, LoopRuns,
           TypeInv, TypeOK
  <1>2. CASE ListenEnd
    <2>1. listener' = "ended" /\ coll'.folded = coll.folded
      BY <1>1, <1>2 DEF ListenEnd, ReleaseWaiters, Collector
    <2> QED
      BY <1>1, <2>1 DEF OwnInv, ReplyIsOwn, Waits
  <1>3. CASE ListenFrame
    <2> DEFINE f == Head(toClient)
    <2>1. /\ toClient # <<>> /\ toClient' = Tail(toClient) /\ UNCHANGED listener
          /\ Head(ready).cb = "listen" /\ ready # <<>> /\ ready \in Seq(Callback)
      BY <1>3 DEF ListenFrame, Running, LoopRuns, TypeInv, TypeOK
    <2>2. listener = "running"
      BY <2>1, ListenTail DEF OwnInv, ListenOnce, TypeInv, TypeOK
    <2>3. OneFlight /\ (InFlight => Raised \/ (Waits /\ ~coll.done))
      BY <1>1, <2>2 DEF OwnInv
    <2>4. OneFlight' /\ (InFlight' => InFlight)
      <3>1. /\ Frames(toClient', Turn, Active) /\ (NoChat(toClient) => NoChat(toClient'))
            /\ NoEnd(toClient) => NoEnd(toClient')
        BY <2>1, <2>3, FrameTail DEF OneFlight
      <3> QED
        BY <1>1, <2>3, <3>1, FlightLess DEF OneFlight
    <2>5. CASE coll' = coll
      BY <1>1, <2>1, <2>3, <2>4, <2>5 DEF OwnInv, ReplyIsOwn, Waits, Raised
    <2>6. CASE Routed(f) /\ coll' = Fold(coll, f)
      <3>1. Turn # 0 /\ pending[f.sid] = Turn /\ IsChat(f) /\ f.sid \in Sessions
        <4>1. f \in ToClientFrame
          BY <2>1
        <4> QED
          BY <2>6, <4>1 DEF Routed, Registered, IsChat, ToClientFrame
      <3>2. Waits
        BY <3>1 DEF ReplInv, NoCollectorLeft, Waits
      <3>3. f.turn = Turn /\ ~NoChat(toClient)
        BY <2>1, <2>3, <3>1, FrameTail DEF OneFlight
      <3>4. coll'.folded \subseteq {Turn}
        BY <2>6, <3>2, <3>3 DEF Fold, OwnInv
      <3>5. CASE IsEnd(f)
        <4>1. NoChat(toClient')
          BY <2>1, <2>3, <3>5, FrameTail DEF OneFlight
        <4>2. ~NoEnd(toClient)
          BY <2>1, <3>5, TailElements DEF NoEnd
        <4>3. ~InFlight'
          BY <1>1, <2>3, <3>3, <4>1, <4>2 DEF OneFlight, InFlight
        <4> QED
          BY <1>1, <2>1, <2>4, <3>4, <4>3 DEF OwnInv, ReplyIsOwn, Waits
      <3>6. CASE ~IsEnd(f)
        <4>1. ~coll.done
          BY <2>3, <3>2, <3>3 DEF InFlight, Raised, Waits
        <4>2. ~coll'.done
          BY <2>6, <3>6, <4>1 DEF Fold, IsEnd
        <4> QED
          BY <1>1, <2>1, <2>4, <3>2, <3>4, <4>2 DEF OwnInv, ReplyIsOwn, Waits
      <3> QED
        BY <3>5, <3>6
    <2> QED
      BY <1>3, <2>5, <2>6 DEF ListenFrame
  <1> QED
    BY <1>2, <1>3

\* The gateway passes a turn on from one place to the next.
LEMMA OwnGateway == ASSUME TypeInv, ReplInv, OwnInv, Gateway, ListenOnce' PROVE OwnInv'
  <1> USE OwnFacts
  <1>1. UNCHANGED <<pc, turns, stage, reply, coll, pending, listener>>
        /\ Turn' = Turn /\ Active' = Active
    BY DEF Gateway, GwReceive, GwProgress, GwFinish, GwMalformed, ConnectionLost, replVars,
           turnVars, collVars, connVars, Turn, Active
  <1> SUFFICES ASSUME OneFlight PROVE OneFlight' /\ (InFlight' => InFlight)
    BY <1>1, OwnFrame
  <1> USE DEF OneFlight
  <1>3. gwTurn # 0 => turns[gwTurn] = Active
    BY DEF Active
  <1>4. ASSUME NEW k \in ChatKinds \cup {"status", "command_result", "malformed"},
               NEW s \in Sessions, NEW n \in Nat, Emit(k, s, n)
        PROVE  /\ k \notin ChatKinds => /\ Frames(toClient', Turn, Active)
                                        /\ NoChat(toClient) => NoChat(toClient')
               /\ k \notin Terminal => (NoEnd(toClient) => NoEnd(toClient'))
               /\ NoEnd(toClient) /\ n = Turn /\ s = Active => Frames(toClient', Turn, Active)
    <2>1. /\ Frame(k, s, n) \in ToClientFrame /\ Frame(k, s, n).kind = k
          /\ Frame(k, s, n).sid = s /\ Frame(k, s, n).turn = n
      BY DEF Frame, ToClientFrame
    <2>2. Terminal \subseteq ChatKinds
      BY DEF Terminal, ChatKinds
    <2> QED
      BY <1>4, <2>1, <2>2, FrameAppend DEF Emit, IsChat, IsEnd
  <1>5. CASE GwReceive
    <2> DEFINE f == Head(toGw)
    <2>1. toGw # <<>> /\ toGw' = Tail(toGw) /\ f \in ToGwFrame
      BY <1>5, TailElements DEF GwReceive
    <2>2. /\ Texts(toGw', Turn) /\ (NoText(toGw) => NoText(toGw'))
          /\ IsText(f) => NoText(toGw') /\ f.turn = Turn /\ ~NoText(toGw)
      <3>1. IsText(f) => ~NoText(toGw)
        BY <2>1, TailElements DEF NoText
      <3> QED
        BY <2>1, <3>1, TextTail
    <2>3. CASE f.kind \in {"open", "interrupt"} /\ UNCHANGED <<gwTurn, toClient>>
      BY <1>1, <2>2, <2>3, FlightLess
    <2>4. CASE f.kind = "text" /\ gwTurn = 0 /\ gwTurn' = f.turn /\ UNCHANGED toClient
      BY <1>1, <2>2, <2>4, EndIsChat DEF IsText, InFlight
    <2>5. CASE /\ f.kind = "interrupt" /\ gwTurn # 0
               /\ Emit("turn_complete", f.sid, gwTurn) /\ gwTurn' = 0 /\ turns[gwTurn] = f.sid
      <3>1. Frames(toClient', Turn, Active)
        BY <1>3, <1>4, <2>1, <2>5 DEF ToGwFrame, ChatKinds
      <3> QED
        BY <1>1, <2>2, <2>5, <3>1 DEF InFlight
    <2>6. CASE f.kind = "command" /\ Emit("command_result", f.sid, 0) /\ UNCHANGED gwTurn
      <3>1. "command_result" \notin ChatKinds /\ "command_result" \notin Terminal /\ f.sid \in Sessions
        BY <2>1 DEF ChatKinds, Terminal, ToGwFrame
      <3>2. /\ Frames(toClient', Turn, Active) /\ (NoChat(toClient) => NoChat(toClient'))
            /\ NoEnd(toClient) => NoEnd(toClient')
        BY <1>4, <2>6, <3>1
      <3> QED
        BY <1>1, <2>2, <2>6, <3>2, FlightLess
    <2> QED
      BY <1>5, <2>3, <2>4, <2>5, <2>6 DEF GwReceive
  <1>6. CASE GwProgress
    <2>1. gwTurn # 0 /\ UNCHANGED <<gwTurn, toGw>>
      BY <1>6 DEF GwProgress, gwVars
    <2>2. PICK k \in {"delta", "response", "status"} : Emit(k, turns[gwTurn], gwTurn)
      BY <1>6 DEF GwProgress
    <2>3. k \notin Terminal /\ k \in ChatKinds \cup {"status"} /\ Active \in Sessions /\ gwTurn = Turn
      BY <2>1, TypeFacts DEF Terminal, ChatKinds
    <2>4. Frames(toClient', Turn, Active) /\ NoEnd(toClient')
      BY <1>3, <1>4, <2>1, <2>2, <2>3
    <2> QED
      BY <1>1, <2>1, <2>4 DEF InFlight
  <1>7. CASE GwFinish
    <2>1. gwTurn # 0 /\ gwTurn' = 0 /\ UNCHANGED toGw
      BY <1>7 DEF GwFinish
    <2>2. PICK k \in Terminal : Emit(k, turns[gwTurn], gwTurn)
      BY <1>7 DEF GwFinish
    <2>3. k \in ChatKinds /\ Active \in Sessions /\ gwTurn = Turn
      BY <2>1, TypeFacts DEF Terminal, ChatKinds
    <2>4. Frames(toClient', Turn, Active)
      BY <1>3, <1>4, <2>1, <2>2, <2>3
    <2> QED
      BY <1>1, <2>1, <2>4 DEF InFlight
  <1>8. CASE GwMalformed
    <2>1. UNCHANGED <<gwTurn, toGw>>
      BY <1>8 DEF GwMalformed, gwVars
    <2>2. PICK s \in Sessions : Emit("malformed", s, 0)
      BY <1>8 DEF GwMalformed
    <2>3. "malformed" \notin ChatKinds /\ "malformed" \notin Terminal
      BY DEF ChatKinds, Terminal
    <2>4. /\ Frames(toClient', Turn, Active) /\ (NoChat(toClient) => NoChat(toClient'))
          /\ NoEnd(toClient) => NoEnd(toClient')
      BY <1>4, <2>2, <2>3
    <2> QED
      BY <1>1, <2>1, <2>4, FlightLess
  <1>9. CASE ConnectionLost
    <2>1. toGw' = <<>> /\ gwTurn' = 0
      BY <1>9 DEF ConnectionLost
    <2>2. PICK n \in 0..Len(toClient) : toClient' = SubSeq(toClient, 1, n)
      BY <1>9 DEF ConnectionLost
    <2>3. Frames(toClient', Turn, Active) /\ (NoChat(toClient) => NoChat(toClient'))
      BY <2>2, FramePrefix
    <2>4. Texts(toGw', Turn) /\ NoText(toGw')
      BY <2>1 DEF Texts, NoText
    <2> QED
      BY <1>1, <2>1, <2>3, <2>4 DEF InFlight
  <1> QED
    BY <1>5, <1>6, <1>7, <1>8, <1>9 DEF Gateway

\* The reply of a turn is made of that turn's frames: those of an earlier turn have all
\* been read when the next collector is registered (GatewayClient.send_message).
LEMMA OwnStep ==
  ASSUME TypeInv, ReplInv, OwnInv, [Next]_vars PROVE OwnInv'
  <1>1. ListenOnce'
    BY ListenStep DEF OwnInv
  <1>2. CASE UNCHANGED vars
    BY <1>1, <1>2, OwnFrame DEF vars, OneFlight, InFlight, Turn, Active
  <1> QED
    BY <1>1, <1>2, OwnUser, OwnRepl, OwnTurn, OwnSigint, OwnListen, OwnGateway DEF Next, Loop

-----------------------------------------------------------------------------
(* The gateway opens each session once.                                     *)

\* session_open has been sent for it on this socket.
OpenSent(s) == s \in opened \/ (stage = "opening" /\ s = Active)
Opening(s)  == \E i \in DOMAIN toGw : toGw[i].kind = "open" /\ toGw[i].sid = s

OpenInv ==
  /\ ws = "open" => \A s \in Sessions : OpenSent(s) <=> (s \in gwOpen \/ Opening(s))
  /\ ws # "open" => toGw = <<>>
  /\ SessionsOpenOnce

\* Steps that neither write a frame nor change what has been opened.
LEMMA OpenFrame ==
  ASSUME OpenInv, UNCHANGED <<opened, toGw, gwOpen, ws>>,
         \A s \in Sessions : OpenSent(s)' <=> OpenSent(s)
  PROVE  OpenInv'
  BY DEF OpenInv, SessionsOpenOnce, Opening

\* Steps that write a frame other than session_open and the text of a turn.
LEMMA OpenOther ==
  ASSUME TypeInv, OpenInv, UNCHANGED <<opened, gwOpen, ws>>, ws = "open",
         \A s \in Sessions : OpenSent(s)' <=> OpenSent(s),
         NEW f \in ToGwFrame, f.kind \notin {"open", "text"}, toGw' = Append(toGw, f)
  PROVE  OpenInv'
  <1>1. /\ Len(toGw) \in Nat /\ DOMAIN toGw = 1..Len(toGw)
        /\ DOMAIN toGw' = 1..(Len(toGw) + 1)
        /\ \A i \in DOMAIN toGw : i \in DOMAIN toGw' /\ toGw'[i] = toGw[i]
        /\ \A i \in DOMAIN toGw' :
             i \in DOMAIN toGw \/ (toGw'[i] = f /\ i = Len(toGw) + 1)
    <2>1. toGw \in Seq(ToGwFrame)
      BY DEF TypeInv, TypeOK
    <2> QED
      BY <2>1, AppendProperties
  <1>2. \A s \in Sessions : Opening(s)' <=> Opening(s)
    BY <1>1 DEF Opening
  <1>3. SessionsOpenOnce'
    BY <1>1 DEF OpenInv, SessionsOpenOnce
  <1> QED
    BY <1>2, <1>3 DEF OpenInv

\* session_open is written for a session that has none, the text for one that has it.
LEMMA OpenTurn ==
  ASSUME TypeInv, ReplInv, OpenInv,
         SendOpen \/ SendText \/ TextSendFailed \/ AwaitDone \/ TurnDone
  PROVE  OpenInv'
  <1>1. UNCHANGED <<turns, gwOpen, ws>> /\ Turn' = Turn /\ Active' = Active /\ stage # "none"
    BY DEF SendOpen, SendText, TextSendFailed, AwaitDone, TurnDone, replVars, connVars, gwVars,
           Turn, Active
  <1>2. /\ Turn # 0 /\ Active \in Sessions /\ Turn \in Nat
        /\ toGw \in Seq(ToGwFrame) /\ Len(toGw) \in Nat /\ DOMAIN toGw = 1..Len(toGw)
    BY <1>1, TypeFacts DEF TypeInv, TypeOK
  <1>3. ASSUME NEW k \in {"open", "text"}, toGw' = Append(toGw, Frame(k, Active, Turn))
        PROVE  /\ DOMAIN toGw' = 1..(Len(toGw) + 1)
               /\ \A i \in DOMAIN toGw : i \in DOMAIN toGw' /\ toGw'[i] = toGw[i]
               /\ toGw'[Len(toGw) + 1].kind = k /\ toGw'[Len(toGw) + 1].sid = Active
    <2>1. Frame(k, Active, Turn) \in ToGwFrame
      BY <1>2 DEF Frame, ToGwFrame
    <2> QED
      BY <1>2, <1>3, <2>1, AppendElements DEF Frame
  <1>4. CASE ws # "open"
    <2>1. toGw = <<>> /\ toGw' = <<>>
      BY <1>4 DEF OpenInv, SendOpen, SendText, TextSendFailed, AwaitDone, TurnDone
    <2> QED
      BY <1>1, <1>4, <2>1 DEF OpenInv, SessionsOpenOnce
  <1>5. CASE SendOpen /\ ws = "open"
    <2>1. /\ stage = "start" /\ stage' = "opening" /\ Active \notin opened /\ opened' = opened
          /\ toGw' = Append(toGw, Frame("open", Active, Turn))
      BY <1>5 DEF SendOpen
    <2>2. /\ DOMAIN toGw' = 1..(Len(toGw) + 1)
          /\ \A i \in DOMAIN toGw : i \in DOMAIN toGw' /\ toGw'[i] = toGw[i]
          /\ toGw'[Len(toGw) + 1].kind = "open" /\ toGw'[Len(toGw) + 1].sid = Active
      BY <1>3, <2>1
    <2>3. Active \notin gwOpen /\ ~Opening(Active)
      BY <1>2, <1>5, <2>1 DEF OpenInv, OpenSent
    <2>4. \A s \in Sessions : /\ OpenSent(s)' <=> OpenSent(s) \/ s = Active
                              /\ Opening(s)' <=> Opening(s) \/ s = Active
      BY <1>1, <1>2, <2>1, <2>2 DEF OpenSent, Opening
    <2>5. SessionsOpenOnce'
      <3>1. ASSUME NEW i \in DOMAIN toGw', toGw'[i].kind = "open"
            PROVE  /\ toGw'[i].sid \notin gwOpen
                   /\ \A j \in DOMAIN toGw' :
                        toGw'[j].kind = "open" /\ toGw'[j].sid = toGw'[i].sid => j = i
        BY <1>2, <2>2, <2>3, <3>1 DEF OpenInv, SessionsOpenOnce, Opening
      <3>2. ASSUME NEW i \in DOMAIN toGw', toGw'[i].kind = "text"
            PROVE  \/ toGw'[i].sid \in gwOpen
                   \/ \E j \in 1..(i-1) : toGw'[j].kind = "open" /\ toGw'[j].sid = toGw'[i].sid
        <4>1. i \in DOMAIN toGw /\ toGw'[i] = toGw[i]
          BY <1>2, <2>2, <3>2
        <4>2. \A j \in 1..(i-1) : j \in DOMAIN toGw
          BY <1>2, <4>1
        <4> QED
          BY <2>2, <3>2, <4>1, <4>2 DEF OpenInv, SessionsOpenOnce
      <3> QED
        BY <1>1, <3>1, <3>2 DEF SessionsOpenOnce
    <2> QED
      BY <1>1, <1>5, <2>4, <2>5 DEF OpenInv
  <1>6. CASE SendText /\ ws = "open"
    <2>1. /\ stage' = "sent" /\ opened' = opened \cup {Active}
          /\ toGw' = Append(toGw, Frame("text", Active, Turn))
          /\ Active \in opened \/ stage = "opening"
      BY <1>6 DEF SendText, MarkOpened
    <2>2. /\ DOMAIN toGw' = 1..(Len(toGw) + 1)
          /\ \A i \in DOMAIN toGw : i \in DOMAIN toGw' /\ toGw'[i] = toGw[i]
          /\ toGw'[Len(toGw) + 1].kind = "text" /\ toGw'[Len(toGw) + 1].sid = Active
      BY <1>3, <2>1
    <2>3. Active \in gwOpen \/ Opening(Active)
      BY <1>2, <1>6, <2>1 DEF OpenInv, OpenSent
    <2>4. \A s \in Sessions : (OpenSent(s)' <=> OpenSent(s)) /\ (Opening(s)' <=> Opening(s))
      BY <1>1, <1>2, <2>1, <2>2 DEF OpenSent, Opening
    <2>5. SessionsOpenOnce'
      <3>1. ASSUME NEW i \in DOMAIN toGw', toGw'[i].kind = "open"
            PROVE  /\ toGw'[i].sid \notin gwOpen
                   /\ \A j \in DOMAIN toGw' :
                        toGw'[j].kind = "open" /\ toGw'[j].sid = toGw'[i].sid => j = i
        BY <1>2, <2>2, <3>1 DEF OpenInv, SessionsOpenOnce
      <3>2. ASSUME NEW i \in DOMAIN toGw', toGw'[i].kind = "text"
            PROVE  \/ toGw'[i].sid \in gwOpen
                   \/ \E j \in 1..(i-1) : toGw'[j].kind = "open" /\ toGw'[j].sid = toGw'[i].sid
        <4>1. \A j \in 1..(i-1) : j \in DOMAIN toGw
          BY <1>2, <2>2
        <4>2. CASE i \in DOMAIN toGw
          BY <2>2, <3>2, <4>1, <4>2 DEF OpenInv, SessionsOpenOnce
        <4>3. CASE i = Len(toGw) + 1
          BY <1>2, <2>2, <2>3, <4>3 DEF Opening
        <4> QED
          BY <1>2, <2>2, <4>2, <4>3
      <3> QED
        BY <1>1, <3>1, <3>2 DEF SessionsOpenOnce
    <2> QED
      BY <1>1, <1>6, <2>4, <2>5 DEF OpenInv
  <1>7. CASE ws = "open" /\ (TextSendFailed \/ AwaitDone \/ TurnDone)
    <2>1. /\ UNCHANGED <<opened, toGw>> /\ stage \in {"sent", "waiting"}
          /\ stage' \in {"none", "waiting"}
      BY <1>7 DEF TextSendFailed, AwaitDone, TurnDone, EndTurn, turnVars
    <2>2. \A s \in Sessions : OpenSent(s)' <=> OpenSent(s)
      BY <2>1 DEF OpenSent
    <2> QED
      BY <1>1, <2>1, <2>2, OpenFrame
  <1> QED
    BY <1>4, <1>5, <1>6, <1>7

\* The gateway handles the frames in the order they were written.
LEMMA OpenReceive == ASSUME TypeInv, OpenInv, GwReceive PROVE OpenInv'
  <1> DEFINE f == Head(toGw)
  <1>1. /\ ws = "open" /\ toGw # <<>> /\ toGw' = Tail(toGw) /\ UNCHANGED <<ws, opened>>
        /\ UNCHANGED <<stage, turns>>
    BY DEF GwReceive, connVars, turnVars, replVars
  <1>2. gwOpen' = IF f.kind = "open" THEN gwOpen \cup {f.sid} ELSE gwOpen
    BY DEF GwReceive
  <1>3. /\ f = toGw[1] /\ 1 \in DOMAIN toGw /\ Len(toGw) \in Nat /\ DOMAIN toGw = 1..Len(toGw)
        /\ DOMAIN toGw' = 1..(Len(toGw) - 1) /\ f \in ToGwFrame
        /\ \A i \in DOMAIN toGw' : i + 1 \in DOMAIN toGw /\ toGw'[i] = toGw[i + 1]
    BY <1>1, TailElements DEF TypeInv, TypeOK
  <1>4. \A i \in DOMAIN toGw : i = 1 \/ (i - 1 \in DOMAIN toGw' /\ toGw'[i - 1] = toGw[i])
    BY <1>3
  <1>5. \A s \in Sessions : OpenSent(s)' <=> OpenSent(s)
    BY <1>1 DEF OpenSent, Active, Turn
  <1>6. \A s \in Sessions : Opening(s) <=> Opening(s)' \/ (f.kind = "open" /\ f.sid = s)
    BY <1>3, <1>4 DEF Opening
  <1>7. SessionsOpenOnce'
    <2>1. ASSUME NEW i \in DOMAIN toGw', toGw'[i].kind = "open"
          PROVE  /\ toGw'[i].sid \notin gwOpen'
                 /\ \A j \in DOMAIN toGw' :
                      toGw'[j].kind = "open" /\ toGw'[j].sid = toGw'[i].sid => j = i
      <3>1. i + 1 # 1 /\ i \in Nat
        BY <1>3
      <3>2. toGw'[i].sid \notin gwOpen'
        BY <1>2, <1>3, <2>1, <3>1 DEF OpenInv, SessionsOpenOnce
      <3>3. ASSUME NEW j \in DOMAIN toGw', toGw'[j].kind = "open", toGw'[j].sid = toGw'[i].sid
            PROVE  j = i
        <4>1. j + 1 = i + 1 /\ j \in Nat
          BY <1>3, <2>1, <3>3 DEF OpenInv, SessionsOpenOnce
        <4> QED
          BY <3>1, <4>1
      <3> QED
        BY <3>2, <3>3
    <2>2. ASSUME NEW i \in DOMAIN toGw', toGw'[i].kind = "text"
          PROVE  \/ toGw'[i].sid \in gwOpen'
                 \/ \E j \in 1..(i-1) : toGw'[j].kind = "open" /\ toGw'[j].sid = toGw'[i].sid
      <3>1. CASE toGw[i + 1].sid \in gwOpen
        BY <1>2, <1>3, <3>1
      <3>2. CASE \E j \in 1..i : toGw[j].kind = "open" /\ toGw[j].sid = toGw[i + 1].sid
        <4>1. PICK j \in 1..i : toGw[j].kind = "open" /\ toGw[j].sid = toGw[i + 1].sid
          BY <3>2
        <4>2. CASE j = 1
          BY <1>2, <1>3, <4>1, <4>2
        <4>3. CASE j # 1
          <5>1. j - 1 \in 1..(i - 1) /\ toGw'[j - 1] = toGw[j]
            BY <1>3, <1>4, <4>1, <4>3
          <5> QED
            BY <1>3, <4>1, <5>1
        <4> QED
          BY <4>2, <4>3
      <3>3. (i + 1) - 1 = i /\ i + 1 \in DOMAIN toGw /\ toGw[i + 1].kind = "text"
        BY <1>3, <2>2
      <3> QED
        BY <3>1, <3>2, <3>3 DEF OpenInv, SessionsOpenOnce
    <2> QED
      BY <2>1, <2>2 DEF SessionsOpenOnce
  <1>8. \A s \in Sessions : OpenSent(s)' <=> (s \in gwOpen' \/ Opening(s)')
    BY <1>1, <1>2, <1>5, <1>6 DEF OpenInv
  <1> QED
    BY <1>1, <1>7, <1>8 DEF OpenInv

\* Every step keeps it.
LEMMA OpenStep == ASSUME TypeInv, ReplInv, OpenInv, [Next]_vars PROVE OpenInv'
  <1>1. ASSUME UNCHANGED <<opened, toGw, gwOpen, ws>>, UNCHANGED <<stage, turns>> \/ pc # "turn",
               stage' # "opening" \/ UNCHANGED <<stage, turns>>
        PROVE  OpenInv'
    <2>1. \A s \in Sessions : OpenSent(s)' <=> OpenSent(s)
      BY <1>1 DEF OpenSent, Active, Turn, ReplInv
    <2> QED
      BY <1>1, <2>1, OpenFrame
  <1>2. ASSUME NEW k \in {"interrupt", "command"}, NEW s \in Sessions, NEW n \in Nat,
               ws = "open", toGw' = Append(toGw, Frame(k, s, n)),
               UNCHANGED <<opened, gwOpen, ws, stage, turns>>
        PROVE  OpenInv'
    <2>1. Frame(k, s, n) \in ToGwFrame /\ Frame(k, s, n).kind = k
      BY DEF Frame, ToGwFrame
    <2>2. \A x \in Sessions : OpenSent(x)' <=> OpenSent(x)
      BY <1>2 DEF OpenSent, Active, Turn
    <2> QED
      BY <1>2, <2>1, <2>2, OpenOther
  <1>3. CASE UNCHANGED vars
    BY <1>1, <1>3 DEF vars
  <1>4. ASSUME NEW s \in Sessions, UserMessage(s) PROVE OpenInv'
    <2>1. stage = "none" /\ pc = "prompt" /\ stage' \in {"none", "start"}
      BY <1>4 DEF UserMessage, StartTurn, ReplInv
    <2> QED
      BY <1>1, <1>4, <2>1 DEF UserMessage, connVars, gwVars
  <1>5. ASSUME NEW s \in Sessions, UserCommand(s) \/ UserStop(s) PROVE OpenInv'
    BY <1>2, <1>5 DEF UserCommand, UserStop, replVars, turnVars, connVars, gwVars
  <1>6. CASE UserQuit
    BY <1>6 DEF UserQuit, OpenInv, SessionsOpenOnce
  <1>7. CASE UserAbort \/ PressCtrlC
    BY <1>1, <1>7 DEF UserAbort, PressCtrlC, turnVars, connVars, gwVars
  <1>8. CASE HttpAnswered \/ Drained \/ Readable
    BY <1>1, <1>8 DEF HttpAnswered, Drained, Readable, replVars, turnVars, connVars, gwVars
  <1>9. CASE RunMain
    <2>1. stage = "none"
      BY <1>9, MainTail DEF RunMain, Running, LoopRuns, ReplInv, WokenOnce, TypeInv, TypeOK
    <2>2. stage' \in {"none", "start"} /\ UNCHANGED <<turns, opened, toGw, gwOpen, ws>>
      BY <1>9, <2>1 DEF RunMain, StartTurn, gwVars
    <2>3. \A s \in Sessions : OpenSent(s)' <=> OpenSent(s)
      BY <2>1, <2>2 DEF OpenSent
    <2> QED
      BY <2>2, <2>3, OpenFrame
  <1>10. CASE RunPipe \/ RunSigint
    BY <1>1, <1>10 DEF RunPipe, RunSigint, replVars, turnVars, connVars, gwVars
  <1>11. CASE RunInterrupt
    <2>1. Head(ready) \in Callback /\ Head(ready).owner \in 1..Turn
      BY <1>11, TypeRun DEF RunInterrupt, Running
    <2>2. turns[Head(ready).owner] \in Sessions /\ Head(ready).pressed \in Nat
      BY <2>1, TypeFacts DEF Callback
    <2>3. CASE ws = "open"
      BY <1>2, <1>11, <2>2, <2>3 DEF RunInterrupt, replVars, turnVars, connVars, gwVars
    <2>4. CASE ws # "open"
      BY <1>1, <1>11, <2>4 DEF RunInterrupt, replVars, turnVars, connVars, gwVars
    <2> QED
      BY <2>3, <2>4
  <1>12. CASE ListenFrame \/ ListenEnd
    BY <1>1, <1>12 DEF ListenFrame, ListenEnd, replVars, turnVars, gwVars
  <1>13. CASE GwProgress \/ GwFinish \/ GwMalformed
    BY <1>1, <1>13 DEF GwProgress, GwFinish, GwMalformed, replVars, turnVars, connVars, gwVars
  <1>14. CASE ConnectionLost
    BY <1>14 DEF ConnectionLost, OpenInv, SessionsOpenOnce
  <1> QED
    BY <1>3, <1>4, <1>5, <1>6, <1>7, <1>8, <1>9, <1>10, <1>11, <1>12, <1>13, <1>14, OpenTurn,
       OpenReceive DEF Next, User, Loop, Gateway

-----------------------------------------------------------------------------
(* The theorems.                                                            *)

ChatInv == TypeInv /\ ReplInv /\ OwnInv /\ OpenInv

\* Nothing is in flight or opened when the chat begins.
LEMMA ChatInit == Init => ChatInv
  <1> SUFFICES ASSUME Init PROVE OwnInv /\ OpenInv
    BY ReplInit DEF ChatInv
  <1>1. OwnInv
    BY DEF Init, OwnInv, ListenOnce, NoListen, OneListen, ReplyIsOwn, Waits, OneFlight, InFlight,
           Texts, Frames, NoText, NoChat, NoEnd, Turn
  <1>2. OpenInv
    BY DEF Init, OpenInv, OpenSent, Opening, SessionsOpenOnce
  <1> QED
    BY <1>1, <1>2

\* No step breaks any of the four.
LEMMA ChatStep == ChatInv /\ [Next]_vars => ChatInv'
  BY ReplStep, OwnStep, OpenStep DEF ChatInv

\* What send_message returns was folded from the frames of its own turn.
THEOREM RepliesAreOwn == Spec => []ReplyIsOwn
  <1>1. ChatInv => ReplyIsOwn
    BY DEF ChatInv, OwnInv
  <1> QED
    BY <1>1, ChatInit, ChatStep, PTL DEF Spec

\* session_open goes out once for each session, before its first text.
THEOREM SessionsAreOpenedOnce == Spec => []SessionsOpenOnce
  <1>1. ChatInv => SessionsOpenOnce
    BY DEF ChatInv, OpenInv
  <1> QED
    BY <1>1, ChatInit, ChatStep, PTL DEF Spec

\* Every step of the chat is one of the contract, or none of its business: a turn is
\* asked at the prompt, answered by its own frames or by nothing, or the chat ends.
LEMMA ContractStep == ChatInv /\ [Next]_vars => [Contract!Next]_(Contract!vars)
  <1> SUFFICES ASSUME ChatInv, [Next]_vars PROVE [Contract!Next]_(Contract!vars)
    OBVIOUS
  <1> USE DEF Contract!Next, Contract!vars, Contract!Ask, Contract!Answer, Contract!Close
  <1>1. ASSUME UNCHANGED <<pc, turns, reply>> \/ (UNCHANGED <<pc, turns>> /\ pc = "turn")
        PROVE  UNCHANGED <<Turn, Phase, Shown>>
    BY <1>1 DEF Turn, Phase, Shown
  <1>2. ASSUME NEW s \in Sessions, UserMessage(s) PROVE Contract!Ask
    <2>1. pc = "prompt" /\ pc' \in {"turn", "title"} /\ turns' = Append(turns, s)
      BY <1>2 DEF UserMessage, StartTurn
    <2>2. Turn' = Turn + 1
      BY <2>1, TypeFacts DEF ChatInv, Turn
    <2> QED
      BY <2>1, <2>2 DEF Phase, Shown
  <1>3. ASSUME NEW s \in Sessions, UserCommand(s) \/ UserStop(s)
        PROVE  UNCHANGED <<Turn, Phase, Shown>>
    BY <1>3 DEF UserCommand, UserStop, replVars, turnVars, Turn, Phase, Shown
  <1>4. CASE UserQuit \/ UserAbort
    BY <1>4 DEF UserQuit, UserAbort, Turn, Phase, Shown
  <1>5. CASE RunMain
    <2>1. pc = "title" \/ (pc = "turn" /\ stage = "none") \/ pc = "command"
      BY <1>5, MainTail DEF RunMain, Running, LoopRuns, ChatInv, ReplInv, WokenOnce, TypeInv,
                            TypeOK
    <2>2. UNCHANGED <<turns, reply, Turn>>
      BY <1>5 DEF RunMain, Turn
    <2>3. CASE pc = "title"
      BY <1>5, <2>2, <2>3 DEF RunMain, StartTurn, Phase, Shown
    <2>4. CASE pc = "command"
      BY <1>5, <2>2, <2>4 DEF RunMain, Phase, Shown
    <2>5. CASE pc = "turn" /\ stage = "none" /\ reply.kind = "raised"
      BY <1>5, <2>2, <2>5 DEF RunMain, Phase, Shown
    <2>6. CASE pc = "turn" /\ stage = "none" /\ reply.kind # "raised"
      <3>1. reply.folded \in {{}, {Turn}}
        BY <2>6 DEF ChatInv, OwnInv, ReplyIsOwn
      <3>2. pc' = "prompt"
        BY <1>5, <2>6 DEF RunMain
      <3>3. Contract!Answer
        BY <2>2, <2>6, <3>1, <3>2 DEF Phase, Shown
      <3> QED
        BY <3>3
    <2> QED
      BY <2>1, <2>3, <2>4, <2>5, <2>6
  <1>6. CASE SendOpen \/ SendText \/ TextSendFailed \/ AwaitDone \/ TurnDone
    <2>1. UNCHANGED <<pc, turns>> /\ stage # "none"
      BY <1>6 DEF SendOpen, SendText, TextSendFailed, AwaitDone, TurnDone, replVars
    <2>2. pc = "turn"
      BY <2>1 DEF ChatInv, ReplInv
    <2> QED
      BY <1>1, <2>1, <2>2
  <1>7. CASE PressCtrlC \/ RunPipe \/ RunSigint \/ RunInterrupt \/ ListenFrame \/ ListenEnd
    BY <1>1, <1>7 DEF PressCtrlC, RunPipe, RunSigint, RunInterrupt, ListenFrame, ListenEnd,
                      replVars, turnVars
  <1>8. CASE HttpAnswered \/ Drained \/ Readable \/ Gateway
    BY <1>1, <1>8 DEF HttpAnswered, Drained, Readable, Gateway, GwReceive, GwProgress, GwFinish,
                      GwMalformed, ConnectionLost, replVars, turnVars
  <1>9. CASE UNCHANGED vars
    BY <1>1, <1>9 DEF vars
  <1> QED
    BY <1>2, <1>3, <1>4, <1>5, <1>6, <1>7, <1>8, <1>9 DEF Next, User, Loop

\* The chat implements the contract of one turn at a time.
THEOREM ChatImplementsContract == Spec => ImplementsContract
  <1>1. Init => Contract!Init
    BY DEF Init, Contract!Init, Turn, Phase, Shown
  <1> QED
    BY <1>1, ChatInit, ChatStep, ContractStep, PTL DEF Spec, ImplementsContract, Contract!Spec

=============================================================================
