------------------------ MODULE TerminalBridge_proofs ------------------------
(***************************************************************************)
(* Proofs about TerminalBridge, for any number of chunks and resizes.      *)
(***************************************************************************)
EXTENDS TerminalBridge, SequenceTheorems, TLAPS

\* What an iteration runs first was scheduled by the one before it; what the
\* poll adds may schedule in turn, a key among it before all else.
Carried == {"input", "resize", "wake"}
Polled  == {"detach", "winch", "exit", "error", "timer"}
Item    == (Carried \cup Polled \cup {"key"}) \X Nat
Frames  == {"open", "input", "resize", "close"} \X Nat

TypeOK ==
  /\ main \in {"start", "waiting", "returned"} /\ waiter \in BOOLEAN
  /\ tty \in {Cooked, Raw} /\ done \in BOOLEAN /\ meta \subseteq {"detach", "exit", "error"}
  /\ now \in Seq(Item) /\ later \in Seq(Item)
  /\ typed \in Nat /\ resizes \in Nat /\ sent \in Seq(Frames)
  /\ socket \in BOOLEAN /\ served \in 0..Len(sent) /\ got \in Seq(Nat)
  /\ shell \in {"none", "running", "refused", "exited", "killed"}
  /\ answer \in {"none", "exit", "error"}

-----------------------------------------------------------------------------
(* The order of the callbacks.                                             *)

\* What was scheduled stands before the key, and the key before what the poll
\* has added; a chunk in its task is the last one read, a key is the next one.
Lined(q, n) ==
  /\ \A i \in DOMAIN q : q[i][1] = "input" => i = 1 /\ q[i][2] = n
  /\ \A i \in DOMAIN q : q[i][1] = "key" => q[i][2] = n + 1
  /\ \A i, j \in DOMAIN q : i < j /\ q[j][1] \notin Polled => q[i][1] \in Carried

Has(q, kinds) == \E i \in DOMAIN q : q[i][1] \in kinds

Ordered ==
  /\ Lined(now, typed) /\ Lined(later, typed) /\ ~Has(later, Polled \cup {"key"})
  /\ Has(now, Carried \cup {"key"}) => later = <<>>

-----------------------------------------------------------------------------
(* What was written, and what the shell was given of it.                   *)

Pending == Has(now, {"input"}) \/ Has(later, {"input"})
Inputs  == {i \in DOMAIN sent : sent[i][1] = "input"}

\* The chunks written are numbered in order up to n, without a gap as long as
\* the connection lasts.
Written(n) ==
  /\ \A i \in Inputs : sent[i][2] \in 1..n
  /\ \A i, j \in Inputs : i < j => sent[i][2] < sent[j][2]
  /\ socket => \A k \in 1..n : \E i \in Inputs : sent[i][2] = k

Sending == IF Pending THEN typed > 0 /\ Written(typed - 1) ELSE Written(typed)

\* The shell has been given, in order, the chunks of the frames served.
Given ==
  /\ \A i \in DOMAIN got : got[i] = i /\ \E j \in Inputs : j <= served /\ sent[j][2] = i
  /\ shell \in {"none", "running"} => \A i \in Inputs : i <= served <=> sent[i][2] <= Len(got)
  /\ shell = "none" <=> served = 0
  /\ \A i \in DOMAIN sent : sent[i][1] = "open" <=> i = 1

\* Before anything is written nothing is scheduled; once the shell was closed no
\* chunk is in a task, and none is read.
Bounded ==
  /\ main = "start" => sent = <<>>
  /\ sent = <<>> => now = <<>> /\ later = <<>> /\ tty = Cooked /\ ~waiter /\ answer = "none"
  /\ main = "returned" => tty = Cooked
  /\ \A i \in DOMAIN sent : sent[i][1] = "close" =>
       /\ main = "returned" /\ ~Pending
       /\ \A j \in Inputs : j < i

BridgeInv == TypeOK /\ Ordered /\ Sending /\ Given /\ Bounded

-----------------------------------------------------------------------------
(* Queues of callbacks.                                                    *)

\* The rest of a queue keeps its order: it holds no chunk in a task, and none of
\* what was scheduled once its head is what the poll has added.
LEMMA Popped ==
  ASSUME NEW q \in Seq(Item), NEW n \in Nat, q # <<>>, Lined(q, n)
  PROVE  /\ Tail(q) \in Seq(Item) /\ q[1] \in Item /\ Lined(Tail(q), n)
         /\ ~Has(Tail(q), {"input"})
         /\ q[1][1] = "input" => q[1][2] = n
         /\ q[1][1] \in Polled \cup {"key"} => ~Has(Tail(q), Carried \cup {"key"})
         /\ q[1][1] = "key" => q[1][2] = n + 1 /\ Lined(Tail(q), n + 1)
         /\ \A K : Has(Tail(q), K) => Has(q, K)
         /\ \A K : Has(q, K) => Has(Tail(q), K) \/ q[1][1] \in K
<1>1. /\ Tail(q) \in Seq(Item) /\ q[1] \in Item /\ 1 \in DOMAIN q
      /\ DOMAIN q \subseteq Nat \ {0} /\ DOMAIN Tail(q) \subseteq Nat \ {0}
      /\ \A i \in DOMAIN Tail(q) : i + 1 \in DOMAIN q /\ Tail(q)[i] = q[i + 1]
      /\ \A i \in DOMAIN q : i # 1 => i - 1 \in DOMAIN Tail(q) /\ Tail(q)[i - 1] = q[i]
  OBVIOUS
<1>2. ~Has(Tail(q), {"input"})
  BY <1>1 DEF Has, Lined
<1>3. Lined(Tail(q), n)
  <2>1. \A i, j \in DOMAIN Tail(q) : i < j => i + 1 < j + 1
    BY <1>1
  <2> QED BY <1>1, <1>2, <2>1 DEF Lined, Has
<1>4. ASSUME q[1][1] \in Polled \cup {"key"} PROVE ~Has(Tail(q), Carried \cup {"key"})
  <2>1. \A j \in DOMAIN q : 1 < j => q[j][1] \in Polled
    BY <1>1, <1>4 DEF Lined, Polled, Carried
  <2>2. \A i \in DOMAIN Tail(q) : Tail(q)[i][1] \in Polled
    BY <1>1, <2>1
  <2> QED BY <2>2 DEF Has, Polled, Carried
<1>5. ASSUME q[1][1] = "key" PROVE q[1][2] = n + 1 /\ Lined(Tail(q), n + 1)
  <2>1. \A i \in DOMAIN Tail(q) : Tail(q)[i][1] \notin {"input", "key"}
    BY <1>4, <1>5 DEF Has, Carried
  <2> QED BY <1>1, <1>3, <1>5, <2>1 DEF Lined
<1>6. \A K : Has(Tail(q), K) => Has(q, K)
  BY <1>1 DEF Has
<1>7. \A K : Has(q, K) => Has(Tail(q), K) \/ q[1][1] \in K
  <2> TAKE K
  <2>1. ASSUME NEW i \in DOMAIN q, q[i][1] \in K PROVE Has(Tail(q), K) \/ q[1][1] \in K
    BY <1>1, <2>1 DEF Has
  <2> QED BY <2>1 DEF Has
<1> QED BY <1>1, <1>2, <1>3, <1>4, <1>5, <1>6, <1>7 DEF Lined

\* A resize or a wake-up scheduled after what is there keeps the order.
LEMMA Scheduled ==
  ASSUME NEW q \in Seq(Item), NEW n \in Nat, Lined(q, n), ~Has(q, Polled \cup {"key"}),
         NEW k \in {"resize", "wake"}
  PROVE  LET r == Append(q, <<k, 0>>)
         IN  /\ r \in Seq(Item) /\ Lined(r, n) /\ ~Has(r, Polled \cup {"key"})
             /\ Has(r, {"input"}) <=> Has(q, {"input"})
<1> DEFINE e == <<k, 0>>
           r == Append(q, e)
<1>1. e \in Item /\ e[1] = k
  BY DEF Item, Carried
<1>2. /\ r \in Seq(Item) /\ Len(q) \in Nat /\ DOMAIN q = 1..Len(q) /\ DOMAIN r = 1..(Len(q) + 1)
      /\ \A i \in DOMAIN q : i \in DOMAIN r /\ r[i] = q[i]
      /\ r[Len(q) + 1] = e
  BY <1>1
<1> HIDE DEF r, e
<1>3. \A i \in DOMAIN r : i \in DOMAIN q \/ (r[i][1] = k /\ \A j \in DOMAIN r : ~(i < j))
  BY <1>1, <1>2
<1>4. \A i \in DOMAIN q : q[i][1] \in Carried
  <2>1. \A i \in DOMAIN q : q[i] \in Item
    BY <1>2
  <2> QED BY <2>1 DEF Item, Has
<1>5. Lined(r, n)
  <2>1. \A i \in DOMAIN r : r[i][1] \in Carried
    BY <1>2, <1>3, <1>4 DEF Carried
  <2>2. \A i \in DOMAIN r : r[i][1] = "input" => i \in DOMAIN q
    BY <1>3
  <2>3. \A i \in DOMAIN r : r[i][1] # "key"
    BY <2>1 DEF Carried
  <2> QED BY <1>2, <2>1, <2>2, <2>3 DEF Lined
<1>6. ~Has(r, Polled \cup {"key"})
  BY <1>2, <1>3, <1>4 DEF Has, Polled, Carried
<1>7. Has(r, {"input"}) <=> Has(q, {"input"})
  BY <1>2, <1>3 DEF Has
<1> QED BY <1>2, <1>5, <1>6, <1>7 DEF r, e

\* A chunk read becomes a task behind nothing else.
LEMMA Chunk ==
  ASSUME NEW n \in Nat
  PROVE  LET r == Append(<<>>, <<"input", n>>)
         IN  /\ r \in Seq(Item) /\ Lined(r, n) /\ Has(r, {"input"}) /\ ~Has(r, Polled \cup {"key"})
<1> DEFINE r == Append(<<>>, <<"input", n>>)
<1>1. <<"input", n>> \in Item
  BY DEF Item, Carried
<1>2. r \in Seq(Item) /\ DOMAIN r = {1} /\ r[1] = <<"input", n>>
  BY <1>1
<1>3. r[1][1] = "input" /\ r[1][2] = n
  BY <1>2
<1> HIDE DEF r
<1> QED BY <1>2, <1>3 DEF r, Lined, Has, Polled, Carried

\* What the poll adds keeps the order: first a key, then what may schedule.
LEMMA AddKey ==
  ASSUME NEW q \in Seq(Item), NEW n \in Nat, Lined(q, n), ~Has(q, Polled \cup {"key"})
  PROVE  LET r == q \o <<<<"key", n + 1>>>>
         IN  /\ r \in Seq(Item) /\ Lined(r, n)
             /\ Has(r, {"input"}) <=> Has(q, {"input"})
<1> DEFINE e == <<"key", n + 1>>
           r == q \o <<e>>
<1>1. e \in Item /\ e[1] = "key" /\ e[2] = n + 1
  BY DEF Item
<1>2. /\ r \in Seq(Item) /\ Len(q) \in Nat /\ DOMAIN q = 1..Len(q) /\ DOMAIN r = 1..(Len(q) + 1)
      /\ \A i \in DOMAIN q : i \in DOMAIN r /\ r[i] = q[i]
      /\ r[Len(q) + 1] = e
  BY <1>1
<1> HIDE DEF r, e
<1>3. \A i \in DOMAIN r : i \in DOMAIN q \/ (r[i] = e /\ \A j \in DOMAIN r : ~(i < j))
  BY <1>2
<1>4. \A i \in DOMAIN q : q[i][1] \in Carried
  <2>1. \A i \in DOMAIN q : q[i] \in Item
    BY <1>2
  <2> QED BY <2>1 DEF Item, Has
<1>5. Lined(r, n)
  <2>1. \A i \in DOMAIN r : r[i][1] = "input" => i \in DOMAIN q
    BY <1>1, <1>3
  <2>2. \A i \in DOMAIN r : r[i][1] = "key" => r[i][2] = n + 1
    BY <1>1, <1>2, <1>3, <1>4 DEF Carried
  <2>3. \A i, j \in DOMAIN r : i < j => r[i][1] \in Carried
    BY <1>2, <1>3, <1>4
  <2> QED BY <1>2, <2>1, <2>2, <2>3 DEF Lined
<1>6. Has(r, {"input"}) <=> Has(q, {"input"})
  BY <1>1, <1>2, <1>3 DEF Has
<1> QED BY <1>2, <1>5, <1>6 DEF r, e

\* What the poll found goes to the end of a queue, whatever else is in it.
LEMMA AddPolled ==
  ASSUME NEW q \in Seq(Item), NEW n \in Nat, Lined(q, n),
         NEW x, x = <<>> \/ \E k \in Polled : x = <<<<k, 0>>>>
  PROVE  /\ q \o x \in Seq(Item) /\ Lined(q \o x, n)
         /\ Has(q \o x, {"input"}) <=> Has(q, {"input"})
<1>1. CASE x = <<>>
  BY <1>1
<1>2. ASSUME NEW k \in Polled, x = <<<<k, 0>>>>
      PROVE  /\ q \o x \in Seq(Item) /\ Lined(q \o x, n)
             /\ Has(q \o x, {"input"}) <=> Has(q, {"input"})
  <2> DEFINE e == <<k, 0>>
             r == q \o <<e>>
  <2>1. e \in Item /\ e[1] = k
    BY DEF Item
  <2>2. /\ r \in Seq(Item) /\ Len(q) \in Nat /\ DOMAIN q = 1..Len(q)
        /\ DOMAIN r = 1..(Len(q) + 1)
        /\ \A i \in DOMAIN q : i \in DOMAIN r /\ r[i] = q[i]
        /\ r[Len(q) + 1] = e
    BY <2>1
  <2>3. q \o x = r
    BY <1>2
  <2> HIDE DEF r, e
  <2>4. \A i \in DOMAIN r : i \in DOMAIN q \/ (r[i][1] = k /\ \A j \in DOMAIN r : ~(i < j))
    BY <2>1, <2>2
  <2>5. k \notin {"input", "key"}
    BY DEF Polled
  <2>6. \A i \in DOMAIN r : r[i][1] \notin Polled => i \in DOMAIN q
    BY <2>4
  <2>7. \A i, j \in DOMAIN r : i < j => i \in DOMAIN q
    BY <2>4
  <2>8. Lined(r, n)
    BY <2>2, <2>4, <2>5, <2>6, <2>7 DEF Lined
  <2>9. Has(r, {"input"}) <=> Has(q, {"input"})
    BY <2>2, <2>4, <2>5 DEF Has
  <2> QED BY <2>2, <2>3, <2>8, <2>9
<1> QED BY <1>1, <1>2

-----------------------------------------------------------------------------
(* The steps of the queues.                                                *)

\* Two poles of the terminal's mode.
LEMMA Modes ==
  /\ Cooked # Raw /\ ~Cooked.reader /\ ~Cooked.handler /\ Raw.reader /\ Raw.handler
BY DEF Cooked, Raw

\* An iteration begins with what was scheduled, and keeps its order.
LEMMA Polling ==
  ASSUME TypeOK, Ordered, Poll
  PROVE  /\ now' \in Seq(Item) /\ later' = <<>> /\ resizes' \in Nat
         /\ Ordered' /\ (Pending' <=> Pending)
<1>1. PICK k \in Stdin, w \in Winch, t \in Timer :
        now' = later \o k \o w \o Frame \o t /\ resizes' = resizes + Len(w)
  BY DEF Poll
<1>2. later \in Seq(Item) /\ Lined(later, typed) /\ typed \in Nat /\ typed' = typed
  BY DEF TypeOK, Ordered, Poll
<1>3. \/ k = <<<<"key", typed + 1>>>>
      \/ k = <<>> \/ \E x \in Polled : k = <<<<x, 0>>>>
  BY DEF Stdin, Polled
<1>4. w = <<>> \/ \E x \in Polled : w = <<<<x, 0>>>>
  BY DEF Winch, Polled
<1>5. Frame = <<>> \/ \E x \in Polled : Frame = <<<<x, 0>>>>
  BY DEF Frame, Polled, TypeOK
<1>6. t = <<>> \/ \E x \in Polled : t = <<<<x, 0>>>>
  BY DEF Timer, Polled
<1> DEFINE q1 == later \o k
           q2 == q1 \o w
           q3 == q2 \o Frame
           q4 == q3 \o t
<1>7. /\ q1 \in Seq(Item) /\ Lined(q1, typed)
      /\ Has(q1, {"input"}) <=> Has(later, {"input"})
  BY <1>2, <1>3, AddKey, AddPolled DEF Ordered
<1>8. now' = q4
  BY <1>1
<1> HIDE DEF q1
<1>9. /\ q2 \in Seq(Item) /\ Lined(q2, typed)
      /\ Has(q2, {"input"}) <=> Has(q1, {"input"})
  BY <1>2, <1>4, <1>7, AddPolled
<1> HIDE DEF q2
<1>10. /\ q3 \in Seq(Item) /\ Lined(q3, typed)
       /\ Has(q3, {"input"}) <=> Has(q2, {"input"})
  BY <1>2, <1>5, <1>9, AddPolled
<1> HIDE DEF q3
<1>11. /\ q4 \in Seq(Item) /\ Lined(q4, typed)
       /\ Has(q4, {"input"}) <=> Has(q3, {"input"})
  BY <1>2, <1>6, <1>10, AddPolled
<1> HIDE DEF q4
<1>12. now = <<>> /\ later' = <<>>
  BY DEF Poll
<1>13. Ordered'
  BY <1>2, <1>8, <1>11, <1>12 DEF Ordered, Lined, Has
<1>14. Pending' <=> Pending
  BY <1>7, <1>8, <1>9, <1>10, <1>11, <1>12 DEF Pending, Has
<1>15. resizes' \in Nat
  BY <1>1 DEF Winch, TypeOK
<1> QED BY <1>8, <1>11, <1>12, <1>13, <1>14, <1>15

\* A callback leaves the queues in order.  A chunk read becomes the pending one,
\* and a chunk whose task runs is pending no longer.
LEMMA Calling ==
  ASSUME TypeOK, Ordered, Callback
  PROVE  /\ now' \in Seq(Item) /\ later' \in Seq(Item) /\ typed' \in Nat /\ Ordered'
         /\ now # <<>> /\ now[1] \in Item
         /\ Key => ~Pending /\ Pending' /\ typed' = typed + 1
         /\ ~Key => typed' = typed
         /\ now[1][1] = "input" => TaskRuns /\ ~Key /\ Pending /\ ~Pending' /\ now[1][2] = typed
         /\ ~Key /\ now[1][1] # "input" => (Pending' <=> Pending)
         /\ now[1][1] = "wake" => later = <<>> /\ ~Has(now, {"input"})
<1> DEFINE k == now[1][1]
           rest == Tail(now)
<1>1. /\ now # <<>> /\ now' = rest
      /\ now \in Seq(Item) /\ later \in Seq(Item) /\ typed \in Nat
  BY DEF Callback, Stale, Key, Winched, Ended, TimedOut, TaskRuns, WaitsOn, Finish, Run, TypeOK
<1>2. /\ Lined(now, typed) /\ Lined(later, typed) /\ ~Has(later, Polled \cup {"key"})
      /\ Has(now, Carried \cup {"key"}) => later = <<>>
  BY DEF Ordered
<1>3. /\ rest \in Seq(Item) /\ now[1] \in Item /\ Lined(rest, typed) /\ ~Has(rest, {"input"})
      /\ k = "input" => now[1][2] = typed
      /\ k \in Polled \cup {"key"} => ~Has(rest, Carried \cup {"key"})
      /\ k = "key" => now[1][2] = typed + 1 /\ Lined(rest, typed + 1)
      /\ \A K : Has(rest, K) => Has(now, K)
      /\ \A K : Has(now, K) => Has(rest, K) \/ k \in K
  BY <1>1, <1>2, Popped
<1>4. k \in Carried \cup {"key"} => later = <<>>
  <2>1. \A K : k \in K => Has(now, K)
    BY <1>1 DEF Has
  <2> QED BY <1>2, <2>1
<1> HIDE DEF rest
<1>5. ASSUME UNCHANGED <<later, typed>>
      PROVE  /\ later' \in Seq(Item) /\ typed' \in Nat /\ Ordered'
             /\ k = "input" => Pending /\ ~Pending'
             /\ k # "input" => (Pending' <=> Pending)
  <2>1. Ordered'
    <3>1. Has(rest, Carried \cup {"key"}) => later = <<>>
      BY <1>2, <1>3
    <3> QED BY <1>1, <1>2, <1>3, <1>5, <3>1 DEF Ordered
  <2>2. ASSUME k = "input" PROVE Pending /\ ~Pending'
    <3>1. Has(now, {"input"})
      BY <1>1, <2>2 DEF Has
    <3>2. later = <<>>
      BY <1>4, <2>2 DEF Carried
    <3>3. ~Has(later, {"input"})
      BY <3>2 DEF Has
    <3> QED BY <1>1, <1>3, <1>5, <3>1, <3>3 DEF Pending
  <2>3. ASSUME k # "input" PROVE Pending' <=> Pending
    <3>1. Has(rest, {"input"}) <=> Has(now, {"input"})
      BY <1>3, <2>3
    <3> QED BY <1>1, <1>5, <3>1 DEF Pending
  <2> QED BY <1>1, <1>5, <2>1, <2>2, <2>3
<1>6. ASSUME k \in Polled, typed' = typed, NEW x \in {"resize", "wake"},
             later' = Append(later, <<x, 0>>)
      PROVE  /\ later' \in Seq(Item) /\ typed' \in Nat /\ Ordered' /\ (Pending' <=> Pending)
  <2>1. /\ later' \in Seq(Item) /\ Lined(later', typed) /\ ~Has(later', Polled \cup {"key"})
        /\ Has(later', {"input"}) <=> Has(later, {"input"})
    BY <1>1, <1>2, <1>6, Scheduled
  <2>2. Ordered'
    BY <1>1, <1>3, <1>6, <2>1 DEF Ordered
  <2>3. Has(rest, {"input"}) <=> Has(now, {"input"})
    BY <1>3, <1>6 DEF Polled
  <2> QED BY <1>1, <1>6, <2>1, <2>2, <2>3 DEF Pending
<1>7. ASSUME Key
      PROVE  /\ k = "key" /\ later' \in Seq(Item) /\ typed' = typed + 1 /\ Ordered'
             /\ ~Pending /\ Pending'
  <2>1. k = "key" /\ typed' = now[1][2] /\ later' = Append(later, <<"input", now[1][2]>>)
    BY <1>7 DEF Key, Run, Schedule
  <2>2. typed' = typed + 1 /\ later = <<>>
    BY <1>3, <1>4, <2>1
  <2>3. /\ later' \in Seq(Item) /\ Lined(later', typed') /\ Has(later', {"input"})
        /\ ~Has(later', Polled \cup {"key"})
    <3>1. typed' \in Nat /\ later' = Append(<<>>, <<"input", typed'>>)
      BY <1>1, <2>1, <2>2
    <3> QED BY <3>1, Chunk
  <2>4. Ordered'
    BY <1>1, <1>3, <2>1, <2>2, <2>3 DEF Ordered
  <2>5. ~Pending
    <3>1. ~Has(now, {"input"})
      BY <1>3, <2>1
    <3>2. ~Has(later, {"input"})
      BY <2>2 DEF Has
    <3> QED BY <3>1, <3>2 DEF Pending
  <2> QED BY <2>1, <2>2, <2>3, <2>4, <2>5 DEF Pending
<1>8. Key \/ UNCHANGED <<later, typed>>
      \/ /\ k \in Polled /\ typed' = typed
         /\ \E x \in {"resize", "wake"} : later' = Append(later, <<x, 0>>)
  <2>1. Winched \/ Ended \/ TimedOut => k \in Polled
    BY DEF Winched, Ended, TimedOut, Run, Polled
  <2> QED
    BY <2>1 DEF Callback, Stale, Winched, Ended, TimedOut, TaskRuns, WaitsOn, Finish, Wake, Schedule
<1>9. ~Key => typed' = typed
  BY DEF Callback, Stale, Winched, Ended, TimedOut, TaskRuns, WaitsOn, Finish
<1>10. k = "input" => TaskRuns /\ UNCHANGED <<later, typed>>
  BY DEF Callback, Stale, Key, Winched, Ended, TimedOut, TaskRuns, WaitsOn, Finish, Run
<1>11. k = "wake" => later = <<>> /\ ~Has(now, {"input"})
  BY <1>3, <1>4 DEF Carried
<1> QED
  BY <1>1, <1>3, <1>5, <1>6, <1>7, <1>8, <1>9, <1>10, <1>11 DEF Polled

\* What the gateway does with a frame.
LEMMA Served ==
  ASSUME Serve
  PROVE  LET f == sent[served + 1]
         IN  \/ f[1] = "open" /\ shell' \in {"running", "refused"} /\ got' = got
                /\ answer' \in {answer, "error"}
             \/ /\ f[1] = "input" /\ shell = "running"
                /\ got' = Append(got, f[2]) /\ UNCHANGED <<shell, answer>>
             \/ /\ f[1] = "close" /\ shell = "running"
                /\ shell' = "killed" /\ UNCHANGED <<got, answer>>
             \/ /\ f[1] # "open" /\ (f[1] = "input" => shell # "running")
                /\ UNCHANGED <<shell, got, answer>>
<1> DEFINE f == sent[served + 1]
<1>1. CASE f[1] = "open"
  BY <1>1 DEF Serve
<1>2. CASE f[1] = "input" /\ shell = "running"
  BY <1>2 DEF Serve
<1>3. CASE f[1] = "close" /\ shell = "running"
  BY <1>3 DEF Serve
<1>4. CASE f[1] # "open" /\ ~(f[1] \in {"input", "close"} /\ shell = "running")
  BY <1>4 DEF Serve
<1> QED BY <1>1, <1>2, <1>3, <1>4

\* Every step keeps the types.
LEMMA TypeStep == TypeOK /\ Ordered /\ [Next]_vars => TypeOK'
<1> SUFFICES ASSUME TypeOK, Ordered, [Next]_vars PROVE TypeOK'
  OBVIOUS
<1> USE DEF TypeOK
<1>1. \A f : f \in Frames /\ Write(f) => sent' \in Seq(Frames) /\ Len(sent') >= Len(sent)
  BY DEF Write
<1>2. \A k \in {"open", "close"} : <<k, 0>> \in Frames
  BY DEF Frames
<1>3. CASE Open
  BY <1>1, <1>2, <1>3 DEF Open, gateway
<1>4. CASE OpenFails
  BY <1>4 DEF OpenFails, gateway
<1>5. CASE Poll
  BY <1>5, Polling DEF Poll, gateway
<1>6. CASE Callback
  <2>1. /\ now' \in Seq(Item) /\ later' \in Seq(Item) /\ typed' \in Nat /\ now[1] \in Item
    BY <1>6, Calling
  <2>2. CASE Stale \/ Key \/ Winched
    <3>1. UNCHANGED <<main, waiter, tty, done, meta, resizes, sent, gateway, answer>>
      BY <2>2 DEF Stale, Key, Winched
    <3> QED BY <2>1, <3>1 DEF gateway
  <2>3. CASE Ended
    <3>1. meta' \subseteq {"detach", "exit", "error"}
      BY <2>3 DEF Ended, Recorded, Run
    <3> QED BY <2>1, <2>3, <3>1 DEF Ended, Wake, gateway
  <2>4. CASE TimedOut
    BY <2>1, <2>4 DEF TimedOut, Wake, gateway
  <2>5. CASE TaskRuns
    <3>1. now[1] \in Frames
      BY <2>1, <2>5 DEF TaskRuns, Run, Item, Frames
    <3> QED BY <1>1, <2>1, <2>5, <3>1 DEF TaskRuns, gateway
  <2>6. CASE WaitsOn
    BY <2>1, <2>6 DEF WaitsOn, gateway
  <2>7. CASE Finish
    <3>1. sent' \in Seq(Frames) /\ Len(sent') >= Len(sent)
      BY <1>1, <1>2, <2>7 DEF Finish
    <3> QED BY <2>1, <2>7, <3>1 DEF Finish, gateway
  <2> QED BY <1>6, <2>2, <2>3, <2>4, <2>5, <2>6, <2>7 DEF Callback
<1>7. CASE Serve
  <2>1. served + 1 \in DOMAIN sent /\ sent[served + 1] \in Frames
    BY <1>7 DEF Serve
  <2>2. sent[served + 1][2] \in Nat
    BY <2>1 DEF Frames
  <2>3. got' \in Seq(Nat) /\ shell' \in {"none", "running", "refused", "exited", "killed"}
        /\ answer' \in {"none", "exit", "error"}
    <3>1. Append(got, sent[served + 1][2]) \in Seq(Nat)
      BY <2>2
    <3>2. /\ got' \in {got, Append(got, sent[served + 1][2])}
          /\ shell' \in {shell, "running", "refused", "killed"} /\ answer' \in {answer, "error"}
      BY <1>7, Served
    <3> QED BY <3>1, <3>2
  <2> QED BY <1>7, <2>1, <2>3 DEF Serve
<1>8. CASE ShellExits \/ ConnectionLost
  BY <1>8 DEF ShellExits, ConnectionLost
<1>9. CASE UNCHANGED vars
  BY <1>9 DEF vars
<1> QED BY <1>3, <1>4, <1>5, <1>6, <1>7, <1>8, <1>9 DEF Next

\* Every step keeps the callbacks in order.
LEMMA OrderedStep == TypeOK /\ Ordered /\ [Next]_vars => Ordered'
<1>1. TypeOK /\ Ordered /\ Poll => Ordered'
  BY Polling
<1>2. TypeOK /\ Ordered /\ Callback => Ordered'
  BY Calling
<1>3. Open \/ OpenFails \/ Serve \/ ShellExits \/ ConnectionLost \/ UNCHANGED vars
        => UNCHANGED <<now, later, typed>>
  BY DEF Open, OpenFails, Serve, ShellExits, ConnectionLost, vars
<1>4. Ordered /\ UNCHANGED <<now, later, typed>> => Ordered'
  BY DEF Ordered, Lined, Has
<1> QED BY <1>1, <1>2, <1>3, <1>4 DEF Next

-----------------------------------------------------------------------------
(* The steps of what is written.                                           *)

\* A frame written is the last one, and the others stay where they are.
LEMMA Appended ==
  ASSUME TypeOK, NEW f \in Frames, sent' = Append(sent, f)
  PROVE  /\ Len(sent) \in Nat /\ DOMAIN sent = 1..Len(sent) /\ DOMAIN sent' = 1..(Len(sent) + 1)
         /\ \A i \in DOMAIN sent : sent'[i] = sent[i]
         /\ sent'[Len(sent) + 1] = f
         /\ f[1] # "input" => Inputs' = Inputs
         /\ f[1] = "input" => Inputs' = Inputs \cup {Len(sent) + 1}
<1>1. /\ Len(sent) \in Nat /\ DOMAIN sent = 1..Len(sent) /\ DOMAIN sent' = 1..(Len(sent) + 1)
      /\ \A i \in DOMAIN sent : sent'[i] = sent[i]
      /\ sent'[Len(sent) + 1] = f
  BY DEF TypeOK
<1>2. \A i : i \in DOMAIN sent' <=> i \in DOMAIN sent \/ i = Len(sent) + 1
  BY <1>1
<1> QED BY <1>1, <1>2 DEF Inputs

\* What happens to the frames: nothing, or one that is no chunk is added.
Aside == \/ UNCHANGED sent
         \/ \E f \in Frames : f[1] # "input" /\ sent' = Append(sent, f)

\* Then the chunks written are the same.
LEMMA WrittenAside ==
  ASSUME TypeOK, Aside, socket' => socket, NEW n \in Nat, Written(n)
  PROVE  Written(n)'
<1>1. Inputs' = Inputs /\ \A i \in Inputs : sent'[i] = sent[i]
  BY Appended DEF Aside, Inputs
<1> QED BY <1>1 DEF Written

\* A step that neither reads a chunk nor writes one.
LEMMA SendingAside ==
  ASSUME TypeOK, Sending, Aside, socket' => socket, typed' = typed, Pending' <=> Pending
  PROVE  Sending'
<1> SUFFICES ASSUME NEW n \in Nat, n = typed PROVE Sending'
  BY DEF TypeOK
<1>1. CASE Pending
  <2>1. n > 0 /\ n - 1 \in Nat /\ Written(n - 1)
    BY <1>1 DEF Sending
  <2>2. Written(n - 1)'
    BY <2>1, WrittenAside
  <2> QED BY <1>1, <2>1, <2>2 DEF Sending, Written
<1>2. CASE ~Pending
  <2>1. Written(n)'
    BY <1>2, WrittenAside DEF Sending
  <2> QED BY <1>2, <2>1 DEF Sending, Written
<1> QED BY <1>1, <1>2

\* What each step does to the frames, the chunks and the connection.
LEMMA Moves ==
  ASSUME TypeOK, Ordered, Bounded, Next
  PROVE  \/ Aside /\ (socket' => socket) /\ typed' = typed /\ (Pending' <=> Pending)
         \/ Key /\ ~Pending /\ Pending' /\ typed' = typed + 1 /\ UNCHANGED <<sent, socket>>
         \/ /\ TaskRuns /\ Pending /\ ~Pending' /\ typed' = typed /\ UNCHANGED socket
            /\ <<"input", typed>> \in Frames /\ Write(<<"input", typed>>)
<1>1. \A f \in Frames : f[1] # "input" /\ Write(f) => Aside
  BY DEF Aside, Write
<1>2. \A k \in {"open", "resize", "close"} : <<k, 0>> \in Frames /\ <<k, 0>>[1] # "input"
  BY DEF Frames
<1>3. CASE Open
  <2>1. Aside
    BY <1>1, <1>2, <1>3 DEF Open
  <2>2. UNCHANGED <<socket, typed, now, later>>
    BY <1>3 DEF Open, gateway
  <2> QED BY <2>1, <2>2 DEF Pending, Has
<1>4. CASE Poll
  BY <1>4, Polling DEF Poll, gateway, Aside
<1>5. CASE Callback /\ ~Key /\ now[1][1] # "input"
  <2>1. typed' = typed /\ (Pending' <=> Pending) /\ UNCHANGED socket
    BY <1>5, Calling DEF Callback, Stale, Winched, Ended, TimedOut, TaskRuns, WaitsOn, Finish, gateway
  <2>2. Aside
    <3>1. CASE TaskRuns
      <4>1. now[1] \in Frames
        BY <1>5, <3>1, Calling DEF TaskRuns, Run, Item, Frames
      <4> QED BY <1>1, <1>5, <3>1, <4>1 DEF TaskRuns
    <3>2. CASE Finish
      BY <1>1, <1>2, <3>2 DEF Finish, Aside
    <3>3. CASE UNCHANGED sent
      BY <3>3 DEF Aside
    <3> QED
      BY <1>5, <3>1, <3>2, <3>3 DEF Callback, Stale, Winched, Ended, TimedOut, WaitsOn
  <2> QED BY <2>1, <2>2
<1>6. CASE Key
  BY <1>6, Calling DEF Key, gateway, Callback
<1>7. CASE Callback /\ now[1][1] = "input"
  <2>1. /\ TaskRuns /\ Pending /\ ~Pending' /\ typed' = typed /\ now[1][2] = typed
        /\ now[1] \in Item
    BY <1>7, Calling
  <2>2. now[1] = <<"input", typed>> /\ now[1] \in Frames
    BY <1>7, <2>1 DEF Item, Frames
  <2> QED BY <2>1, <2>2 DEF TaskRuns, gateway
<1>8. CASE OpenFails \/ Serve \/ ShellExits \/ ConnectionLost
  <2>1. UNCHANGED <<sent, typed, now, later>> /\ (socket' => socket)
    BY <1>8 DEF OpenFails, Serve, ShellExits, ConnectionLost, gateway
  <2> QED BY <2>1 DEF Aside, Pending, Has
<1> QED BY <1>3, <1>4, <1>5, <1>6, <1>7, <1>8 DEF Next

\* The chunks are written in order and without a gap.
LEMMA SendingStep == TypeOK /\ Ordered /\ Bounded /\ Sending /\ [Next]_vars => Sending'
<1> SUFFICES ASSUME TypeOK, Ordered, Bounded, Sending, [Next]_vars PROVE Sending'
  OBVIOUS
<1>1. CASE Aside /\ (socket' => socket) /\ typed' = typed /\ (Pending' <=> Pending)
  BY <1>1, SendingAside
<1>2. CASE ~Pending /\ Pending' /\ typed' = typed + 1 /\ UNCHANGED <<sent, socket>>
  <2>1. typed \in Nat /\ typed' > 0 /\ typed' - 1 = typed
    BY <1>2 DEF TypeOK
  <2> QED BY <1>2, <2>1 DEF Sending, Written, Inputs
<1>3. ASSUME Pending, ~Pending', typed' = typed, UNCHANGED socket,
             <<"input", typed>> \in Frames, Write(<<"input", typed>>)
      PROVE  Sending'
  <2>1. typed \in Nat /\ typed > 0 /\ Written(typed - 1)
    BY <1>3 DEF Sending, TypeOK
  <2>2. CASE ~socket
    <3>1. UNCHANGED sent
      BY <1>3, <2>2 DEF Write
    <3> QED BY <1>3, <2>1, <2>2, <3>1 DEF Sending, Written, Inputs
  <2>3. CASE socket
    <3> DEFINE l == Len(sent) + 1
    <3>1. /\ l \in Nat /\ l \notin DOMAIN sent /\ \A i \in DOMAIN sent : i < l
          /\ \A i \in DOMAIN sent : sent'[i] = sent[i]
          /\ sent'[l] = <<"input", typed>> /\ Inputs' = Inputs \cup {l}
      BY <1>3, <2>3, Appended DEF Write
    <3> HIDE DEF l
    <3>2. \A i \in Inputs : i < l /\ sent'[i] = sent[i] /\ sent[i][2] \in 1..(typed - 1) /\ i \in Nat
      BY <2>1, <3>1 DEF Inputs, Written, TypeOK
    <3>3. sent'[l][2] = typed
      BY <3>1
    <3>4. \A i \in Inputs' : sent'[i][2] \in 1..typed
      BY <2>1, <3>1, <3>2, <3>3
    <3>5. \A i, j \in Inputs' : i < j => sent'[i][2] < sent'[j][2]
      <4> SUFFICES ASSUME NEW i \in Inputs', NEW j \in Inputs', i < j
                   PROVE  sent'[i][2] < sent'[j][2]
        OBVIOUS
      <4>1. i \in Inputs
        BY <3>1, <3>2
      <4>2. CASE j \in Inputs
        BY <2>1, <3>2, <4>1, <4>2 DEF Written
      <4>3. CASE j = l
        BY <2>1, <3>2, <3>3, <4>1, <4>3
      <4> QED BY <3>1, <4>2, <4>3
    <3>6. \A k \in 1..typed : \E i \in Inputs' : sent'[i][2] = k
      <4> TAKE k \in 1..typed
      <4>1. CASE k = typed
        BY <3>1, <3>3, <4>1
      <4>2. CASE k # typed
        <5>1. PICK i \in Inputs : sent[i][2] = k
          BY <2>1, <2>3, <4>2 DEF Written
        <5> QED BY <3>1, <3>2, <5>1
      <4> QED BY <4>1, <4>2
    <3> QED BY <1>3, <3>4, <3>5, <3>6 DEF Sending, Written
  <2> QED BY <2>2, <2>3 DEF TypeOK
<1>4. CASE UNCHANGED vars
  BY <1>4 DEF vars, Sending, Written, Inputs, Pending, Has
<1> QED BY <1>1, <1>2, <1>3, <1>4, Moves

-----------------------------------------------------------------------------
(* The steps of the gateway.                                               *)

\* What the shell was given is less than what is still in a task.
LEMMA GivenBefore ==
  ASSUME TypeOK, Sending, Given
  PROVE  Len(got) \in Nat /\ (Pending => Len(got) < typed)
<1>1. Len(got) \in Nat /\ typed \in Nat /\ (Len(got) # 0 => Len(got) \in DOMAIN got)
  BY DEF TypeOK
<1>2. ASSUME Pending, Len(got) # 0 PROVE Len(got) < typed
  <2>1. PICK j \in Inputs : sent[j][2] = Len(got)
    BY <1>1, <1>2 DEF Given
  <2> QED BY <1>1, <1>2, <2>1 DEF Sending, Written
<1>3. Pending => typed > 0
  BY DEF Sending
<1> QED BY <1>1, <1>2, <1>3

\* The frame served next is the chunk the shell expects, if it is a chunk.
LEMMA NextChunk ==
  ASSUME TypeOK, Sending, Given, Serve, shell = "running", sent[served + 1][1] = "input"
  PROVE  sent[served + 1][2] = Len(got) + 1
<1> DEFINE i == served + 1
           n == sent[i][2]
<1>1. i \in Inputs /\ served \in Nat /\ socket /\ typed \in Nat
  BY DEF Serve, TypeOK, Inputs
<1>2. Len(got) \in Nat /\ (n <= Len(got) <=> i <= served)
  BY <1>1 DEF Given, TypeOK
<1>3. PICK m \in Nat : Written(m)
  BY <1>1 DEF Sending
<1>4. n \in 1..m
  BY <1>1, <1>3 DEF Written
<1>5. n > Len(got)
  BY <1>1, <1>2, <1>4
<1>6. ASSUME n # Len(got) + 1 PROVE FALSE
  <2>1. Len(got) + 1 \in 1..m /\ Len(got) + 1 < n
    BY <1>2, <1>4, <1>5, <1>6
  <2>2. PICK j \in Inputs : sent[j][2] = Len(got) + 1
    BY <1>1, <1>3, <2>1 DEF Written
  <2>3. j \in Nat
    BY DEF Inputs, TypeOK
  <2>4. j # i /\ ~(i < j)
    BY <1>1, <1>3, <2>1, <2>2, <1>4 DEF Written
  <2>5. j <= served
    BY <1>1, <2>3, <2>4
  <2>6. sent[j][2] <= Len(got)
    BY <2>5 DEF Given
  <2> QED BY <1>2, <2>2, <2>6
<1> QED BY <1>6

\* Frames that are written change nothing of what was given.
LEMMA GivenWriting ==
  ASSUME TypeOK, Sending, Given, NEW f \in Frames, sent' = Append(sent, f),
         UNCHANGED <<served, shell, got>>, f[1] = "open" <=> sent = <<>>,
         f[1] = "input" => Pending /\ f[2] = typed
  PROVE  Given'
<1> DEFINE l == Len(sent) + 1
<1>1. /\ l \in Nat /\ l \notin DOMAIN sent /\ \A i \in DOMAIN sent : i < l
      /\ \A i \in DOMAIN sent : sent'[i] = sent[i]
      /\ sent'[l] = f /\ Inputs' \subseteq Inputs \cup {l} /\ Inputs \subseteq Inputs'
      /\ l \in Inputs' => f[1] = "input"
      /\ DOMAIN sent' = DOMAIN sent \cup {l} /\ served < l /\ served \in Nat
      /\ sent = <<>> <=> l = 1
  BY Appended DEF TypeOK, Inputs
<1> HIDE DEF l
<1>2. \A i \in Inputs : i \in DOMAIN sent
  BY DEF Inputs
<1>3. \A i \in DOMAIN got' : got'[i] = i /\ \E j \in Inputs' : j <= served' /\ sent'[j][2] = i
  BY <1>1, <1>2 DEF Given
<1>4. ASSUME shell' \in {"none", "running"}, NEW i \in Inputs'
      PROVE  i <= served' <=> sent'[i][2] <= Len(got')
  <2>1. CASE i \in Inputs
    BY <1>1, <1>2, <1>4, <2>1 DEF Given
  <2>2. CASE i = l
    <3>1. f[2] = typed /\ Len(got) \in Nat /\ Len(got) < typed /\ typed \in Nat
      BY <1>1, <2>2, GivenBefore DEF TypeOK
    <3> QED BY <1>1, <2>2, <3>1
  <2> QED BY <1>1, <2>1, <2>2
<1>5. shell' = "none" <=> served' = 0
  BY DEF Given
<1>6. \A i \in DOMAIN sent' : sent'[i][1] = "open" <=> i = 1
  BY <1>1 DEF Given
<1> QED BY <1>3, <1>4, <1>5, <1>6 DEF Given

\* The gateway gives a running shell the next chunk, and no other frame changes what
\* it was given.
LEMMA GivenServe == TypeOK /\ Sending /\ Given /\ Serve => Given'
<1> SUFFICES ASSUME TypeOK, Sending, Given, Serve PROVE Given'
  OBVIOUS
<1> DEFINE n == served + 1
<1>1. /\ n \in DOMAIN sent /\ served' = n /\ served \in Nat /\ UNCHANGED sent /\ sent[n] \in Frames
      /\ DOMAIN sent \subseteq Nat /\ got \in Seq(Nat) /\ Len(got) \in Nat
  BY DEF Serve, TypeOK
<1>2. Inputs' = Inputs /\ Inputs \subseteq Nat
  BY <1>1 DEF Inputs
<1>3. \A i \in DOMAIN sent' : sent'[i][1] = "open" <=> i = 1
  BY <1>1 DEF Given
<1>4. sent[n][1] = "open" <=> served = 0
  BY <1>1 DEF Given
<1>5. ASSUME got' = got
      PROVE  \A i \in DOMAIN got' : got'[i] = i /\ \E j \in Inputs' : j <= served' /\ sent'[j][2] = i
  BY <1>1, <1>2, <1>5 DEF Given
<1>6. CASE sent[n][1] = "open" /\ shell' \in {"running", "refused"} /\ got' = got
  <2>1. \A i \in Inputs : i # n
    BY <1>6 DEF Inputs
  <2>2. \A i \in Inputs' : i <= served' <=> sent'[i][2] <= Len(got')
    BY <1>1, <1>2, <1>4, <1>6, <2>1 DEF Given
  <2> QED BY <1>1, <1>3, <1>5, <1>6, <2>2 DEF Given
<1>7. CASE sent[n][1] = "input" /\ shell = "running" /\ shell' = shell /\ got' = Append(got, sent[n][2])
  <2> DEFINE g == Len(got) + 1
  <2>1. sent[n][2] = g /\ n \in Inputs
    BY <1>1, <1>7, NextChunk DEF Inputs
  <2>2. /\ DOMAIN got' = DOMAIN got \cup {g} /\ got'[g] = g /\ Len(got') = g
        /\ \A i \in DOMAIN got : got'[i] = got[i]
    BY <1>1, <1>7, <2>1
  <2>3. \A i \in DOMAIN got' : got'[i] = i /\ \E j \in Inputs' : j <= served' /\ sent'[j][2] = i
    <3>1. \A i \in DOMAIN got : got'[i] = i /\ \E j \in Inputs' : j <= served' /\ sent'[j][2] = i
      <4> SUFFICES ASSUME NEW i \in DOMAIN got
                   PROVE  got'[i] = i /\ \E j \in Inputs' : j <= served' /\ sent'[j][2] = i
        OBVIOUS
      <4>1. got[i] = i
        BY DEF Given
      <4>2. PICK j \in Inputs : j <= served /\ sent[j][2] = i
        BY DEF Given
      <4>3. j <= served'
        BY <1>1, <1>2, <4>2
      <4>4. j \in Inputs' /\ sent'[j][2] = i
        BY <1>1, <1>2, <4>2
      <4> QED BY <2>2, <4>1, <4>3, <4>4
    <3>2. n \in Inputs' /\ n <= served' /\ sent'[n][2] = g
      BY <1>1, <1>2, <2>1
    <3> QED BY <2>2, <3>1, <3>2
  <2>4. \A i \in Inputs' : i <= served' <=> sent'[i][2] <= Len(got')
    <3> SUFFICES ASSUME NEW i \in Inputs PROVE i <= n <=> sent[i][2] <= g
      BY <1>1, <1>2, <2>2
    <3>1. PICK m \in Nat : Written(m)
      BY DEF Sending, TypeOK
    <3>2. sent[i][2] \in Nat /\ (i <= served <=> sent[i][2] <= Len(got))
      BY <1>7, <3>1 DEF Given, Written
    <3>3. CASE i < n
      BY <1>1, <1>2, <3>2, <3>3
    <3>4. CASE i = n
      BY <1>1, <2>1, <3>4
    <3>5. CASE n < i
      <4>1. sent[n][2] < sent[i][2]
        BY <2>1, <3>1, <3>5 DEF Written
      <4> QED BY <1>1, <1>2, <2>1, <3>2, <3>5, <4>1
    <3> QED BY <1>1, <1>2, <3>3, <3>4, <3>5
  <2> QED BY <1>1, <1>3, <1>4, <1>7, <2>3, <2>4 DEF Given
<1>8. CASE sent[n][1] = "close" /\ shell = "running" /\ shell' = "killed" /\ got' = got
  BY <1>1, <1>3, <1>5, <1>8 DEF Given
<1>9. CASE sent[n][1] # "open" /\ (sent[n][1] = "input" => shell # "running") /\ shell' = shell /\ got' = got
  <2>1. shell # "none" /\ served' # 0
    BY <1>1, <1>4, <1>9 DEF Given
  <2>2. ASSUME shell = "running" PROVE \A i \in Inputs' : i <= served' <=> sent'[i][2] <= Len(got')
    <3>1. n \notin Inputs
      BY <1>9, <2>2 DEF Inputs
    <3> QED BY <1>1, <1>2, <1>9, <2>2, <3>1 DEF Given
  <2> QED BY <1>1, <1>3, <1>5, <1>9, <2>1, <2>2 DEF Given
<1> QED BY <1>6, <1>7, <1>8, <1>9, Served

\* The shell is given what is written, in order.
LEMMA GivenStep ==
  TypeOK /\ Ordered /\ Bounded /\ Sending /\ Given /\ [Next]_vars => Given'
<1> SUFFICES ASSUME TypeOK, Ordered, Bounded, Sending, Given, [Next]_vars PROVE Given'
  OBVIOUS
<1>1. CASE UNCHANGED <<sent, served, shell, got>>
  BY <1>1 DEF Given, Inputs
<1>2. ASSUME NEW f \in Frames, Write(f), UNCHANGED <<served, shell, got>>,
             f[1] = "open" <=> sent = <<>>, f[1] = "input" => Pending /\ f[2] = typed
      PROVE  Given'
  BY <1>1, <1>2, GivenWriting DEF Write
<1>3. CASE Open
  <2>1. <<"open", 0>> \in Frames /\ sent = <<>>
    BY <1>3 DEF Open, Bounded, Frames
  <2> QED BY <1>2, <1>3, <2>1 DEF Open, gateway
<1>4. CASE TaskRuns
  <2>1. now # <<>> /\ now[1] \in Item /\ now[1][1] \in {"input", "resize"} /\ Write(now[1])
    BY <1>4, Calling DEF TaskRuns, Run, Callback
  <2>2. now[1] \in Frames /\ now[1][1] # "open" /\ sent # <<>>
    BY <2>1 DEF Item, Frames, Bounded
  <2>3. now[1][1] = "input" => Pending /\ now[1][2] = typed
    BY <1>4, Calling DEF Callback
  <2> QED BY <1>2, <1>4, <2>1, <2>2, <2>3 DEF TaskRuns, gateway
<1>5. CASE Finish
  <2>1. <<"close", 0>> \in Frames /\ sent # <<>>
    BY <1>5 DEF Finish, Run, Bounded, Frames
  <2>2. UNCHANGED sent \/ Write(<<"close", 0>>)
    BY <1>5 DEF Finish
  <2> QED BY <1>1, <1>2, <1>5, <2>1, <2>2 DEF Finish, gateway
<1>6. CASE Serve
  BY <1>6, GivenServe
<1>7. CASE ShellExits
  BY <1>7 DEF ShellExits, Given, Inputs
<1>8. CASE \/ OpenFails \/ Poll \/ ConnectionLost \/ UNCHANGED vars
           \/ Stale \/ Key \/ Winched \/ Ended \/ TimedOut \/ WaitsOn
  BY <1>1, <1>8 DEF OpenFails, Poll, ConnectionLost, vars, gateway, Stale, Key, Winched, Ended,
                    TimedOut, WaitsOn
<1> QED BY <1>3, <1>4, <1>5, <1>6, <1>7, <1>8 DEF Next, Callback

-----------------------------------------------------------------------------
(* The end.                                                                *)

\* After the close nothing is read or written that the shell should be given.
LEMMA BoundedStep == TypeOK /\ Ordered /\ Given /\ Bounded /\ [Next]_vars => Bounded'
<1> SUFFICES ASSUME TypeOK, Ordered, Given, Bounded, [Next]_vars PROVE Bounded'
  OBVIOUS
<1> DEFINE After == \A i \in DOMAIN sent : sent[i][1] = "close" =>
                      main = "returned" /\ ~Pending /\ \A j \in Inputs : j < i
           Start == main = "start" => sent = <<>>
           Quiet == sent = <<>> => /\ now = <<>> /\ later = <<>> /\ tty = Cooked /\ ~waiter
                                   /\ answer = "none"
           Left  == main = "returned" => tty = Cooked
<1>0. Start /\ Quiet /\ Left /\ After
  BY DEF Bounded
<1>a. Start' /\ Quiet' /\ Left' /\ After' => Bounded'
  BY DEF Bounded
<1>1. ASSUME UNCHANGED sent, main = "returned" => main' = "returned" /\ (Pending' => Pending)
      PROVE  After'
  BY <1>0, <1>1 DEF Inputs
<1>2. ASSUME NEW f \in Frames, Write(f), f[1] = "input" => Pending, f[1] = "close" => main' = "returned" /\ ~Pending',
             main = "returned" => main' = "returned" /\ (Pending' => Pending)
      PROVE  After' /\ (sent' = <<>> => sent = <<>>) /\ (socket => sent' # <<>>)
  <2>1. CASE ~socket
    BY <1>1, <1>2, <2>1 DEF Write
  <2>2. CASE socket
    <3> DEFINE l == Len(sent) + 1
    <3>1. /\ l \in Nat /\ \A i \in DOMAIN sent : i < l /\ i \in Nat /\ sent'[i] = sent[i]
          /\ sent'[l] = f /\ DOMAIN sent' = DOMAIN sent \cup {l}
          /\ f[1] # "input" => Inputs' = Inputs
      BY <1>2, <2>2, Appended DEF Write
    <3> HIDE DEF l
    <3>2. sent' # <<>>
      BY <1>2, <2>2 DEF Write, TypeOK
    <3>3. ASSUME NEW i \in DOMAIN sent, sent[i][1] = "close"
          PROVE  main' = "returned" /\ ~Pending' /\ \A j \in Inputs' : j < i
      BY <1>0, <1>2, <3>1, <3>3
    <3>4. ASSUME f[1] = "close" PROVE \A j \in Inputs' : j < l
      BY <3>1, <3>4 DEF Inputs
    <3>5. After'
      BY <1>2, <3>1, <3>3, <3>4
    <3> QED BY <3>2, <3>5
  <2> QED BY <2>1, <2>2 DEF TypeOK
<1> HIDE DEF After
<1>3. \A k \in {"open", "close"} : <<k, 0>> \in Frames /\ <<k, 0>>[1] = k
  BY DEF Frames
<1>4. CASE Open
  <2>1. After' /\ sent' # <<>>
    BY <1>2, <1>3, <1>4 DEF Open
  <2> QED BY <1>0, <1>a, <1>4, <2>1, Modes DEF Open
<1>5. CASE OpenFails
  <2>1. After'
    BY <1>1, <1>5 DEF OpenFails, gateway
  <2> QED BY <1>0, <1>a, <1>5, <2>1 DEF OpenFails, gateway
<1>6. CASE Poll
  <2>1. Pending' <=> Pending
    BY <1>6, Polling
  <2>2. After'
    BY <1>1, <1>6, <2>1 DEF Poll
  <2>3. ASSUME sent = <<>> PROVE FALSE
    <3>1. /\ later = <<>> /\ Stdin = {<<>>} /\ Winch = {<<>>} /\ Frame = <<>> /\ Timer = {<<>>}
      BY <2>3, Modes DEF Bounded, Stdin, Winch, Frame, Timer
    <3>2. now' = <<>> \o <<>> \o <<>> \o <<>> \o <<>>
      BY <1>6, <3>1 DEF Poll
    <3>3. <<>> \o <<>> \o <<>> \o <<>> \o <<>> = <<>>
      OBVIOUS
    <3> QED BY <1>6, <3>2, <3>3 DEF Poll
  <2> QED BY <1>0, <1>a, <1>6, <2>2, <2>3 DEF Poll
<1>7. CASE Callback
  <2>1. now # <<>> /\ sent # <<>>
    BY <1>7, Calling DEF Bounded
  <2>2. main' = main \/ main' = "returned"
    BY <1>7 DEF Callback, Stale, Key, Winched, Ended, TimedOut, TaskRuns, WaitsOn, Finish
  <2>3. main = "returned" => main' = "returned" /\ (Pending' => Pending)
    <3>1. Key => main # "returned"
      BY Modes DEF Key, Bounded
    <3> QED BY <1>7, <2>2, <3>1, Calling
  <2>4. (tty' = tty /\ main' = main) \/ tty' = Cooked
    BY <1>7 DEF Callback, Stale, Key, Winched, Ended, TimedOut, TaskRuns, WaitsOn, Finish
  <2>5. After' /\ sent' # <<>>
    <3>1. CASE TaskRuns
      <4>1. now[1] \in Item /\ now[1][1] \in {"input", "resize"} /\ Write(now[1])
        BY <1>7, <3>1, Calling DEF TaskRuns, Run
      <4>2. now[1] \in Frames
        BY <4>1 DEF Item, Frames
      <4>3. now[1][1] = "input" => Pending
        BY <1>7, Calling
      <4> QED BY <1>2, <2>1, <2>3, <4>1, <4>2, <4>3
    <3>2. CASE Finish
      <4>1. now[1][1] = "wake" /\ main' = "returned"
        BY <3>2 DEF Finish, Run
      <4>2. later = <<>> /\ ~Has(now, {"input"}) /\ (Pending' => Pending)
        BY <1>7, <4>1, Calling DEF Key, Run
      <4>3. ~Pending'
        BY <4>2 DEF Pending, Has
      <4>4. UNCHANGED sent \/ Write(<<"close", 0>>)
        BY <3>2 DEF Finish
      <4> QED BY <1>1, <1>2, <1>3, <2>1, <2>3, <4>1, <4>3, <4>4
    <3>3. CASE UNCHANGED sent
      BY <1>1, <2>1, <2>3, <3>3
    <3> QED
      BY <1>7, <3>1, <3>2, <3>3 DEF Callback, Stale, Key, Winched, Ended, TimedOut, WaitsOn
  <2>6. Start'
    BY <1>0, <2>1, <2>2
  <2> QED BY <1>0, <1>a, <2>2, <2>4, <2>5, <2>6
<1>8. CASE Serve \/ ShellExits \/ ConnectionLost
  <2>1. UNCHANGED <<main, sent, now, later, tty, waiter>>
    BY <1>8 DEF Serve, ShellExits, ConnectionLost
  <2>2. After'
    BY <1>1, <2>1 DEF Pending, Has
  <2>3. sent = <<>> => answer' = answer
    <3>1. sent = <<>> => served = 0 /\ Len(sent) = 0
      BY DEF TypeOK
    <3> QED BY <1>8, <3>1 DEF Serve, ShellExits, ConnectionLost, Given
  <2> QED BY <1>0, <1>a, <2>1, <2>2, <2>3
<1>9. CASE UNCHANGED vars
  <2>1. After'
    BY <1>1, <1>9 DEF vars, Pending, Has
  <2> QED BY <1>0, <1>a, <1>9, <2>1 DEF vars
<1> QED BY <1>4, <1>5, <1>6, <1>7, <1>8, <1>9 DEF Next

-----------------------------------------------------------------------------
(* The theorems.                                                           *)

\* The invariant holds before anything is typed or written.
LEMMA BridgeInit == Init => BridgeInv
<1> SUFFICES ASSUME Init PROVE BridgeInv
  OBVIOUS
<1>1. TypeOK
  <2>1. \A S : <<>> \in Seq(S)
    OBVIOUS
  <2>2. Len(<<>>) = 0 /\ 0 \in 0..0
    OBVIOUS
  <2> QED BY <2>1, <2>2 DEF Init, TypeOK
<1>2. /\ DOMAIN now = {} /\ DOMAIN later = {} /\ DOMAIN sent = {} /\ DOMAIN got = {}
  BY DEF Init
<1>3. Ordered /\ ~Pending
  BY <1>2 DEF Ordered, Lined, Has, Pending
<1>4. Sending /\ Given
  BY <1>2, <1>3 DEF Init, Sending, Written, Inputs, Given
<1>5. Bounded
  BY <1>2 DEF Init, Bounded
<1> QED BY <1>1, <1>3, <1>4, <1>5 DEF BridgeInv

\* Every step keeps it.
LEMMA BridgeStep == BridgeInv /\ [Next]_vars => BridgeInv'
BY TypeStep, OrderedStep, SendingStep, GivenStep, BoundedStep DEF BridgeInv

\* The states of the bridge, its queues and its frames are well formed
\* (_run_terminal), whatever is typed and however the connection fares.
THEOREM TypeCorrect == Spec => []TypeOK
<1>1. BridgeInv => TypeOK
  BY DEF BridgeInv
<1> QED BY <1>1, BridgeInit, BridgeStep, PTL DEF Spec

\* "Every byte is forwarded": what the shell was given is what was typed, in order
\* and without a gap, however many tasks wrote it; the close follows every chunk that
\* was read, if the connection has held.
THEOREM TypedInOrder == Spec => []InputInOrder
<1>1. BridgeInv => InputInOrder
  <2> SUFFICES ASSUME BridgeInv PROVE InputInOrder
    OBVIOUS
  <2>1. \A i \in DOMAIN got : got[i] = i
    BY DEF BridgeInv, Given
  <2>2. ASSUME NEW i \in DOMAIN sent, sent[i][1] = "close"
        PROVE  ~Pending /\ \A j \in DOMAIN sent : sent[j][1] = "input" => j < i
    BY <2>2 DEF BridgeInv, Bounded, Inputs
  <2>3. ASSUME ~Pending, socket, NEW k \in 1..typed
        PROVE  \E j \in DOMAIN sent : sent[j] = <<"input", k>>
    <3>1. PICK j \in Inputs : sent[j][2] = k
      BY <2>3 DEF BridgeInv, Sending, Written
    <3>2. j \in DOMAIN sent /\ sent[j] \in Frames /\ sent[j][1] = "input"
      BY DEF BridgeInv, TypeOK, Inputs
    <3>3. sent[j] = <<"input", k>>
      BY <3>1, <3>2 DEF Frames
    <3> QED BY <3>2, <3>3
  <2> QED BY <2>1, <2>2, <2>3 DEF InputInOrder
<1> QED BY <1>1, BridgeInit, BridgeStep, PTL DEF Spec

=============================================================================
