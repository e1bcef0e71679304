---------------------------- MODULE RouterProofs ----------------------------
(***************************************************************************)
(* Router and shards for every number of shards and every queue capacity:  *)
(* what was accepted is answered or still waits, in order, and the batches *)
(* reach the router in sequence.  That much needs nothing of the route     *)
(* table.  A table that try_new accepts is sorted with one route for each  *)
(* shard, so that lookups are exact and no command is misrouted.           *)
(***************************************************************************)
EXTENDS Router, FiniteSetTheorems, WellFoundedInduction, TLAPS

\* The commands of a shard's answers.
Handled(a) == [k \in 1 .. Len(a) |-> a[k].command]

\* The batches of the first n - 1 commands.
Batches(n) == [k \in 1 .. n - 1 |-> k]

\* An answer of try_process_one for a command.
Answers == [command : Command, result : {"Processed", "Misrouted", "Engine"}]

\* The shape of the queues and histories.
ShapeInv ==
  /\ commands \in [Shards -> Seq(Command)] /\ accepted \in [Shards -> Seq(Command)]
  /\ pending \in [Shards -> Seq(Command)] /\ answered \in [Shards -> Seq(Answers)]
  /\ events \in [Shards -> Seq(Nat)] /\ received \in [Shards -> Seq(Nat)]
  /\ expected \in [Shards -> 1 .. MaxSequence]
  /\ \A s \in Shards : /\ Len(commands[s]) <= COMMAND_QUEUE /\ Len(events[s]) <= EVENT_QUEUE
                       /\ Len(pending[s]) <= 1

\* The inductive invariant of the queues.
QueuesInv == ShapeInv /\ NothingIsDropped /\ EventsInSequence

USE RouteTableAssumption, RouterAssumption DEF Shards

-----------------------------------------------------------------------------
(* Moving a command between history, pending slot and queue                *)

\* Sequences with the same elements are equal.
LEMMA SameElements ==
  ASSUME NEW S, NEW x \in Seq(S), NEW y \in Seq(S), Len(x) = Len(y),
         \A i \in 1 .. Len(x) : x[i] = y[i]
  PROVE  x = y
  OBVIOUS

\* The three parts in one sequence, element by element.
LEMMA Parts ==
  ASSUME NEW S, NEW h \in Seq(S), NEW p \in Seq(S), NEW c \in Seq(S)
  PROVE  /\ h \o p \o c \in Seq(S) /\ Len(h \o p \o c) = Len(h) + Len(p) + Len(c)
         /\ \A i \in 1 .. Len(h) : (h \o p \o c)[i] = h[i]
         /\ \A i \in 1 .. Len(p) : (h \o p \o c)[Len(h) + i] = p[i]
         /\ \A i \in 1 .. Len(c) : (h \o p \o c)[Len(h) + Len(p) + i] = c[i]
  OBVIOUS

\* A sequence of one command.
LEMMA OneElement ==
  ASSUME NEW p \in Seq(Command), Len(p) <= 1, p # <<>>
  PROVE  Head(p) \in Command /\ p = <<Head(p)>>
<1>0. Len(p) = 1
  <2>1. ASSUME Len(p) = 0  PROVE FALSE
    <3> DEFINE e == <<>>
    <3>1. e \in Seq(Command) /\ Len(e) = 0
      OBVIOUS
    <3> HIDE DEF e
    <3>2. p = e
      BY <2>1, <3>1, SameElements
    <3> QED  BY <3>2 DEF e
  <2>2. Len(p) \in Nat /\ Len(p) # 0
    BY <2>1
  <2>3. \A n \in Nat : n <= 1 /\ n # 0 => n = 1
    OBVIOUS
  <2> QED  BY <2>2, <2>3, Zenon
<1>1. Head(p) \in Command /\ Head(p) = p[1]
  OBVIOUS
<1> DEFINE y == <<Head(p)>>
<1>2. y \in Seq(Command) /\ Len(y) = 1 /\ y[1] = p[1]
  BY <1>1
<1> HIDE DEF y
<1>3. p = y
  BY <1>0, <1>2, SameElements
<1> QED  BY <1>1, <1>3 DEF y

\* A routed command goes to the end.
LEMMA AtTheEnd ==
  ASSUME NEW h \in Seq(Command), NEW p \in Seq(Command), NEW c \in Seq(Command), NEW m \in Command
  PROVE  Append(h \o p \o c, m) = h \o p \o Append(c, m)
<1> DEFINE x == Append(h \o p \o c, m)
           y == h \o p \o Append(c, m)
<1>1. x \in Seq(Command) /\ Len(x) = Len(h) + Len(p) + Len(c) + 1
  BY Parts
<1>2. y \in Seq(Command) /\ Len(y) = Len(h) + Len(p) + Len(c) + 1
  OBVIOUS
<1>3. ASSUME NEW i \in 1 .. Len(x)  PROVE x[i] = y[i]
  <2>1. CASE i <= Len(h)
    BY <1>1, <2>1
  <2>2. CASE i > Len(h) /\ i <= Len(h) + Len(p)
    BY <1>1, <2>2
  <2>3. CASE i > Len(h) + Len(p)
    BY SMTT(30), <1>1, <2>3
  <2> QED  BY SMTT(60), <1>1, <2>1, <2>2, <2>3
<1> HIDE DEF x, y
<1>4. x = y
  BY <1>1, <1>2, <1>3, SameElements
<1> QED  BY <1>4 DEF x, y

\* The pending command is answered.
LEMMA PendingAnswered ==
  ASSUME NEW h \in Seq(Command), NEW m \in Command, NEW c \in Seq(Command)
  PROVE  h \o <<m>> \o c = Append(h, m) \o <<>> \o c
  OBVIOUS

\* The head of the queue is answered.
LEMMA HeadAnswered ==
  ASSUME NEW h \in Seq(Command), NEW c \in Seq(Command), c # <<>>
  PROVE  h \o <<>> \o c = Append(h, Head(c)) \o <<>> \o Tail(c)
  OBVIOUS

\* The head of the queue becomes pending.
LEMMA HeadPending ==
  ASSUME NEW h \in Seq(Command), NEW c \in Seq(Command), c # <<>>
  PROVE  h \o <<>> \o c = h \o <<Head(c)>> \o Tail(c)
  OBVIOUS

\* The handled commands, one for each answer.
LEMMA HandledIs ==
  ASSUME NEW a \in Seq(Answers)
  PROVE  /\ Handled(a) \in Seq(Command) /\ Len(Handled(a)) = Len(a)
         /\ \A k \in 1 .. Len(a) : Handled(a)[k] = a[k].command
<1>1. ASSUME NEW r \in Answers  PROVE r.command \in Command
  BY DEF Answers
<1> HIDE DEF Answers
<1>2. Len(a) \in Nat /\ \A k \in 1 .. Len(a) : a[k] \in Answers
  OBVIOUS
<1>3. \A k \in 1 .. Len(a) : a[k].command \in Command
  BY <1>1, <1>2
<1>4. ASSUME NEW C, NEW n \in Nat, NEW f \in [1 .. n -> C]
      PROVE  f \in Seq(C) /\ Len(f) = n
  OBVIOUS
<1>5. /\ Handled(a) \in [1 .. Len(a) -> Command]
      /\ \A k \in 1 .. Len(a) : Handled(a)[k] = a[k].command
  BY <1>3 DEF Handled
<1> QED  BY <1>2, <1>4, <1>5

\* One more answer is one more handled command.
LEMMA HandledNext ==
  ASSUME NEW a \in Seq(Answers), NEW r \in Answers
  PROVE  /\ Handled(a) \in Seq(Command)
         /\ Handled(Append(a, r)) = Append(Handled(a), r.command)
<1>1. /\ Handled(a) \in Seq(Command) /\ Len(Handled(a)) = Len(a)
      /\ \A k \in 1 .. Len(a) : Handled(a)[k] = a[k].command
  BY HandledIs
<1>2. Append(a, r) \in Seq(Answers) /\ r.command \in Command
  BY DEF Answers
<1> DEFINE b == Append(a, r)
           x == Handled(b)
           y == Append(Handled(a), r.command)
<1>3. /\ b \in Seq(Answers) /\ Len(b) = Len(a) + 1 /\ b[Len(a) + 1] = r
      /\ \A k \in 1 .. Len(a) : b[k] = a[k]
  OBVIOUS
<1>4. y \in Seq(Command) /\ Len(y) = Len(a) + 1 /\ y[Len(a) + 1] = r.command
  BY <1>1, <1>2
<1>5. \A k \in 1 .. Len(a) : y[k] = a[k].command
  BY <1>1, <1>2
<1> HIDE DEF b, y
<1>6. /\ x \in Seq(Command) /\ Len(x) = Len(b)
      /\ \A k \in 1 .. Len(b) : x[k] = b[k].command
  BY <1>3, HandledIs
<1> HIDE DEF x
<1>7. x = y
  BY SMTT(30), <1>3, <1>4, <1>5, <1>6, SameElements
<1> QED  BY <1>1, <1>7 DEF b, x, y

-----------------------------------------------------------------------------
(* Batches on their way to the router                                      *)

\* A batch popped by the router stays in the sequence.
LEMMA BatchPopped ==
  ASSUME NEW r \in Seq(Nat), NEW e \in Seq(Nat), e # <<>>
  PROVE  Append(r, Head(e)) \o Tail(e) = r \o e
<1> DEFINE x == Append(r, Head(e)) \o Tail(e)
           y == r \o e
<1>1. x \in Seq(Nat) /\ y \in Seq(Nat) /\ Len(x) = Len(y)
  OBVIOUS
<1>2. \A k \in 1 .. Len(x) : x[k] = y[k]
  OBVIOUS
<1> HIDE DEF x, y
<1>3. x = y
  BY SMTT(30), <1>1, <1>2, SameElements
<1> QED  BY SMTT(30), <1>3 DEF x, y

\* The batch of the expected command is the next one.
LEMMA BatchPublished ==
  ASSUME NEW r \in Seq(Nat), NEW e \in Seq(Nat), NEW n \in Nat \ {0},
         r \o e = Batches(n)
  PROVE  r \o Append(e, n) = Batches(n + 1)
<1> DEFINE x == r \o Append(e, n)
           y == Batches(n + 1)
           z == r \o e
<1>1. /\ y \in Seq(Nat) /\ Len(y) = n
      /\ \A k \in 1 .. n : y[k] = k
  BY DEF Batches
<1>2. /\ z \in Seq(Nat) /\ Len(z) = n - 1
      /\ \A k \in 1 .. n - 1 : z[k] = k
  BY DEF Batches
<1>3. /\ x \in Seq(Nat) /\ Len(x) = Len(z) + 1
      /\ \A k \in 1 .. Len(z) : x[k] = z[k]
      /\ x[Len(z) + 1] = n
  OBVIOUS
<1> HIDE DEF x, y, z
<1>4. Len(x) = n /\ Len(x) = Len(y)
  BY <1>1, <1>2, <1>3
<1>5. ASSUME NEW k \in 1 .. Len(x)  PROVE x[k] = y[k]
  <2>1. CASE k = n
    BY <1>1, <1>2, <1>3, <2>1
  <2>2. CASE k # n
    <3>1. k \in 1 .. n - 1
      BY <1>4, <2>2
    <3>2. k \in 1 .. n /\ k \in 1 .. Len(z)
      BY <1>2, <3>1
    <3>3. x[k] = z[k] /\ z[k] = k /\ y[k] = k
      BY <1>1, <1>2, <1>3, <3>1, <3>2, Zenon
    <3> QED  BY <3>3
  <2> QED  BY <2>1, <2>2
<1>6. x = y
  BY <1>1, <1>3, <1>4, <1>5, SameElements
<1> QED  BY <1>6 DEF x, y

-----------------------------------------------------------------------------
(* The actions                                                             *)

\* The queues start empty.
LEMMA QueuesInit == Init => QueuesInv
<1> SUFFICES ASSUME Init  PROVE QueuesInv
  OBVIOUS
<1>1. /\ <<>> \in Seq(Command) /\ <<>> \in Seq(Answers) /\ <<>> \in Seq(Nat)
      /\ Len(<<>>) = 0
  OBVIOUS
<1>2. ShapeInv
  BY <1>1 DEF Init, ShapeInv
<1>3. /\ <<>> = [k \in 1 .. 0 |-> k]
      /\ <<>> \o <<>> = <<>>
  OBVIOUS
<1>4. Handled(<<>>) \o <<>> \o <<>> = <<>>
  BY DEF Handled
<1>5. NothingIsDropped
  BY <1>4 DEF Init, NothingIsDropped, Handled
<1>6. EventsInSequence
  BY <1>3 DEF Init, EventsInSequence
<1> QED  BY <1>2, <1>5, <1>6 DEF QueuesInv

\* A routed command is accepted and queued in one step; a lookup outside the
\* shards would change nothing.
LEMMA RouteKeeps ==
  ASSUME QueuesInv, NEW command \in Command, RouteCommand(command)
  PROVE  QueuesInv'
<1> DEFINE s == ShardFor(table, command.instrument_id)
<1>1. /\ Len(commands[s]) < COMMAND_QUEUE
      /\ commands' = [commands EXCEPT ![s] = Append(@, command)]
      /\ accepted' = [accepted EXCEPT ![s] = Append(@, command)]
      /\ UNCHANGED <<pending, expected, events, answered, received>>
  BY DEF RouteCommand
<1>2. ShapeInv /\ NothingIsDropped /\ EventsInSequence
  BY DEF QueuesInv
<1> HIDE DEF s
<1>3. ASSUME NEW t \in Shards
      PROVE  /\ commands[t] \in Seq(Command) /\ accepted[t] \in Seq(Command)
             /\ Len(commands[t]) <= COMMAND_QUEUE
             /\ pending[t] \in Seq(Command) /\ answered[t] \in Seq(Answers)
  BY Zenon, <1>2 DEF ShapeInv
<1>4. CASE s \notin Shards
  <2>1. commands' = commands /\ accepted' = accepted
    BY <1>1, <1>2, <1>4 DEF ShapeInv
  <2> QED
    BY ZenonT(60), <1>1, <1>2, <2>1 DEF QueuesInv, ShapeInv, NothingIsDropped, EventsInSequence
<1>5. CASE s \in Shards
  <2>1. /\ Append(commands[s], command) \in Seq(Command)
        /\ Append(accepted[s], command) \in Seq(Command)
        /\ Len(Append(commands[s], command)) <= COMMAND_QUEUE
    BY <1>1, <1>3, <1>5
  <2>2. ShapeInv'
    BY Zenon, <1>1, <1>2, <1>5, <2>1 DEF ShapeInv
  <2>3. ASSUME NEW t \in Shards
        PROVE  accepted'[t] = Handled(answered[t]) \o pending[t] \o commands'[t]
    <3>1. accepted[t] = Handled(answered[t]) \o pending[t] \o commands[t]
      BY Zenon, <1>2 DEF NothingIsDropped, Handled
    <3>2. CASE t # s
      BY Zenon, <1>1, <1>2, <3>1, <3>2 DEF ShapeInv
    <3>3. CASE t = s
      <4>1. /\ accepted'[t] = Append(accepted[t], command)
            /\ commands'[t] = Append(commands[t], command)
        BY Zenon, <1>1, <1>2, <3>3 DEF ShapeInv
      <4>2. Handled(answered[t]) \in Seq(Command)
        BY <1>3, HandledIs
      <4>3. pending[t] \in Seq(Command) /\ commands[t] \in Seq(Command)
        BY <1>3
      <4>4. Append(Handled(answered[t]) \o pending[t] \o commands[t], command)
              = Handled(answered[t]) \o pending[t] \o Append(commands[t], command)
        <5> DEFINE h == Handled(answered[t])
                   p == pending[t]
                   c == commands[t]
        <5>1. h \in Seq(Command) /\ p \in Seq(Command) /\ c \in Seq(Command)
          BY <4>2, <4>3
        <5> HIDE DEF h, p, c
        <5>2. Append(h \o p \o c, command) = h \o p \o Append(c, command)
          BY ZenonT(60), <5>1, AtTheEnd
        <5> QED  BY <5>2 DEF h, p, c
      <4> QED  BY <3>1, <4>1, <4>4, Zenon
    <3> QED  BY Zenon, <3>2, <3>3
  <2>4. NothingIsDropped'
    BY Zenon, <1>1, <2>3 DEF NothingIsDropped, Handled
  <2>5. EventsInSequence'
    BY Zenon, <1>1, <1>2 DEF EventsInSequence
  <2> QED  BY <2>2, <2>4, <2>5 DEF QueuesInv
<1> QED  BY <1>4, <1>5

\* A popped batch moves from the queue to the router.
LEMMA TryEventKeeps ==
  ASSUME QueuesInv, NEW s \in Shards, TryEvent(s)
  PROVE  QueuesInv'
<1>1. /\ events[s] # <<>>
      /\ received' = [received EXCEPT ![s] = Append(@, Head(events[s]))]
      /\ events' = [events EXCEPT ![s] = Tail(@)]
      /\ UNCHANGED <<commands, pending, expected, accepted, answered>>
  BY DEF TryEvent
<1>2. ShapeInv /\ NothingIsDropped /\ EventsInSequence
  BY DEF QueuesInv
<1>3. events[s] \in Seq(Nat) /\ received[s] \in Seq(Nat) /\ Len(events[s]) <= EVENT_QUEUE
  BY <1>2 DEF ShapeInv
<1>4. /\ Tail(events[s]) \in Seq(Nat) /\ Len(Tail(events[s])) <= EVENT_QUEUE
      /\ Append(received[s], Head(events[s])) \in Seq(Nat)
  BY <1>1, <1>3
<1>5. ShapeInv'
  BY Zenon, <1>1, <1>2, <1>4 DEF ShapeInv
<1>6. ASSUME NEW t \in Shards  PROVE received'[t] \o events'[t] = received[t] \o events[t]
  <2>1. CASE t # s
    BY Zenon, <1>1, <1>2, <2>1 DEF ShapeInv
  <2>2. CASE t = s
    <3>1. /\ received'[t] = Append(received[s], Head(events[s]))
          /\ events'[t] = Tail(events[s])
      BY <1>1, <1>2, <2>2 DEF ShapeInv
    <3> QED  BY ZenonT(60), <1>1, <1>3, <2>2, <3>1, BatchPopped
  <2> QED  BY Zenon, <2>1, <2>2
<1>7. EventsInSequence'
  BY Zenon, <1>1, <1>2, <1>6 DEF EventsInSequence
<1>8. NothingIsDropped'
  BY Zenon, <1>1, <1>2 DEF NothingIsDropped
<1> QED  BY <1>5, <1>7, <1>8 DEF QueuesInv

\* What a shard with work knows of its queues: where its next command is, and
\* what is left behind it.
LEMMA NextIsCommand ==
  ASSUME ShapeInv, NEW s \in Shards, pending[s] # <<>> \/ commands[s] # <<>>
  PROVE  /\ NextCommand(s) \in Command
         /\ pending[s] # <<>> => pending[s] = <<NextCommand(s)>>
         /\ pending[s] = <<>> => NextCommand(s) = Head(commands[s])
<1>1. /\ commands[s] \in Seq(Command) /\ pending[s] \in Seq(Command)
      /\ Len(pending[s]) <= 1
  BY Zenon DEF ShapeInv
<1>2. CASE pending[s] # <<>>
  <2>1. NextCommand(s) = Head(pending[s])
    BY <1>2 DEF NextCommand
  <2>2. Head(pending[s]) \in Command /\ pending[s] = <<Head(pending[s])>>
    BY <1>1, <1>2, OneElement
  <2> QED  BY <1>2, <2>1, <2>2
<1>3. CASE pending[s] = <<>>
  <2>1. NextCommand(s) = Head(commands[s]) /\ commands[s] # <<>>
    BY <1>3 DEF NextCommand
  <2>2. Head(commands[s]) \in Command
    BY <1>1, <2>1
  <2> QED  BY <1>3, <2>1, <2>2
<1> QED  BY <1>2, <1>3

\* The queue after a command was taken from it, or from the pending slot.
LEMMA QueueLeft ==
  ASSUME ShapeInv, NEW s \in Shards, pending[s] # <<>> \/ commands[s] # <<>>,
         commands' = [commands EXCEPT ![s] = IF pending[s] # <<>> THEN @ ELSE Tail(@)]
  PROVE  /\ commands' \in [Shards -> Seq(Command)]
         /\ \A t \in Shards : Len(commands'[t]) <= COMMAND_QUEUE
         /\ commands'[s] = IF pending[s] # <<>> THEN commands[s] ELSE Tail(commands[s])
         /\ \A t \in Shards \ {s} : commands'[t] = commands[t]
<1> DEFINE c == IF pending[s] # <<>> THEN commands[s] ELSE Tail(commands[s])
<1>1. commands[s] \in Seq(Command) /\ Len(commands[s]) <= COMMAND_QUEUE
  BY Zenon DEF ShapeInv
<1>2. c \in Seq(Command) /\ Len(c) <= COMMAND_QUEUE
  BY <1>1
<1>3. commands' = [commands EXCEPT ![s] = c]
  OBVIOUS
<1> HIDE DEF c
<1>4. /\ commands' \in [Shards -> Seq(Command)] /\ commands'[s] = c
      /\ \A t \in Shards : Len(commands'[t]) <= COMMAND_QUEUE
      /\ \A t \in Shards \ {s} : commands'[t] = commands[t]
  BY ZenonT(60), <1>2, <1>3 DEF ShapeInv
<1> QED  BY <1>4 DEF c

\* An answered command moves from the pending slot or the queue to the answers.
LEMMA AnswerKeeps ==
  ASSUME ShapeInv, NothingIsDropped, NEW s \in Shards,
         pending[s] # <<>> \/ commands[s] # <<>>,
         NEW result \in {"Processed", "Misrouted", "Engine"},
         Take(s), Answer(s, result), UNCHANGED accepted
  PROVE  /\ commands' \in [Shards -> Seq(Command)] /\ pending' \in [Shards -> Seq(Command)]
         /\ answered' \in [Shards -> Seq(Answers)]
         /\ \A t \in Shards : Len(commands'[t]) <= COMMAND_QUEUE /\ Len(pending'[t]) <= 1
         /\ NothingIsDropped'
<1> DEFINE m == NextCommand(s)
           r == [command |-> m, result |-> result]
<1>1. /\ m \in Command
      /\ pending[s] # <<>> => pending[s] = <<m>>
      /\ pending[s] = <<>> => m = Head(commands[s])
  BY NextIsCommand
<1>2. /\ commands' \in [Shards -> Seq(Command)]
      /\ \A t \in Shards : Len(commands'[t]) <= COMMAND_QUEUE
      /\ commands'[s] = IF pending[s] # <<>> THEN commands[s] ELSE Tail(commands[s])
      /\ \A t \in Shards \ {s} : commands'[t] = commands[t]
  BY Zenon, QueueLeft DEF Take
<1>3. r \in Answers /\ r.command = m
  BY <1>1 DEF Answers
<1> HIDE DEF m
<1>4. answered' = [answered EXCEPT ![s] = Append(@, r)] /\ pending' = [pending EXCEPT ![s] = <<>>]
  BY DEF Answer, Take, m
<1> HIDE DEF r
<1>5. /\ commands[s] \in Seq(Command) /\ pending[s] \in Seq(Command)
      /\ answered[s] \in Seq(Answers) /\ Append(answered[s], r) \in Seq(Answers)
  BY <1>3 DEF ShapeInv
<1>6. <<>> \in Seq(Command) /\ Len(<<>>) = 0
  OBVIOUS
<1>7. /\ pending' \in [Shards -> Seq(Command)] /\ pending'[s] = <<>>
      /\ \A t \in Shards \ {s} : pending'[t] = pending[t]
  BY <1>4, <1>6 DEF ShapeInv
<1>8. ASSUME NEW t \in Shards  PROVE Len(pending'[t]) <= 1
  <2>1. CASE t # s
    BY <1>7, <2>1 DEF ShapeInv
  <2>2. CASE t = s
    BY <1>7, <2>2
  <2> QED  BY <2>1, <2>2
<1>9. /\ answered' \in [Shards -> Seq(Answers)] /\ answered'[s] = Append(answered[s], r)
      /\ \A t \in Shards \ {s} : answered'[t] = answered[t]
  BY Zenon, <1>4, <1>5 DEF ShapeInv
<1>10. ASSUME NEW t \in Shards
       PROVE  accepted[t] = Handled(answered'[t]) \o pending'[t] \o commands'[t]
  <2>1. accepted[t] = Handled(answered[t]) \o pending[t] \o commands[t]
    BY Zenon DEF NothingIsDropped, Handled
  <2>2. CASE t # s
    BY Zenon, <1>2, <1>7, <1>9, <2>1, <2>2
  <2>3. CASE t = s
    <3> DEFINE h == Handled(answered[s])
               c == commands[s]
    <3>1. h \in Seq(Command) /\ Handled(answered'[s]) = Append(h, m) /\ c \in Seq(Command)
      BY Zenon, <1>3, <1>5, <1>9, HandledNext
    <3>2. accepted[s] = h \o pending[s] \o c
      BY Zenon, <2>1, <2>3
    <3>3. commands'[s] = IF pending[s] # <<>> THEN c ELSE Tail(c)
      BY <1>2
    <3>4. pending[s] = <<>> => c # <<>> /\ m = Head(c)
      BY <1>1
    <3> HIDE DEF h, c
    <3>5. CASE pending[s] # <<>>
      <4>1. h \o <<m>> \o c = Append(h, m) \o <<>> \o c
        BY SMTT(30), <1>1, <3>1, PendingAnswered
      <4> QED  BY <1>1, <1>7, <2>3, <3>1, <3>2, <3>3, <3>5, <4>1, Zenon
    <3>6. CASE pending[s] = <<>>
      <4>1. h \o <<>> \o c = Append(h, m) \o <<>> \o Tail(c)
        BY SMTT(30), <3>1, <3>4, <3>6, HeadAnswered
      <4> QED  BY <1>7, <2>3, <3>1, <3>2, <3>3, <3>6, <4>1, Zenon
    <3> QED  BY Zenon, <3>5, <3>6
  <2> QED  BY Zenon, <2>2, <2>3
<1>11. NothingIsDropped'
  BY Zenon, <1>10 DEF NothingIsDropped, Handled
<1> QED  BY Zenon, <1>2, <1>7, <1>8, <1>9, <1>11

\* A command whose event does not fit stays with the shard.
LEMMA BackpressureKeeps ==
  ASSUME ShapeInv, NothingIsDropped, NEW s \in Shards,
         pending[s] # <<>> \/ commands[s] # <<>>,
         pending' = [pending EXCEPT ![s] = <<NextCommand(s)>>],
         commands' = [commands EXCEPT ![s] = IF pending[s] # <<>> THEN @ ELSE Tail(@)],
         UNCHANGED <<accepted, answered>>
  PROVE  /\ commands' \in [Shards -> Seq(Command)] /\ pending' \in [Shards -> Seq(Command)]
         /\ \A t \in Shards : Len(commands'[t]) <= COMMAND_QUEUE /\ Len(pending'[t]) <= 1
         /\ NothingIsDropped'
<1> DEFINE m == NextCommand(s)
<1>1. /\ m \in Command
      /\ pending[s] # <<>> => pending[s] = <<m>>
      /\ pending[s] = <<>> => m = Head(commands[s])
  BY NextIsCommand
<1>2. /\ commands' \in [Shards -> Seq(Command)]
      /\ \A t \in Shards : Len(commands'[t]) <= COMMAND_QUEUE
      /\ commands'[s] = IF pending[s] # <<>> THEN commands[s] ELSE Tail(commands[s])
      /\ \A t \in Shards \ {s} : commands'[t] = commands[t]
  BY Zenon, QueueLeft
<1>3. pending' = [pending EXCEPT ![s] = <<m>>]
  OBVIOUS
<1> HIDE DEF m
<1>4. <<m>> \in Seq(Command) /\ Len(<<m>>) = 1
  BY <1>1
<1>5. /\ pending' \in [Shards -> Seq(Command)] /\ pending'[s] = <<m>>
      /\ \A t \in Shards \ {s} : pending'[t] = pending[t]
  BY <1>3, <1>4 DEF ShapeInv
<1>6. \A t \in Shards : Len(pending'[t]) <= 1
  BY <1>4, <1>5 DEF ShapeInv
<1>7. ASSUME NEW t \in Shards
      PROVE  accepted[t] = Handled(answered[t]) \o pending'[t] \o commands'[t]
  <2>1. accepted[t] = Handled(answered[t]) \o pending[t] \o commands[t]
    BY Zenon DEF NothingIsDropped, Handled
  <2>2. CASE t # s
    BY SMTT(30), <1>2, <1>5, <2>1, <2>2
  <2>3. CASE t = s /\ pending[s] # <<>>
    BY <1>1, <1>2, <1>5, <2>1, <2>3, Zenon
  <2>4. CASE t = s /\ pending[s] = <<>>
    <3> DEFINE h == Handled(answered[s])
               c == commands[s]
    <3>1. answered[s] \in Seq(Answers) /\ c \in Seq(Command) /\ c # <<>> /\ m = Head(c)
      BY <1>1, <2>4 DEF ShapeInv
    <3>2. h \in Seq(Command)
      BY <3>1, HandledIs
    <3>3. accepted[t] = h \o <<>> \o c /\ commands'[t] = Tail(c) /\ pending'[t] = <<m>>
      BY <1>2, <1>5, <2>1, <2>4, Zenon
    <3>4. Handled(answered[t]) = h
      BY <2>4
    <3> HIDE DEF h, c
    <3>5. h \o <<>> \o c = h \o <<m>> \o Tail(c)
      BY Zenon, <3>1, <3>2, HeadPending
    <3> QED  BY <3>3, <3>4, <3>5, Zenon
  <2> QED  BY Zenon, <2>2, <2>3, <2>4
<1>8. NothingIsDropped'
  BY Zenon, <1>7 DEF NothingIsDropped, Handled
<1> QED  BY <1>2, <1>5, <1>6, <1>8

\* A processed command is answered and its batch is published; a refused one is
\* answered without a batch; backpressure answers nothing.
LEMMA TryProcessOneKeeps ==
  ASSUME QueuesInv, NEW s \in Shards, TryProcessOne(s)
  PROVE  QueuesInv'
<1>1. (pending[s] # <<>> \/ commands[s] # <<>>) /\ UNCHANGED accepted /\ UNCHANGED received
  BY DEF TryProcessOne
<1>2. ShapeInv /\ NothingIsDropped /\ EventsInSequence
  BY DEF QueuesInv
<1>3. CASE /\ Result(s) = "Processed" /\ Take(s) /\ Answer(s, "Processed")
           /\ expected' = [expected EXCEPT ![s] = @ + 1]
           /\ events' = [events EXCEPT ![s] = Append(@, NextCommand(s).sequence)]
  <2>1. /\ commands' \in [Shards -> Seq(Command)] /\ pending' \in [Shards -> Seq(Command)]
        /\ answered' \in [Shards -> Seq(Answers)]
        /\ \A t \in Shards : Len(commands'[t]) <= COMMAND_QUEUE /\ Len(pending'[t]) <= 1
        /\ NothingIsDropped'
    BY ZenonT(60), <1>1, <1>2, <1>3, AnswerKeeps
  <2>2. /\ NextCommand(s).sequence = expected[s] /\ expected[s] # MaxSequence
        /\ ~ (Len(events[s]) >= EVENT_QUEUE)
    BY <1>3 DEF Result
  <2>3. /\ events[s] \in Seq(Nat) /\ received[s] \in Seq(Nat)
        /\ expected[s] \in 1 .. MaxSequence
    BY <1>2 DEF ShapeInv
  <2>4. expected[s] \in Nat \ {0} /\ expected[s] + 1 \in 1 .. MaxSequence
    BY <2>2, <2>3
  <2>5. /\ Append(events[s], expected[s]) \in Seq(Nat)
        /\ Len(Append(events[s], expected[s])) <= EVENT_QUEUE
    BY <2>2, <2>3, <2>4
  <2>6. events' = [events EXCEPT ![s] = Append(events[s], expected[s])]
    BY <1>3, <2>2
  <2>7. /\ events' \in [Shards -> Seq(Nat)] /\ expected' \in [Shards -> 1 .. MaxSequence]
        /\ \A t \in Shards : Len(events'[t]) <= EVENT_QUEUE
    BY ZenonT(60), <1>2, <1>3, <2>4, <2>5, <2>6 DEF ShapeInv
  <2>8. ShapeInv'
    BY Zenon, <1>1, <1>2, <2>1, <2>7 DEF ShapeInv
  <2>9. ASSUME NEW t \in Shards  PROVE received[t] \o events'[t] = Batches(expected'[t])
    <3>1. received[t] \o events[t] = Batches(expected[t])
      BY Zenon, <1>2 DEF EventsInSequence, Batches
    <3>2. CASE t # s
      BY Zenon, <1>2, <1>3, <3>1, <3>2 DEF ShapeInv
    <3>3. CASE t = s
      <4>1. events'[t] = Append(events[s], expected[s]) /\ expected'[t] = expected[s] + 1
        BY Zenon, <1>2, <1>3, <2>6, <3>3 DEF ShapeInv
      <4>2. received[s] \o Append(events[s], expected[s]) = Batches(expected[s] + 1)
        BY Zenon, <2>3, <2>4, <3>1, <3>3, BatchPublished
      <4> QED  BY <3>3, <4>1, <4>2
    <3> QED  BY Zenon, <3>2, <3>3
  <2>10. EventsInSequence'
    BY Zenon, <1>1, <2>9 DEF EventsInSequence, Batches
  <2> QED  BY <2>1, <2>8, <2>10 DEF QueuesInv
<1>4. CASE /\ pending' = [pending EXCEPT ![s] = <<NextCommand(s)>>]
           /\ commands' = [commands EXCEPT ![s] = IF pending[s] # <<>> THEN @ ELSE Tail(@)]
           /\ UNCHANGED <<answered, expected, events>>
  <2>1. /\ commands' \in [Shards -> Seq(Command)] /\ pending' \in [Shards -> Seq(Command)]
        /\ \A t \in Shards : Len(commands'[t]) <= COMMAND_QUEUE /\ Len(pending'[t]) <= 1
        /\ NothingIsDropped'
    BY Zenon, <1>1, <1>2, <1>4, BackpressureKeeps
  <2>2. ShapeInv'
    BY Zenon, <1>1, <1>2, <1>4, <2>1 DEF ShapeInv
  <2>3. EventsInSequence'
    BY Zenon, <1>1, <1>2, <1>4 DEF EventsInSequence
  <2> QED  BY <2>1, <2>2, <2>3 DEF QueuesInv
<1>5. CASE /\ Result(s) \in {"Misrouted", "Engine"} /\ Take(s) /\ Answer(s, Result(s))
           /\ UNCHANGED <<expected, events>>
  <2>1. /\ commands' \in [Shards -> Seq(Command)] /\ pending' \in [Shards -> Seq(Command)]
        /\ answered' \in [Shards -> Seq(Answers)]
        /\ \A t \in Shards : Len(commands'[t]) <= COMMAND_QUEUE /\ Len(pending'[t]) <= 1
        /\ NothingIsDropped'
    BY Zenon, <1>1, <1>2, <1>5, AnswerKeeps
  <2>2. ShapeInv'
    BY Zenon, <1>1, <1>2, <1>5, <2>1 DEF ShapeInv
  <2>3. EventsInSequence'
    BY Zenon, <1>1, <1>2, <1>5 DEF EventsInSequence
  <2> QED  BY <2>1, <2>2, <2>3 DEF QueuesInv
<1> QED  BY SMTT(30), <1>3, <1>4, <1>5 DEF TryProcessOne

-----------------------------------------------------------------------------
(* The route table                                                         *)

\* Every set of natural numbers has a smallest element.
LEMMA SmallestNumber ==
  ASSUME NEW T, T \subseteq Nat, T # {}
  PROVE  \E x \in T : \A y \in T : x <= y
<1> DEFINE R == OpToRel(<, Nat)
<1>1. IsWellFoundedOn(R, Nat)
  BY NatLessThanWellFounded, Zenon
<1>2. \A y \in Nat, x \in Nat : y < x => <<y, x>> \in R
  BY DEF OpToRel
<1> HIDE DEF R
<1>3. PICK x \in T : \A y \in T : ~(<<y, x>> \in R)
  BY <1>1, WFMin, Zenon
<1>4. ASSUME NEW y \in T PROVE x <= y
  <2>1. x \in Nat /\ y \in Nat /\ ~(y < x)
    BY Zenon, <1>2, <1>3
  <2> QED  BY <2>1
<1> QED  BY <1>4

Positions == 1 .. SHARDS

\* The routes that try_new accepts: one for each shard, distinct instruments.
Routes(r) ==
  /\ r \in [Positions -> [instrument_id : InstrumentIds, shard_id : Shards]]
  /\ \A j, k \in Positions : j # k => r[j].instrument_id # r[k].instrument_id
  /\ \A j, k \in Positions : j # k => r[j].shard_id # r[k].shard_id

\* The checks of try_new.
LEMMA AcceptedRoutes ==
  ASSUME NEW r \in [Positions -> InstrumentRoute], TryNewReject(r) = "Ok"
  PROVE  Routes(r)
<1>1. /\ ~ \E k \in Positions : \/ r[k].shard_id >= SHARDS
                                \/ \E j \in 1 .. k - 1 : r[j].shard_id = r[k].shard_id
      /\ ~ \E j, k \in Positions : j # k /\ r[j].instrument_id = r[k].instrument_id
  BY Zenon DEF TryNewReject, Positions
<1>2. ASSUME NEW k \in Positions
      PROVE  r[k] \in [instrument_id : InstrumentIds, shard_id : Shards]
  <2>1. r[k] \in [instrument_id : InstrumentIds, shard_id : 0 .. SHARDS]
    BY DEF InstrumentRoute
  <2>2. ~(r[k].shard_id >= SHARDS)
    BY <1>1
  <2> QED  BY <2>1, <2>2
<1>3. ASSUME NEW j \in Positions, NEW k \in Positions, j # k
      PROVE  r[j].shard_id # r[k].shard_id
  <2>1. j < k => j \in 1 .. k - 1
    BY DEF Positions
  <2>2. k < j => k \in 1 .. j - 1
    BY DEF Positions
  <2>3. j < k \/ k < j
    BY <1>3 DEF Positions
  <2> QED  BY <1>1, <2>1, <2>2, <2>3
<1> QED  BY <1>1, <1>2, <1>3 DEF Routes

\* The positions of the routes before route j.
Before(r, j) == {i \in Positions : r[i].instrument_id < r[j].instrument_id}

\* Positions are as many as shards.
LEMMA CountPositions ==
  /\ IsFiniteSet(Positions) /\ Cardinality(Positions) = SHARDS
  /\ IsFiniteSet(Shards) /\ Cardinality(Shards) = SHARDS
<1>1. IsFiniteSet(1 .. SHARDS) /\ Cardinality(1 .. SHARDS) = SHARDS
  BY FS_Interval
<1>2. IsFiniteSet(0 .. SHARDS - 1) /\ Cardinality(0 .. SHARDS - 1) = SHARDS
  <2>1. 0 \in Int /\ SHARDS - 1 \in Int /\ ~(0 > SHARDS - 1) /\ SHARDS - 1 - 0 + 1 = SHARDS
    OBVIOUS
  <2> QED  BY <2>1, FS_Interval
<1> QED  BY <1>1, <1>2 DEF Positions

\* A smaller instrument has a smaller rank.
LEMMA RankGrows ==
  ASSUME NEW r, Routes(r), NEW j \in Positions, NEW k \in Positions,
         r[j].instrument_id < r[k].instrument_id
  PROVE  Rank(r, j) < Rank(r, k)
<1>1. r[j].instrument_id \in Nat /\ r[k].instrument_id \in Nat
      /\ \A i \in Positions : r[i].instrument_id \in Nat
  BY Zenon DEF Routes
<1>2. Before(r, j) \subseteq Before(r, k) /\ Before(r, k) \subseteq Positions
  BY <1>1 DEF Before
<1>3. j \in Before(r, k) /\ j \notin Before(r, j)
  BY <1>1 DEF Before
<1>4. IsFiniteSet(Before(r, k))
  BY <1>2, CountPositions, FS_Subset
<1>5. /\ IsFiniteSet(Before(r, j)) /\ Cardinality(Before(r, j)) <= Cardinality(Before(r, k))
      /\ Cardinality(Before(r, k)) = Cardinality(Before(r, j)) => Before(r, k) = Before(r, j)
  BY <1>2, <1>4, FS_Subset
<1>6. Cardinality(Before(r, k)) # Cardinality(Before(r, j))
  BY <1>3, <1>5
<1>7. Cardinality(Before(r, k)) \in Nat /\ Cardinality(Before(r, j)) \in Nat
  BY <1>4, <1>5, FS_CardinalityType
<1>8. Cardinality(Before(r, j)) < Cardinality(Before(r, k))
  BY <1>5, <1>6, <1>7
<1> QED  BY <1>8, Zenon DEF Rank, Before, Positions

\* Every rank below the number of shards belongs to one route.
LEMMA RankIsPosition ==
  ASSUME NEW r, Routes(r)
  PROVE  /\ \A j \in Positions : Rank(r, j) \in Shards
         /\ \A j, k \in Positions : Rank(r, j) = Rank(r, k) => j = k
         /\ \A n \in Shards : \E j \in Positions : Rank(r, j) = n
<1>1. ASSUME NEW j \in Positions PROVE Rank(r, j) \in Shards
  <2>1. Before(r, j) \subseteq Positions \ {j}
    <3>1. r[j].instrument_id \in Nat
      BY Zenon DEF Routes
    <3> QED  BY <3>1 DEF Before
  <2>2. IsFiniteSet(Positions \ {j}) /\ Cardinality(Positions \ {j}) = SHARDS - 1
    BY CountPositions, FS_RemoveElement
  <2>3. IsFiniteSet(Before(r, j)) /\ Cardinality(Before(r, j)) <= SHARDS - 1
    BY <2>1, <2>2, FS_Subset
  <2>4. Cardinality(Before(r, j)) \in Nat
    BY <2>3, FS_CardinalityType
  <2>5. Cardinality(Before(r, j)) \in 0 .. SHARDS - 1
    BY <2>3, <2>4
  <2> QED  BY <2>5, Zenon DEF Rank, Before, Positions
<1>2. ASSUME NEW j \in Positions, NEW k \in Positions, j # k
      PROVE  Rank(r, j) # Rank(r, k)
  <2>1. /\ r[j].instrument_id \in Nat /\ r[k].instrument_id \in Nat
        /\ r[j].instrument_id # r[k].instrument_id
    BY Zenon, <1>2 DEF Routes
  <2>2. r[j].instrument_id < r[k].instrument_id \/ r[k].instrument_id < r[j].instrument_id
    BY <2>1
  <2>3. Rank(r, j) < Rank(r, k) \/ Rank(r, k) < Rank(r, j)
    BY <2>2, RankGrows
  <2> QED  BY <1>1, <2>3
<1>3. ASSUME NEW n \in Shards PROVE \E j \in Positions : Rank(r, j) = n
  <2> DEFINE f == [j \in Positions |-> Rank(r, j)]
  <2>1. f \in Injection(Positions, Shards)
    BY <1>1, <1>2 DEF Injection, IsInjective
  <2>2. \A j \in Positions : f[j] = Rank(r, j)
    OBVIOUS
  <2> HIDE DEF f
  <2>3. f \in Surjection(Positions, Shards)
    BY <2>1, CountPositions, FS_Injection
  <2>4. \E j \in Positions : f[j] = n
    BY <2>3 DEF Surjection
  <2> QED  BY <2>2, <2>4
<1> QED  BY <1>1, <1>2, <1>3

\* A route table as try_new builds it.
TableOK(t) ==
  /\ t.by_instrument \in [Positions -> [instrument_id : InstrumentIds, shard_id : Shards]]
  /\ \A j, k \in Positions :
       j < k => t.by_instrument[j].instrument_id < t.by_instrument[k].instrument_id
  /\ \A j, k \in Positions :
       t.by_instrument[j].shard_id = t.by_instrument[k].shard_id => j = k
  /\ \A s \in Shards : t.by_shard[s] \in Positions /\ t.by_instrument[t.by_shard[s]].shard_id = s
  /\ t.dense = (t.by_instrument[SHARDS].instrument_id - t.by_instrument[1].instrument_id
                  = SHARDS - 1)

\* Where the sorted routes come from.
LEMMA SortedRoutes ==
  ASSUME NEW r, Routes(r)
  PROVE  /\ Sorted(r) \in [Positions -> [instrument_id : InstrumentIds, shard_id : Shards]]
         /\ \A k \in Positions : \E j \in Positions : Rank(r, j) = k - 1 /\ Sorted(r)[k] = r[j]
<1> DEFINE from == [k \in Positions |-> CHOOSE j \in Positions : Rank(r, j) = k - 1]
<1>1. ASSUME NEW k \in Positions PROVE from[k] \in Positions /\ Rank(r, from[k]) = k - 1
  <2>1. k - 1 \in Shards
    BY DEF Positions
  <2>2. \E j \in Positions : Rank(r, j) = k - 1
    BY <2>1, RankIsPosition
  <2> QED  BY <2>2
<1>2. Sorted(r) = [k \in Positions |-> r[from[k]]]
  BY DEF Sorted, Positions
<1> HIDE DEF from
<1>3. \A k \in Positions : r[from[k]] \in [instrument_id : InstrumentIds, shard_id : Shards]
  BY <1>1 DEF Routes
<1> QED  BY <1>1, <1>2, <1>3

\* Sorting keeps the routes and puts the instruments in order.
LEMMA SortedInOrder ==
  ASSUME NEW r, Routes(r)
  PROVE  /\ \A j, k \in Positions : j < k => Sorted(r)[j].instrument_id < Sorted(r)[k].instrument_id
         /\ \A j, k \in Positions : Sorted(r)[j].shard_id = Sorted(r)[k].shard_id => j = k
<1>1. ASSUME NEW j \in Positions, NEW k \in Positions
      PROVE  /\ j < k => Sorted(r)[j].instrument_id < Sorted(r)[k].instrument_id
             /\ Sorted(r)[j].shard_id = Sorted(r)[k].shard_id => j = k
  <2>1. PICK a \in Positions : Rank(r, a) = j - 1 /\ Sorted(r)[j] = r[a]
    BY SortedRoutes
  <2>2. PICK b \in Positions : Rank(r, b) = k - 1 /\ Sorted(r)[k] = r[b]
    BY SortedRoutes
  <2>3. r[a].instrument_id \in Nat /\ r[b].instrument_id \in Nat
    BY Zenon DEF Routes
  <2>4. j < k => r[a].instrument_id < r[b].instrument_id
    <3> SUFFICES ASSUME j < k, ~(r[a].instrument_id < r[b].instrument_id) PROVE FALSE
      OBVIOUS
    <3>1. a # b
      BY <2>1, <2>2 DEF Positions
    <3>2. r[b].instrument_id # r[a].instrument_id
      BY <3>1 DEF Routes
    <3>3. r[b].instrument_id < r[a].instrument_id
      BY <2>3, <3>2
    <3>4. Rank(r, b) < Rank(r, a)
      BY <3>3, RankGrows
    <3> QED  BY <2>1, <2>2, <3>4 DEF Positions
  <2>5. r[a].shard_id = r[b].shard_id => a = b
    BY DEF Routes
  <2>6. a = b => j = k
    BY <2>1, <2>2 DEF Positions
  <2> QED  BY <2>1, <2>2, <2>4, <2>5, <2>6
<1> QED  BY <1>1

\* by_shard finds the route of every shard.
LEMMA EveryShardHasRoute ==
  ASSUME NEW routes \in [Positions -> [instrument_id : InstrumentIds, shard_id : Shards]],
         \A j, k \in Positions : routes[j].shard_id = routes[k].shard_id => j = k,
         NEW s \in Shards
  PROVE  ByShard(routes)[s] \in Positions /\ routes[ByShard(routes)[s]].shard_id = s
<1> DEFINE f == [k \in Positions |-> routes[k].shard_id]
<1>1. f \in Injection(Positions, Shards)
  BY DEF Injection, IsInjective
<1>2. \A k \in Positions : f[k] = routes[k].shard_id
  OBVIOUS
<1> HIDE DEF f
<1>3. f \in Surjection(Positions, Shards)
  BY <1>1, CountPositions, FS_Injection
<1>4. \E k \in Positions : routes[k].shard_id = s
  BY <1>2, <1>3 DEF Surjection
<1>5. ByShard(routes)[s] = CHOOSE k \in Positions : routes[k].shard_id = s
  BY DEF ByShard, Positions
<1> QED  BY <1>4, <1>5

\* try_new builds such a table.
LEMMA TryNewBuilds ==
  ASSUME NEW r \in [Positions -> InstrumentRoute], TryNewReject(r) = "Ok"
  PROVE  TableOK(TryNew(r))
<1>1. Routes(r)
  BY AcceptedRoutes
<1> DEFINE q == Sorted(r)
<1>2. /\ q \in [Positions -> [instrument_id : InstrumentIds, shard_id : Shards]]
      /\ \A j, k \in Positions : j < k => q[j].instrument_id < q[k].instrument_id
      /\ \A j, k \in Positions : q[j].shard_id = q[k].shard_id => j = k
  BY <1>1, SortedRoutes, SortedInOrder
<1> HIDE DEF q
<1>3. \A s \in Shards : ByShard(q)[s] \in Positions /\ q[ByShard(q)[s]].shard_id = s
  BY <1>2, EveryShardHasRoute
<1>4. TryNew(r) = [by_instrument |-> q, by_shard |-> ByShard(q), dense |-> Dense(q)]
  BY Zenon DEF TryNew, q
<1>5. /\ TryNew(r).by_instrument = q /\ TryNew(r).by_shard = ByShard(q)
      /\ TryNew(r).dense = Dense(q)
  BY <1>4
<1> QED  BY <1>2, <1>3, <1>5 DEF TableOK, Dense

\* Instruments grow at least as fast as their positions.
LEMMA InstrumentsApart ==
  ASSUME NEW t, TableOK(t), NEW m \in Nat, NEW k \in Positions, k + m \in Positions
  PROVE  t.by_instrument[k + m].instrument_id >= t.by_instrument[k].instrument_id + m
<1> DEFINE id(j) == t.by_instrument[j].instrument_id
           Short == {n \in Nat : \E j \in Positions : j + n \in Positions /\ id(j + n) < id(j) + n}
<1>1. \A j \in Positions : id(j) \in Nat
  BY Zenon DEF TableOK
<1>2. \A i, j \in Positions : i < j => id(i) < id(j)
  BY DEF TableOK
<1> HIDE DEF id
<1>3. Short = {}
  <2> SUFFICES ASSUME Short # {} PROVE FALSE
    OBVIOUS
  <2>1. PICK n \in Short : \A y \in Short : n <= y
    BY Zenon, SmallestNumber
  <2>2. PICK j \in Positions : j + n \in Positions /\ id(j + n) < id(j) + n
    OBVIOUS
  <2>3. n # 0
    BY <1>1, <2>2 DEF Positions
  <2>4. n - 1 \in Nat /\ j + (n - 1) \in Positions /\ j + (n - 1) < j + n
    BY <2>2, <2>3 DEF Positions
  <2>5. id(j + (n - 1)) < id(j + n)
    BY <1>2, <2>2, <2>4
  <2>6. id(j + (n - 1)) < id(j) + (n - 1)
    BY <1>1, <2>2, <2>4, <2>5
  <2>7. n - 1 \in Short
    BY <2>4, <2>6
  <2> QED  BY <2>1, <2>7
<1>4. ~(id(k + m) < id(k) + m)
  BY <1>3
<1>5. id(k + m) >= id(k) + m
  BY <1>1, <1>4
<1> QED  BY <1>5 DEF id

\* In a dense table the offset is the position.
LEMMA DenseOffsets ==
  ASSUME NEW t, TableOK(t), t.dense, NEW k \in Positions
  PROVE  t.by_instrument[k].instrument_id = t.by_instrument[1].instrument_id + (k - 1)
<1> DEFINE id(j) == t.by_instrument[j].instrument_id
<1>1. 1 \in Positions /\ SHARDS \in Positions /\ k - 1 \in Nat /\ SHARDS - k \in Nat
      /\ 1 + (k - 1) = k /\ k + (SHARDS - k) = SHARDS
  BY DEF Positions
<1>2. id(1) \in Nat /\ id(k) \in Nat /\ id(SHARDS) \in Nat
  BY Zenon, <1>1 DEF TableOK
<1>3. id(SHARDS) - id(1) = SHARDS - 1
  BY Zenon DEF TableOK
<1>4. id(1 + (k - 1)) >= id(1) + (k - 1)
  BY <1>1, InstrumentsApart
<1>5. id(k + (SHARDS - k)) >= id(k) + (SHARDS - k)
  BY <1>1, InstrumentsApart
<1> HIDE DEF id
<1>6. id(k) = id(1) + (k - 1)
  BY <1>1, <1>2, <1>3, <1>4, <1>5
<1> QED  BY <1>6 DEF id

\* The index that shard_for computes, by offset or by search.
Index(t, i) ==
  IF t.dense THEN i - t.by_instrument[1].instrument_id + 1 ELSE BinarySearch(t.by_instrument, i)

\* The index is in range exactly for an instrument of the table, and is its
\* position.
LEMMA IndexIsExact ==
  ASSUME NEW t, TableOK(t), NEW i \in InstrumentIds
  PROVE  /\ Index(t, i) \in Positions => t.by_instrument[Index(t, i)].instrument_id = i
         /\ \A k \in Positions : t.by_instrument[k].instrument_id = i => Index(t, i) = k
<1> DEFINE id(j) == t.by_instrument[j].instrument_id
<1>1. CASE t.dense
  <2>1. Index(t, i) = i - id(1) + 1
    BY <1>1 DEF Index
  <2>2. \A k \in Positions : id(k) = id(1) + (k - 1)
    BY <1>1, DenseOffsets
  <2>3. id(1) \in Nat /\ i \in Nat
    <3>1. 1 \in Positions
      BY DEF Positions
    <3>2. t.by_instrument[1] \in [instrument_id : InstrumentIds, shard_id : Shards]
      BY <3>1 DEF TableOK
    <3> QED  BY Zenon, <3>2
  <2> HIDE DEF id
  <2>4. Index(t, i) \in Positions => id(Index(t, i)) = i
    <3> SUFFICES ASSUME Index(t, i) \in Positions PROVE id(Index(t, i)) = i
      OBVIOUS
    <3>1. id(Index(t, i)) = id(1) + (Index(t, i) - 1)
      BY <2>2
    <3> QED  BY <2>1, <2>3, <3>1
  <2>5. ASSUME NEW k \in Positions, id(k) = i PROVE Index(t, i) = k
    <3>1. i = id(1) + (k - 1)
      BY <2>2, <2>5
    <3> QED  BY <2>1, <2>3, <3>1 DEF Positions
  <2> QED  BY <2>4, <2>5 DEF id
<1>2. CASE ~t.dense
  <2>1. Index(t, i) = BinarySearch(t.by_instrument, i)
    BY <1>2 DEF Index
  <2>2. CASE \E k \in Positions : id(k) = i
    <3>1. Index(t, i) = CHOOSE k \in Positions : id(k) = i
      BY <2>1, <2>2, Zenon DEF BinarySearch, Positions
    <3>2. Index(t, i) \in Positions /\ id(Index(t, i)) = i
      BY <2>2, <3>1
    <3>3. ASSUME NEW k \in Positions, id(k) = i PROVE Index(t, i) = k
      <4>1. \A a, b \in Positions : a < b => id(a) < id(b)
        BY DEF TableOK
      <4>2. \A a \in Positions : id(a) \in Nat
        BY Zenon DEF TableOK
      <4> HIDE DEF id
      <4>3. ~(Index(t, i) < k) /\ ~(k < Index(t, i))
        BY <3>2, <3>3, <4>1, <4>2
      <4> QED  BY <3>2, <4>3 DEF Positions
    <3> QED  BY <3>2, <3>3
  <2>3. CASE ~ \E k \in Positions : id(k) = i
    <3>1. Index(t, i) = 0
      BY <2>1, <2>3, Zenon DEF BinarySearch, Positions
    <3>2. Index(t, i) \notin Positions
      BY <3>1 DEF Positions
    <3> QED  BY <2>3, <3>2
  <2> QED  BY <2>2, <2>3
<1> QED  BY <1>1, <1>2

\* shard_for and instrument_for are inverse to each other.
LEMMA LookupInverse ==
  ASSUME NEW t, TableOK(t)
  PROVE  /\ \A i \in InstrumentIds :
              ShardFor(t, i) # None =>
                ShardFor(t, i) \in Shards /\ InstrumentFor(t, ShardFor(t, i)) = i
         /\ \A s \in Shards : /\ InstrumentFor(t, s) \in InstrumentIds
                              /\ ShardFor(t, InstrumentFor(t, s)) = s
<1>0. \A i \in InstrumentIds : ShardFor(t, i) = IF Index(t, i) \in Positions
                                 THEN t.by_instrument[Index(t, i)].shard_id ELSE None
  BY Zenon DEF ShardFor, Index, Positions
<1>1. \A k \in Positions : /\ t.by_instrument[k].shard_id \in Shards
                           /\ t.by_instrument[k].instrument_id \in InstrumentIds
  BY DEF TableOK
<1>2. \A s \in Shards : t.by_shard[s] \in Positions /\ t.by_instrument[t.by_shard[s]].shard_id = s
  BY DEF TableOK
<1>3. \A j, k \in Positions : t.by_instrument[j].shard_id = t.by_instrument[k].shard_id => j = k
  BY DEF TableOK
<1>4. ASSUME NEW i \in InstrumentIds, ShardFor(t, i) # None
      PROVE  ShardFor(t, i) \in Shards /\ InstrumentFor(t, ShardFor(t, i)) = i
  <2> DEFINE k == Index(t, i)
             s == t.by_instrument[k].shard_id
  <2>1. k \in Positions /\ ShardFor(t, i) = s
    BY <1>0, <1>4
  <2>2. t.by_instrument[k].instrument_id = i
    BY Zenon, <2>1, IndexIsExact
  <2> HIDE DEF k
  <2>3. s \in Shards
    BY <1>1, <2>1
  <2>4. t.by_shard[s] = k
    BY <1>2, <1>3, <2>1, <2>3
  <2> QED  BY <2>1, <2>2, <2>3, <2>4 DEF InstrumentFor
<1>5. ASSUME NEW s \in Shards
      PROVE  InstrumentFor(t, s) \in InstrumentIds /\ ShardFor(t, InstrumentFor(t, s)) = s
  <2> DEFINE k == t.by_shard[s]
             i == InstrumentFor(t, s)
  <2>1. k \in Positions /\ t.by_instrument[k].shard_id = s
    BY <1>2
  <2>2. i = t.by_instrument[k].instrument_id /\ i \in InstrumentIds
    BY <1>1, <2>1 DEF InstrumentFor
  <2> HIDE DEF k, i
  <2>3. Index(t, i) = k
    BY <2>1, <2>2, IndexIsExact
  <2>4. ShardFor(t, i) = s
    BY Zenon, <1>0, <2>1, <2>2, <2>3
  <2> QED  BY <2>2, <2>4 DEF i
<1> QED  BY <1>4, <1>5

\* Lookups in a table of try_new are exact.
LEMMA LookupsExact == TableOK(table) => LookupIsExact
<1> SUFFICES ASSUME TableOK(table), NEW i \in InstrumentIds
    PROVE  LET owners == {s \in Shards : InstrumentFor(table, s) = i} IN
           IF owners = {} THEN ShardFor(table, i) = None ELSE ShardFor(table, i) \in owners
  BY Zenon DEF LookupIsExact
<1> DEFINE owners == {s \in Shards : InstrumentFor(table, s) = i}
<1>1. ShardFor(table, i) # None => ShardFor(table, i) \in owners
  BY LookupInverse
<1>2. \A s \in owners : ShardFor(table, i) = s
  BY LookupInverse
<1> QED  BY <1>1, <1>2

-----------------------------------------------------------------------------
\* Every step keeps the queues.
LEMMA QueuesStep == QueuesInv /\ [Next]_vars => QueuesInv'
<1> SUFFICES ASSUME QueuesInv, [Next]_vars  PROVE QueuesInv'
  OBVIOUS
<1>1. CASE \E command \in Command : RouteCommand(command)
  BY <1>1, RouteKeeps
<1>2. ASSUME NEW s \in Shards, TryEvent(s)  PROVE QueuesInv'
  BY <1>2, TryEventKeeps
<1>3. ASSUME NEW s \in Shards, TryProcessOne(s)  PROVE QueuesInv'
  BY <1>3, TryProcessOneKeeps
<1>4. CASE UNCHANGED vars
  BY Zenon, <1>4 DEF vars, QueuesInv, ShapeInv, NothingIsDropped, EventsInSequence
<1> QED  BY <1>1, <1>2, <1>3, <1>4 DEF Next

\* The queues, histories and counters of the shards keep their shape and agree,
\* whatever the route table is.
THEOREM QueuesAlwaysAgree == Spec => []QueuesInv
  BY QueuesInit, QueuesStep, PTL DEF Spec

\* route_command and try_process_one: every accepted command of every shard is
\* answered once and in order, or still waits in the pending slot or the queue.
THEOREM AcceptedNeverDropped == Spec => []NothingIsDropped
<1>1. QueuesInv => NothingIsDropped
  BY DEF QueuesInv
<1> QED  BY <1>1, QueuesAlwaysAgree, PTL

\* try_event: the router receives each shard's batches in sequence, none twice
\* and none skipped, across any number of backpressured retries.
THEOREM BatchesAlwaysInSequence == Spec => []EventsInSequence
<1>1. QueuesInv => EventsInSequence
  BY DEF QueuesInv
<1> QED  BY <1>1, QueuesAlwaysAgree, PTL

-----------------------------------------------------------------------------
(* Delivery to the right shard                                             *)

\* The table is as built, a shard is only given commands of its instrument, and
\* so it answers none as misrouted.
OwnInv ==
  /\ TableOK(table)
  /\ \A s \in Shards : \A k \in 1 .. Len(accepted[s]) :
       accepted[s][k].instrument_id = InstrumentFor(table, s)

\* The inductive invariant of the whole router.
DeliveryInv == QueuesInv /\ OwnInv /\ NeverMisrouted

\* The next command of a shard is the first accepted one without an answer.
LEMMA NextIsAccepted ==
  ASSUME QueuesInv, NEW s \in Shards, pending[s] # <<>> \/ commands[s] # <<>>
  PROVE  \E k \in 1 .. Len(accepted[s]) : NextCommand(s) = accepted[s][k]
<1> DEFINE h == Handled(answered[s])
           p == pending[s]
           c == commands[s]
<1>1. /\ h \in Seq(Command) /\ p \in Seq(Command) /\ c \in Seq(Command)
      /\ Len(p) <= 1 /\ answered[s] \in Seq(Answers)
  <2>1. answered[s] \in Seq(Answers) /\ p \in Seq(Command) /\ c \in Seq(Command) /\ Len(p) <= 1
    BY Zenon DEF QueuesInv, ShapeInv
  <2> QED  BY <2>1, HandledIs
<1>2. accepted[s] = h \o p \o c
  BY Zenon DEF QueuesInv, NothingIsDropped, Handled
<1>3. NextCommand(s) = IF p # <<>> THEN Head(p) ELSE Head(c)
  BY Zenon DEF NextCommand
<1>4. p # <<>> \/ c # <<>>
  OBVIOUS
<1> HIDE DEF h, p, c
<1>5. CASE p # <<>>
  <2>1. Len(p) >= 1 /\ Head(p) = p[1]
    BY <1>1, <1>5
  <2>2. /\ Len(h \o p \o c) = Len(h) + Len(p) + Len(c)
        /\ \A i \in 1 .. Len(p) : (h \o p \o c)[Len(h) + i] = p[i]
    BY <1>1, Parts
  <2>3. 1 \in 1 .. Len(p) /\ Len(h) + 1 \in 1 .. Len(h) + Len(p) + Len(c)
    BY <1>1, <2>1
  <2>4. NextCommand(s) = (h \o p \o c)[Len(h) + 1]
    BY <1>3, <1>5, <2>1, <2>2, <2>3
  <2> QED  BY <1>2, <2>2, <2>3, <2>4
<1>6. CASE p = <<>>
  <2>1. Len(c) >= 1 /\ Head(c) = c[1]
    BY <1>1, <1>4, <1>6
  <2>2. /\ Len(h \o p \o c) = Len(h) + Len(p) + Len(c)
        /\ \A i \in 1 .. Len(c) : (h \o p \o c)[Len(h) + Len(p) + i] = c[i]
    BY <1>1, Parts
  <2>3. 1 \in 1 .. Len(c) /\ Len(h) + Len(p) + 1 \in 1 .. Len(h) + Len(p) + Len(c)
    BY <1>1, <2>1
  <2>4. NextCommand(s) = (h \o p \o c)[Len(h) + Len(p) + 1]
    BY SMTT(30), <1>3, <1>6, <2>1, <2>2, <2>3
  <2> QED  BY <1>2, <2>2, <2>3, <2>4
<1> QED  BY <1>5, <1>6

\* The first state.
LEMMA DeliveryInit == Init => DeliveryInv
<1> SUFFICES ASSUME Init PROVE DeliveryInv
  OBVIOUS
<1>1. QueuesInv
  BY QueuesInit
<1>2. TableOK(table)
  <2>1. PICK r \in [Positions -> InstrumentRoute] : TryNewReject(r) = "Ok" /\ table = TryNew(r)
    BY Zenon DEF Init, Positions
  <2> QED  BY <2>1, TryNewBuilds
<1>3. \A s \in Shards : accepted[s] = <<>> /\ answered[s] = <<>>
  BY DEF Init
<1>4. OwnInv
  BY <1>2, <1>3 DEF OwnInv
<1>5. NeverMisrouted
  BY <1>3 DEF NeverMisrouted
<1> QED  BY <1>1, <1>4, <1>5 DEF DeliveryInv

\* route_command gives a command to the shard of its instrument.
LEMMA RouteKeepsOwn ==
  ASSUME DeliveryInv, NEW command \in Command, RouteCommand(command)
  PROVE  OwnInv' /\ NeverMisrouted'
<1> DEFINE s == ShardFor(table, command.instrument_id)
<1>1. /\ s # None /\ table' = table /\ answered' = answered
      /\ accepted' = [accepted EXCEPT ![s] = Append(@, command)]
  BY DEF RouteCommand
<1>2. TableOK(table) /\ command.instrument_id \in InstrumentIds
  BY DEF DeliveryInv, OwnInv, Command
<1>3. s \in Shards /\ InstrumentFor(table, s) = command.instrument_id
  BY Zenon, <1>1, <1>2, LookupInverse
<1> HIDE DEF s
<1>4. accepted \in [Shards -> Seq(Command)]
  BY Zenon DEF DeliveryInv, QueuesInv, ShapeInv
<1>5. ASSUME NEW t \in Shards, NEW k \in 1 .. Len(accepted'[t])
      PROVE  accepted'[t][k].instrument_id = InstrumentFor(table, t)
  <2>1. \A j \in 1 .. Len(accepted[t]) : accepted[t][j].instrument_id = InstrumentFor(table, t)
    BY Zenon DEF DeliveryInv, OwnInv
  <2>2. CASE t # s
    <3>1. accepted'[t] = accepted[t]
      BY <1>1, <1>4, <2>2
    <3> QED  BY <1>5, <2>1, <3>1
  <2>3. CASE t = s
    <3>1. accepted'[t] = Append(accepted[t], command) /\ accepted[t] \in Seq(Command)
      BY SMTT(30), <1>1, <1>3, <1>4, <2>3
    <3>2. CASE k \in 1 .. Len(accepted[t])
      <4>1. accepted'[t][k] = accepted[t][k]
        BY <3>1, <3>2
      <4> QED  BY <2>1, <3>2, <4>1
    <3>3. CASE k \notin 1 .. Len(accepted[t])
      <4>1. accepted'[t][k] = command
        BY <1>5, <3>1, <3>3
      <4> QED  BY <1>3, <2>3, <4>1
    <3> QED  BY <3>2, <3>3
  <2> QED  BY <2>2, <2>3
<1>6. OwnInv'
  BY <1>1, <1>2, <1>5 DEF OwnInv
<1>7. NeverMisrouted'
  BY <1>1, Zenon DEF DeliveryInv, NeverMisrouted
<1> QED  BY <1>6, <1>7

\* try_process_one finds no command of another instrument.
LEMMA ProcessKeepsOwn ==
  ASSUME DeliveryInv, NEW s \in Shards, TryProcessOne(s)
  PROVE  OwnInv' /\ NeverMisrouted'
<1>1. table' = table /\ accepted' = accepted /\ (pending[s] # <<>> \/ commands[s] # <<>>)
  BY DEF TryProcessOne
<1>2. OwnInv'
  BY <1>1, Zenon DEF DeliveryInv, OwnInv
<1>3. Result(s) # "Misrouted"
  <2>1. PICK k \in 1 .. Len(accepted[s]) : NextCommand(s) = accepted[s][k]
    BY <1>1, NextIsAccepted, Zenon DEF DeliveryInv
  <2>2. accepted[s][k].instrument_id = InstrumentFor(table, s)
    BY Zenon DEF DeliveryInv, OwnInv
  <2>3. NextCommand(s).instrument_id = InstrumentFor(table, s)
    BY <2>1, <2>2
  <2> QED  BY <2>3 DEF Result
<1>4. answered \in [Shards -> Seq(Answers)]
  BY Zenon DEF DeliveryInv, QueuesInv, ShapeInv
<1>5. \/ answered' = answered
      \/ \E r : r.result # "Misrouted" /\ answered' = [answered EXCEPT ![s] = Append(@, r)]
  <2>1. CASE answered' = answered
    BY <2>1
  <2>2. CASE Answer(s, "Processed")
    <3> DEFINE r == [command |-> NextCommand(s), result |-> "Processed"]
    <3>1. r.result # "Misrouted" /\ answered' = [answered EXCEPT ![s] = Append(@, r)]
      BY <2>2 DEF Answer
    <3> QED  BY Zenon, <3>1
  <2>3. CASE Answer(s, Result(s))
    <3> DEFINE r == [command |-> NextCommand(s), result |-> Result(s)]
    <3>1. r.result # "Misrouted" /\ answered' = [answered EXCEPT ![s] = Append(@, r)]
      BY <1>3, <2>3 DEF Answer
    <3> QED  BY Zenon, <3>1
  <2>4. answered' = answered \/ Answer(s, "Processed") \/ Answer(s, Result(s))
    BY Zenon DEF TryProcessOne
  <2> QED  BY <2>1, <2>2, <2>3, <2>4
<1>6. CASE answered' = answered
  <2>1. NeverMisrouted'
    BY <1>6, Zenon DEF DeliveryInv, NeverMisrouted
  <2> QED  BY <1>2, <2>1
<1>7. ASSUME NEW r, r.result # "Misrouted", answered' = [answered EXCEPT ![s] = Append(@, r)]
      PROVE  NeverMisrouted'
  <2>1. ASSUME NEW t \in Shards, NEW k \in 1 .. Len(answered'[t])
        PROVE  answered'[t][k].result # "Misrouted"
    <3>1. \A j \in 1 .. Len(answered[t]) : answered[t][j].result # "Misrouted"
      BY Zenon DEF DeliveryInv, NeverMisrouted
    <3>2. CASE t # s
      <4>1. answered'[t] = answered[t]
        BY <1>4, <1>7, <3>2
      <4> QED  BY <2>1, <3>1, <4>1
    <3>3. CASE t = s
      <4>1. answered'[t] = Append(answered[t], r) /\ answered[t] \in Seq(Answers)
        BY <1>4, <1>7, <3>3
      <4>2. CASE k \in 1 .. Len(answered[t])
        <5>1. answered'[t][k] = answered[t][k]
          BY <4>1, <4>2
        <5> QED  BY <3>1, <4>2, <5>1
      <4>3. CASE k \notin 1 .. Len(answered[t])
        <5>1. answered'[t][k] = r
          BY <2>1, <4>1, <4>3
        <5> QED  BY <1>7, <5>1
      <4> QED  BY <4>2, <4>3
    <3> QED  BY <3>2, <3>3
  <2> QED  BY <2>1 DEF NeverMisrouted
<1> QED  BY <1>2, <1>5, <1>6, <1>7

\* Every step keeps the invariant of the router.
LEMMA DeliveryStep == DeliveryInv /\ [Next]_vars => DeliveryInv'
<1> SUFFICES ASSUME DeliveryInv, [Next]_vars PROVE DeliveryInv'
  OBVIOUS
<1>1. QueuesInv'
  BY QueuesStep DEF DeliveryInv
<1>2. ASSUME NEW command \in Command, RouteCommand(command) PROVE OwnInv' /\ NeverMisrouted'
  BY <1>2, RouteKeepsOwn
<1>3. ASSUME NEW s \in Shards, TryEvent(s) PROVE OwnInv' /\ NeverMisrouted'
  BY <1>3, Zenon DEF TryEvent, DeliveryInv, OwnInv, NeverMisrouted
<1>4. ASSUME NEW s \in Shards, TryProcessOne(s) PROVE OwnInv' /\ NeverMisrouted'
  BY <1>4, ProcessKeepsOwn
<1>5. ASSUME UNCHANGED vars PROVE OwnInv' /\ NeverMisrouted'
  <2>1. table' = table /\ accepted' = accepted /\ answered' = answered
    BY <1>5 DEF vars
  <2> QED  BY <2>1, Zenon DEF DeliveryInv, OwnInv, NeverMisrouted
<1>6. OwnInv' /\ NeverMisrouted'
  BY <1>2, <1>3, <1>4, <1>5, Zenon DEF Next
<1> QED  BY <1>1, <1>6 DEF DeliveryInv

\* The whole promise of the router, for every number of shards, every set of
\* instruments, every queue capacity and every table that try_new accepts:
\* shard_for and instrument_for are exact and inverse, by offset and by search;
\* each accepted command is handled once and in order by the shard of its
\* instrument, none is Misrouted; the batches reach the router in sequence.
THEOREM DeliveryAlwaysExact == Spec => []DeliveryIsExact
<1>1. DeliveryInv => DeliveryIsExact
  <2> SUFFICES ASSUME DeliveryInv PROVE DeliveryIsExact
    OBVIOUS
  <2>1. TypeOK
    BY Zenon DEF DeliveryInv, QueuesInv, ShapeInv, TypeOK
  <2>2. LookupIsExact
    BY LookupsExact DEF DeliveryInv, OwnInv
  <2> QED  BY <2>1, <2>2 DEF DeliveryIsExact, DeliveryInv, QueuesInv
<1> QED  BY <1>1, DeliveryInit, DeliveryStep, PTL DEF Spec
=============================================================================
