---------------------------- MODULE ClientProofs ----------------------------
(***************************************************************************)
(* Proofs about the client process (module Client), for every size of the  *)
(* queues, number of lines, messages and connections.                      *)
(*                                                                         *)
(* Three invariants are inductive together with the types and with what    *)
(* holds before the threads start (Starting):                              *)
(*   - raw entries and tags are counted: EveryEntryTagged as it stands;    *)
(*   - the one socket that is ever in epoll is armed only while slot 0 is  *)
(*     nowhere between the network thread and the worker (ArmedIdle);      *)
(*   - lines move through three places in order (LineOrder): what the      *)
(*     server has got comes before the line being handled, and that one    *)
(*     before everything queued.                                           *)
(***************************************************************************)
EXTENDS Client, FiniteSetTheorems, SequenceTheorems, TLAPS

Message ==
    [type : {"DEFAULT"} \cup {m.type : m \in ServerMessages},
     alias : {""} \cup Lines \cup {m.alias : m \in ServerMessages},
     line : Nat]

TypeOK ==
    /\ console \in {"off", "read", "tag"} /\ network \in {"off", "wait", "tag"}
    /\ main \in {"init", "wait", "off"} \cup Tags
    /\ console_raw_tasks \in Seq(Message) /\ typed \in Nat
    /\ network_raw_tasks \in Nat
    /\ tags \in Seq(Tags)
    /\ tasks \in Seq([tag : Tags, msg : Message])
    /\ wrk \in [pc : {"idle", "check", "receive", "handle", "off"}, msg : Message]
    /\ opened \in 0 .. MaxSockets /\ sock \in {NoSocket, opened}
    /\ epoll \in [Sockets -> {"absent", "armed", "disarmed"}]
    /\ inbox \in [Sockets -> Seq(Message)]
    /\ received \in [Sockets -> Seq(Nat)]

\* Before the threads start there is nothing anywhere.
Starting ==
    main = "init" =>
        /\ console = "off" /\ network = "off"
        /\ network_raw_tasks = 0 /\ tags = <<>> /\ tasks = <<>>
        /\ console_raw_tasks = <<>>
        /\ wrk = IdleWorker
        /\ opened = 0

\* Lines of the user are numbered from 1, and nothing else is.
Numbered ==
    /\ \A i \in DOMAIN console_raw_tasks : console_raw_tasks[i].line # 0
    /\ \A i \in DOMAIN tasks : tasks[i].tag = "CONSOLE" <=> tasks[i].msg.line # 0
    /\ \A s \in Sockets : \A i \in DOMAIN inbox[s] : inbox[s][i].line = 0
    /\ wrk.pc \in {"idle", "check", "receive"} => ~Console
    /\ wrk.pc = "receive" => sock # NoSocket

NetworkTasks == Count(tasks, LAMBDA t : t.tag = "NETWORK")
Serving == One(wrk.pc \notin {"idle", "off"} /\ ~Console)
InFlight == network_raw_tasks + NetworkTasks + Serving

\* Only the first socket is ever in epoll, and while it is armed slot 0 is not
\* on its way.
ArmedIdle ==
    /\ \A s \in Sockets : s # 1 => epoll[s] = "absent"
    /\ InFlight <= 1
    /\ epoll[1] = "armed" => InFlight = 0

RawLines == {console_raw_tasks[i].line : i \in DOMAIN console_raw_tasks}
ConsoleTasks == {i \in DOMAIN tasks : tasks[i].tag = "CONSOLE"}
TaskLines == {tasks[i].msg.line : i \in ConsoleTasks}
HandledLines == IF wrk.pc = "handle" /\ Console THEN {wrk.msg.line} ELSE {}
Got ==
    {n \in Nat \ {0} :
        \E s \in Sockets : \E i \in DOMAIN received[s] : received[s][i] = n}

Before(A, B) == \A a \in A, b \in B : a < b

\* Lines are in order: those the server has got (G), the one being handled (H),
\* the tasks (T), the raw lines (R), and n lines have been typed.
Chain(G, H, T, R, n) ==
    /\ Before(G, H) /\ Before(G, T) /\ Before(G, R)
    /\ Before(H, T) /\ Before(H, R)
    /\ Before(T, R)
    /\ \A k \in G \cup H \cup T \cup R : k <= n

LineOrder ==
    /\ \A i, j \in DOMAIN console_raw_tasks :
           i < j => console_raw_tasks[i].line < console_raw_tasks[j].line
    /\ \A i, j \in ConsoleTasks : i < j => tasks[i].msg.line < tasks[j].msg.line
    /\ Chain(Got, HandledLines, TaskLines, RawLines, typed)
    /\ \A s \in Sockets : s > opened => received[s] = <<>>

IInv ==
    /\ TypeOK /\ Starting /\ EveryEntryTagged
    /\ Numbered /\ ArmedIdle
    /\ LineOrder /\ LinesInOrder

-----------------------------------------------------------------------------
(* Queues                                                                  *)

\* A tag is queued, or the refusal is noted.
LEMMA TagPushed ==
    ASSUME NEW tag, PushTag(tag)
    PROVE  \/ tags' = Append(tags, tag) /\ mishaps' = mishaps
           \/ tags' = tags /\ mishaps' = mishaps \cup {"refused"}
  <1>1. PICK push \in TryPush(tags, tag, TRUE) :
            tags' = push.queue /\ mishaps' = mishaps \cup push.fault
    BY DEF PushTag
  <1>2. \/ push.queue = Append(tags, tag) /\ push.fault = {}
        \/ push.queue = tags /\ push.fault = {"refused"}
    BY DEF TryPush
  <1>3. push.fault = {} => mishaps \cup push.fault = mishaps
    OBVIOUS
  <1> QED BY <1>1, <1>2, <1>3, Zenon

\* A line is queued, or the refusal is noted.
LEMMA LinePushed ==
    ASSUME NEW alias, console_read(alias)
    PROVE  \/ /\ console_raw_tasks' = Append(console_raw_tasks,
                     [type |-> "DEFAULT", alias |-> alias, line |-> typed + 1])
              /\ mishaps' = mishaps
           \/ /\ console_raw_tasks' = console_raw_tasks
              /\ mishaps' = mishaps \cup {"refused"}
  <1> DEFINE e == [type |-> "DEFAULT", alias |-> alias, line |-> typed + 1]
  <1>1. PICK push \in TryPush(console_raw_tasks, e, FALSE) :
            console_raw_tasks' = push.queue /\ mishaps' = mishaps \cup push.fault
    BY DEF console_read
  <1> HIDE DEF e
  <1>2. \/ push.queue = Append(console_raw_tasks, e) /\ push.fault = {}
        \/ push.queue = console_raw_tasks /\ push.fault = {"refused"}
    BY DEF TryPush
  <1>3. push.fault = {} => mishaps \cup push.fault = mishaps
    OBVIOUS
  <1>4. \/ console_raw_tasks' = Append(console_raw_tasks, e) /\ mishaps' = mishaps
        \/ /\ console_raw_tasks' = console_raw_tasks
           /\ mishaps' = mishaps \cup {"refused"}
    BY <1>1, <1>2, <1>3, Zenon
  <1> QED BY <1>4 DEF e

\* The elements of a queue are what was put into it.
LEMMA Element ==
    ASSUME NEW S, NEW q \in Seq(S), NEW i \in DOMAIN q
    PROVE  q[i] \in S
OBVIOUS

\* A push leaves what was there and adds the element at the end.
LEMMA AppendFacts ==
    ASSUME NEW S, NEW q \in Seq(S), NEW e \in S
    PROVE  /\ Append(q, e) \in Seq(S)
           /\ Len(q) \in Nat /\ Len(Append(q, e)) = Len(q) + 1
           /\ DOMAIN q = 1 .. Len(q) /\ DOMAIN Append(q, e) = 1 .. Len(q) + 1
           /\ Append(q, e)[Len(q) + 1] = e
           /\ \A i \in 1 .. Len(q) : Append(q, e)[i] = q[i]
OBVIOUS

\* A pop takes the first element and moves the others up.
LEMMA TailFacts ==
    ASSUME NEW S, NEW q \in Seq(S), q # <<>>
    PROVE  /\ Tail(q) \in Seq(S)
           /\ Len(q) \in Nat \ {0} /\ Len(Tail(q)) = Len(q) - 1
           /\ DOMAIN q = 1 .. Len(q) /\ DOMAIN Tail(q) = 1 .. (Len(q) - 1)
           /\ Head(q) = q[1] /\ Head(q) \in S
           /\ \A i \in 1 .. (Len(q) - 1) : Tail(q)[i] = q[i + 1]
OBVIOUS

-----------------------------------------------------------------------------
(* Counting in a queue                                                     *)

\* Where the members of T are in a queue.
Places(q, T) == {i \in DOMAIN q : q[i] \in T}

\* A queue has finitely many places.
LEMMA PlacesFinite ==
    ASSUME NEW S, NEW q \in Seq(S), NEW T
    PROVE  IsFiniteSet(Places(q, T)) /\ Cardinality(Places(q, T)) \in Nat
<1>1. Len(q) \in Nat /\ DOMAIN q = 1 .. Len(q)
  OBVIOUS
<1>2. IsFiniteSet(1 .. Len(q))
  BY <1>1, FS_Interval
<1>3. Places(q, T) \subseteq 1 .. Len(q)
  BY <1>1 DEF Places
<1> QED
  BY <1>2, <1>3, FS_Subset, FS_CardinalityType

\* An empty queue has none.
LEMMA PlacesEmpty ==
    ASSUME NEW T
    PROVE  Cardinality(Places(<<>>, T)) = 0
<1>1. Places(<<>>, T) = {}
  BY DEF Places
<1> QED
  BY <1>1, FS_EmptySet

\* A push adds one if the element counts.
LEMMA PlacesAppend ==
    ASSUME NEW S, NEW q \in Seq(S), NEW e \in S, NEW T
    PROVE  Cardinality(Places(Append(q, e), T)) =
               Cardinality(Places(q, T)) + One(e \in T)
<1> DEFINE n == Len(q) + 1
<1>1. /\ Len(q) \in Nat /\ DOMAIN q = 1 .. Len(q)
      /\ DOMAIN Append(q, e) = 1 .. n
      /\ Append(q, e)[n] = e
      /\ \A i \in 1 .. Len(q) : Append(q, e)[i] = q[i]
  OBVIOUS
<1>2. IsFiniteSet(Places(q, T)) /\ Cardinality(Places(q, T)) \in Nat
  BY PlacesFinite
<1>3. n \notin Places(q, T)
  BY <1>1 DEF Places
<1>4. CASE e \in T
  <2>1. Places(Append(q, e), T) = Places(q, T) \cup {n}
    BY <1>1, <1>4 DEF Places
  <2> QED
    BY <1>2, <1>3, <1>4, <2>1, FS_AddElement DEF One
<1>5. CASE e \notin T
  <2>1. Places(Append(q, e), T) = Places(q, T)
    BY <1>1, <1>5 DEF Places
  <2> QED
    BY <1>2, <1>5, <2>1 DEF One
<1> QED
  BY <1>4, <1>5

\* A pop removes one if the head counts.
LEMMA PlacesTail ==
    ASSUME NEW S, NEW q \in Seq(S), q # <<>>, NEW T
    PROVE  Cardinality(Places(q, T)) =
               Cardinality(Places(Tail(q), T)) + One(Head(q) \in T)
<1> DEFINE A == Places(Tail(q), T)
           B == Places(q, T) \ {1}
           f == [i \in A |-> i + 1]
<1>1. /\ Len(q) \in Nat \ {0} /\ DOMAIN q = 1 .. Len(q)
      /\ DOMAIN Tail(q) = 1 .. (Len(q) - 1)
      /\ Head(q) = q[1]
      /\ \A i \in 1 .. (Len(q) - 1) : Tail(q)[i] = q[i + 1]
  OBVIOUS
<1>2. /\ IsFiniteSet(A) /\ Cardinality(A) \in Nat
      /\ IsFiniteSet(Places(q, T)) /\ Cardinality(Places(q, T)) \in Nat
  <2>1. Tail(q) \in Seq(S)
    OBVIOUS
  <2> QED
    BY <2>1, PlacesFinite
<1>3. A \subseteq Nat /\ \A i \in A : i + 1 \in B
  BY <1>1 DEF Places
<1>4. \A j \in B : j - 1 \in A /\ j \in Nat
  BY <1>1 DEF Places
<1>5. f \in Bijection(A, B)
  <2>1. f \in [A -> B]
    BY <1>3
  <2>2. \A i, j \in A : f[i] = f[j] => i = j
    BY <1>3
  <2>3. \A j \in B : \E i \in A : f[i] = j
    <3>1. SUFFICES ASSUME NEW j \in B PROVE j - 1 \in A /\ f[j - 1] = j
      OBVIOUS
    <3> QED
      BY <1>4
  <2> HIDE DEF A, B, f
  <2> QED
    BY <2>1, <2>2, <2>3 DEF Bijection, Injection, Surjection, IsInjective
<1>6. Cardinality(A) = Cardinality(B)
  <2> HIDE DEF A, B, f
  <2> QED
    BY <1>2, <1>5, FS_Bijection DEF ExistsBijection
<1>7. CASE Head(q) \in T
  <2>1. 1 \in Places(q, T)
    BY <1>1, <1>7 DEF Places
  <2>2. Cardinality(B) = Cardinality(Places(q, T)) - 1
    BY <1>2, <2>1, FS_RemoveElement
  <2> QED
    BY <1>2, <1>6, <1>7, <2>2 DEF One
<1>8. CASE Head(q) \notin T
  <2>1. B = Places(q, T)
    BY <1>1, <1>8 DEF Places
  <2> HIDE DEF A, B
  <2> QED
    BY <1>2, <1>6, <1>8, <2>1 DEF One, A
<1> QED
  BY <1>7, <1>8

\* The network tasks among all tasks.
NetworkTask == {t \in [tag : Tags, msg : Message] : t.tag = "NETWORK"}

\* What is counted in the queue of tags, before and after a step.
LEMMA TagPlaces ==
    ASSUME NEW tag
    PROVE  /\ CountTags(tag) = Cardinality(Places(tags, {tag}))
           /\ CountTags(tag)' = Cardinality(Places(tags', {tag}))
<1>1. Places(tags, {tag}) = {i \in DOMAIN tags : tags[i] = tag}
  BY DEF Places
<1>2. Places(tags', {tag}) = {i \in DOMAIN tags' : tags'[i] = tag}
  BY DEF Places
<1> QED
  BY <1>1, <1>2 DEF CountTags, Count

\* The counts of tags are numbers, and what a push and a pop do to them.
LEMMA TagCounts ==
    ASSUME tags \in Seq(Tags), NEW tag
    PROVE  /\ CountTags(tag) \in Nat
           /\ tags = <<>> => CountTags(tag) = 0
           /\ tags' = tags => CountTags(tag)' = CountTags(tag)
           /\ \A e \in Tags : tags' = Append(tags, e) =>
                  CountTags(tag)' = CountTags(tag) + One(e = tag)
           /\ tags # <<>> /\ tags' = Tail(tags) =>
                  CountTags(tag) = CountTags(tag)' + One(Head(tags) = tag)
<1>1. /\ CountTags(tag) = Cardinality(Places(tags, {tag}))
      /\ CountTags(tag)' = Cardinality(Places(tags', {tag}))
  BY TagPlaces
<1>2. CountTags(tag) \in Nat
  BY <1>1, PlacesFinite
<1>3. tags = <<>> => CountTags(tag) = 0
  BY <1>1, PlacesEmpty
<1>4. tags' = tags => CountTags(tag)' = CountTags(tag)
  BY <1>1
<1>5. \A e \in Tags : tags' = Append(tags, e) =>
          CountTags(tag)' = CountTags(tag) + One(e = tag)
  <2> TAKE e \in Tags
  <2> HAVE tags' = Append(tags, e)
  <2>1. Cardinality(Places(tags', {tag})) = Cardinality(Places(tags, {tag})) + One(e \in {tag})
    BY PlacesAppend
  <2>2. One(e \in {tag}) = One(e = tag)
    BY DEF One
  <2> QED
    BY <1>1, <2>1, <2>2
<1>6. ASSUME tags # <<>>, tags' = Tail(tags)
      PROVE  CountTags(tag) = CountTags(tag)' + One(Head(tags) = tag)
  <2>1. Cardinality(Places(tags, {tag})) =
            Cardinality(Places(tags', {tag})) + One(Head(tags) \in {tag})
    BY <1>6, PlacesTail
  <2>2. One(Head(tags) \in {tag}) = One(Head(tags) = tag)
    BY DEF One
  <2> QED
    BY <1>1, <2>1, <2>2
<1> QED
  BY <1>2, <1>3, <1>4, <1>5, <1>6

\* The same for the network tasks.
LEMMA TaskCounts ==
    ASSUME tasks \in Seq([tag : Tags, msg : Message]),
           tasks' \in Seq([tag : Tags, msg : Message])
    PROVE  /\ NetworkTasks \in Nat /\ NetworkTasks' \in Nat
           /\ tasks = <<>> => NetworkTasks = 0
           /\ tasks' = tasks => NetworkTasks' = NetworkTasks
           /\ \A e \in [tag : Tags, msg : Message] : tasks' = Append(tasks, e) =>
                  NetworkTasks' = NetworkTasks + One(e.tag = "NETWORK")
           /\ tasks # <<>> /\ tasks' = Tail(tasks) =>
                  NetworkTasks = NetworkTasks' + One(Head(tasks).tag = "NETWORK")
<1> DEFINE S == [tag : Tags, msg : Message]
<1>1. \A e \in S : e \in NetworkTask <=> e.tag = "NETWORK"
  BY DEF NetworkTask
<1>2. ASSUME NEW q \in Seq(S)
      PROVE  Places(q, NetworkTask) = {i \in DOMAIN q : q[i].tag = "NETWORK"}
  <2>1. \A i \in DOMAIN q : q[i] \in NetworkTask <=> q[i].tag = "NETWORK"
    BY <1>1, Element
  <2> QED
    BY <2>1 DEF Places
<1>3. /\ NetworkTasks = Cardinality(Places(tasks, NetworkTask))
      /\ NetworkTasks' = Cardinality(Places(tasks', NetworkTask))
  BY <1>2 DEF NetworkTasks, Count
<1> HIDE DEF S
<1>4. tasks \in Seq(S) /\ tasks' \in Seq(S)
  BY DEF S
<1>5. NetworkTasks \in Nat /\ NetworkTasks' \in Nat
  BY <1>3, <1>4, PlacesFinite
<1>6. tasks = <<>> => NetworkTasks = 0
  BY <1>3, PlacesEmpty
<1>7. \A e \in S : tasks' = Append(tasks, e) =>
          NetworkTasks' = NetworkTasks + One(e.tag = "NETWORK")
  <2> TAKE e \in S
  <2> HAVE tasks' = Append(tasks, e)
  <2>1. Cardinality(Places(tasks', NetworkTask)) =
            Cardinality(Places(tasks, NetworkTask)) + One(e \in NetworkTask)
    BY <1>4, PlacesAppend
  <2>2. One(e \in NetworkTask) = One(e.tag = "NETWORK")
    BY <1>1 DEF One
  <2> QED
    BY <1>3, <2>1, <2>2
<1>8. ASSUME tasks # <<>>, tasks' = Tail(tasks)
      PROVE  NetworkTasks = NetworkTasks' + One(Head(tasks).tag = "NETWORK")
  <2>1. Cardinality(Places(tasks, NetworkTask)) =
            Cardinality(Places(tasks', NetworkTask)) + One(Head(tasks) \in NetworkTask)
    BY <1>4, <1>8, PlacesTail
  <2>2. Head(tasks) \in S
    BY <1>4, <1>8, TailFacts
  <2>3. One(Head(tasks) \in NetworkTask) = One(Head(tasks).tag = "NETWORK")
    BY <1>1, <2>2 DEF One
  <2> QED
    BY <1>3, <2>1, <2>3
<1> QED
  BY <1>3, <1>5, <1>6, <1>7, <1>8 DEF S

-----------------------------------------------------------------------------
(* Types                                                                   *)

\* What the worker holds between two tasks is a message.
LEMMA IdleTyped ==
    /\ IdleWorker.pc = "idle" /\ IdleWorker.msg.line = 0
    /\ IdleWorker \in [pc : {"idle", "check", "receive", "handle", "off"}, msg : Message]
    /\ [IdleWorker EXCEPT !.pc = "check"] \in
           [pc : {"idle", "check", "receive", "handle", "off"}, msg : Message]
    /\ [IdleWorker EXCEPT !.pc = "check"].pc = "check"
    /\ [IdleWorker EXCEPT !.pc = "check"].msg.line = 0
    /\ IdleWorker.msg \in Message
BY DEF IdleWorker, Message

\* A line and a message of the server have the fields of a message.
LEMMA MessageTyped ==
    /\ \A alias \in Lines, n \in Nat :
           [type |-> "DEFAULT", alias |-> alias, line |-> n] \in Message
    /\ \A m \in ServerMessages :
           [type |-> m.type, alias |-> m.alias, line |-> 0] \in Message
    /\ \A m \in Message : m.line \in Nat
BY DEF Message

\* Every action of the client keeps the types.
LEMMA TypeStep ==
    ASSUME TypeOK, Starting, Numbered, Next
    PROVE  TypeOK'
<1> USE ClientAssumption, IdleTyped
<1> USE DEF TypeOK, vars, input, events, loop, slot, peer, history, NoSocket, Sockets
<1>1. CASE init \/ init_fails
  <2>1. /\ opened = 0 /\ opened' \in 0 .. MaxSockets /\ sock' \in {NoSocket, opened'}
        /\ console' = "read" /\ network' = "wait" /\ main' = "wait"
    BY <1>1 DEF init, init_fails, run, init_network, setup_client, Starting
  <2>2. epoll' \in [Sockets -> {"absent", "armed", "disarmed"}]
    BY <1>1 DEF init, init_fails, init_network, init_epoll
  <2> QED
    BY <1>1, <2>1, <2>2 DEF init, init_fails, run
<1>2. CASE Server
  <2>1. CASE \E s \in Sockets : server_close(s)
    BY <2>1 DEF server_close
  <2>2. CASE \E s \in Sockets : \E m \in ServerMessages : server_send(s, m)
    <3>1. PICK s \in Sockets, m \in ServerMessages : server_send(s, m)
      BY <2>2
    <3>2. [type |-> m.type, alias |-> m.alias, line |-> 0] \in Message
      BY MessageTyped
    <3>3. Append(inbox[s], [type |-> m.type, alias |-> m.alias, line |-> 0]) \in Seq(Message)
      BY <3>2
    <3> QED
      BY <3>1, <3>3 DEF server_send
  <2> QED
    BY <1>2, <2>1, <2>2 DEF Server
<1>3. CASE ConsoleThread
  <2>1. CASE \E alias \in Lines : console_read(alias)
    <3>1. PICK alias \in Lines : console_read(alias)
      BY <2>1
    <3>2. [type |-> "DEFAULT", alias |-> alias, line |-> typed + 1] \in Message
      <4>1. typed + 1 \in Nat
        OBVIOUS
      <4> QED
        BY ONLY <4>1, MessageTyped, alias \in Lines
    <3>3. console_raw_tasks' \in Seq(Message)
      <4>1. \A e \in Message : Append(console_raw_tasks, e) \in Seq(Message)
        OBVIOUS
      <4> QED
        BY <3>1, <3>2, <4>1, LinePushed
    <3> QED
      BY <3>1, <3>3 DEF console_read
  <2>2. CASE console_tag
    <3>1. tags' \in Seq(Tags)
      <4>1. \A e \in Tags : Append(tags, e) \in Seq(Tags)
        OBVIOUS
      <4>2. tags' = Append(tags, "CONSOLE") \/ tags' = tags
        BY <2>2, TagPushed DEF console_tag
      <4> QED
        BY <4>1, <4>2 DEF Tags
    <3> QED
      BY <2>2, <3>1 DEF console_tag
  <2>3. CASE console_laps
    BY <2>3 DEF console_laps
  <2> QED
    BY <1>3, <2>1, <2>2, <2>3 DEF ConsoleThread
<1>4. CASE NetworkThread
  <2>1. CASE \E s \in Sockets : network_event(s)
    BY <2>1 DEF network_event, Reported
  <2>2. CASE network_tag
    <3>1. tags' \in Seq(Tags)
      <4>1. \A e \in Tags : Append(tags, e) \in Seq(Tags)
        OBVIOUS
      <4>2. tags' = Append(tags, "NETWORK") \/ tags' = tags
        BY <2>2, TagPushed DEF network_tag
      <4> QED
        BY <4>1, <4>2 DEF Tags
    <3> QED
      BY <2>2, <3>1 DEF network_tag
  <2>3. CASE network_laps
    BY <2>3 DEF network_laps
  <2> QED
    BY <1>4, <2>1, <2>2, <2>3 DEF NetworkThread
<1>5. CASE CoroutineLoop
  <2>1. CASE coroutine_loop
    <3>1. Head(tags) \in Tags /\ Tail(tags) \in Seq(Tags)
      BY <2>1, TailFacts DEF coroutine_loop
    <3> QED
      BY <2>1, <3>1 DEF coroutine_loop
  <2>2. CASE resume_nothing
    BY <2>2 DEF resume_nothing, Exit
  <2>3. CASE console_co
    <3>1. CASE console_raw_tasks = <<>>
      BY <2>3, <3>1 DEF console_co
    <3>2. CASE console_raw_tasks # <<>>
      <4>1. Head(console_raw_tasks) \in Message /\ Tail(console_raw_tasks) \in Seq(Message)
        BY <3>2, TailFacts
      <4>2. [tag |-> "CONSOLE", msg |-> Head(console_raw_tasks)] \in [tag : Tags, msg : Message]
        BY <4>1 DEF Tags
      <4>3. tasks' = Append(tasks, [tag |-> "CONSOLE", msg |-> Head(console_raw_tasks)])
        BY <2>3, <3>2 DEF console_co
      <4>4. tasks' \in Seq([tag : Tags, msg : Message])
        BY ONLY <4>2, <4>3, AppendFacts, tasks \in Seq([tag : Tags, msg : Message])
      <4> QED
        BY <2>3, <3>2, <4>1, <4>4 DEF console_co
    <3> QED
      BY <3>1, <3>2
  <2>4. CASE network_co
    <3>1. CASE network_raw_tasks = 0
      BY <2>4, <3>1 DEF network_co
    <3>2. CASE network_raw_tasks # 0
      <4>1. [tag |-> "NETWORK", msg |-> IdleWorker.msg] \in [tag : Tags, msg : Message]
        BY DEF Tags
      <4>2. tasks' = Append(tasks, [tag |-> "NETWORK", msg |-> IdleWorker.msg])
        BY <2>4, <3>2 DEF network_co
      <4>3. tasks' \in Seq([tag : Tags, msg : Message])
        BY ONLY <4>1, <4>2, AppendFacts, tasks \in Seq([tag : Tags, msg : Message])
      <4> QED
        BY <2>4, <3>2, <4>3 DEF network_co
    <3> QED
      BY <3>1, <3>2
  <2> QED
    BY <1>5, <2>1, <2>2, <2>3, <2>4 DEF CoroutineLoop
<1>6. CASE Worker
  <2>1. CASE execute_task
    <3>1. Head(tasks) \in [tag : Tags, msg : Message]
          /\ Tail(tasks) \in Seq([tag : Tags, msg : Message])
      BY <2>1, TailFacts DEF execute_task
    <3> QED
      BY <2>1, <3>1 DEF execute_task
  <2>2. CASE check_alive
    BY <2>2 DEF check_alive
  <2>3. CASE receive_message
    <3>1. sock \in Sockets
      BY <2>3 DEF receive_message, Numbered
    <3>2. Head(inbox[sock]) \in Message /\ Tail(inbox[sock]) \in Seq(Message)
      BY <2>3, <3>1, TailFacts DEF receive_message
    <3> QED
      BY <2>3, <3>1, <3>2 DEF receive_message
  <2>4. CASE receive_disconnected \/ receive_would_block
    BY <2>4 DEF receive_disconnected, receive_would_block, Release, Rearmed
  <2>5. CASE handle_action
    BY <2>5 DEF handle_action, Done
  <2>6. CASE send_input_to_server
    <3>1. sock \in Sockets
      BY <2>6 DEF send_input_to_server
    <3>2. Append(received[sock], wrk.msg.line) \in Seq(Nat)
      <4>1. wrk.msg.line \in Nat
        BY MessageTyped
      <4> QED
        BY <3>1, <4>1
    <3> QED
      BY <2>6, <3>1, <3>2 DEF send_input_to_server, Done
  <2>7. CASE reconnect
    BY <2>7 DEF reconnect, reset_base_connection, setup_client, Done
  <2>8. CASE terminate
    BY <2>8 DEF terminate, Exit
  <2> QED
    BY <1>6, <2>1, <2>2, <2>3, <2>4, <2>5, <2>6, <2>7, <2>8 DEF Worker
<1> QED
  BY <1>1, <1>2, <1>3, <1>4, <1>5, <1>6 DEF Next

-----------------------------------------------------------------------------
(* Start-up and the numbers of the lines                                   *)

\* No thread acts before main has left its initialisation, and main does not
\* come back to it.
LEMMA StartingStep ==
    ASSUME TypeOK, Starting, Next
    PROVE  Starting'
<1> SUFFICES ASSUME main' = "init"
             PROVE  Starting'
  BY DEF Starting
<1> USE DEF vars, input, events, loop, slot, peer, history
<1>0. ~coroutine_loop
  <2> SUFFICES ASSUME coroutine_loop
               PROVE  FALSE
    OBVIOUS
  <2>1. Head(tags) \in Tags
    BY TailFacts DEF coroutine_loop, TypeOK
  <2> QED
    BY <2>1 DEF coroutine_loop, Tags
<1>1. main = "init"
  BY <1>0 DEF Next, Server, ConsoleThread, NetworkThread, CoroutineLoop, Worker,
         init, init_fails, run, server_close, server_send, console_read, console_tag,
         console_laps, network_event, network_tag, network_laps, resume_nothing, console_co,
         network_co, execute_task, check_alive, receive_message, receive_disconnected,
         receive_would_block, handle_action, send_input_to_server, reconnect, terminate,
         Exit
<1>2. /\ console = "off" /\ network = "off" /\ tags = <<>> /\ tasks = <<>>
      /\ wrk.pc = "idle"
  BY <1>1, IdleTyped DEF Starting
<1>3. Server
  BY <1>1, <1>2 DEF Next, ConsoleThread, NetworkThread, CoroutineLoop, Worker,
         init, init_fails, run, console_read, console_tag, console_laps,
         network_event, network_tag, network_laps, coroutine_loop, resume_nothing, console_co,
         network_co, execute_task, check_alive, receive_message, receive_disconnected,
         receive_would_block, handle_action, send_input_to_server, reconnect, terminate,
         Broadcasting
<1> QED
  BY <1>1, <1>3 DEF Server, server_close, server_send, Starting

\* Only the console thread numbers an entry, and nothing loses its number.
LEMMA NumberedStep ==
    ASSUME TypeOK, Starting, Numbered, Next
    PROVE  Numbered'
<1> USE IdleTyped
<1> USE DEF vars, input, events, loop, slot, peer, history, Console
<1>0. /\ console_raw_tasks \in Seq(Message)
      /\ tasks \in Seq([tag : Tags, msg : Message])
      /\ typed \in Nat /\ opened \in Nat /\ sock \in {NoSocket, opened}
      /\ inbox \in [Sockets -> Seq(Message)]
      /\ wrk \in [pc : {"idle", "check", "receive", "handle", "off"}, msg : Message]
  BY DEF TypeOK
<1>1. CASE init \/ init_fails
  BY <1>0, <1>1 DEF init, init_fails, run, init_network, setup_client, Starting, Numbered
<1>2. CASE Server
  <2>1. CASE \E s \in Sockets : server_close(s)
    BY <2>1 DEF server_close, Numbered
  <2>2. CASE \E s \in Sockets : \E m \in ServerMessages : server_send(s, m)
    <3>1. PICK s \in Sockets, m \in ServerMessages : server_send(s, m)
      BY <2>2
    <3> DEFINE e == [type |-> m.type, alias |-> m.alias, line |-> 0]
    <3>2. e \in Message /\ e.line = 0
      BY MessageTyped
    <3>3. inbox' = [inbox EXCEPT ![s] = Append(inbox[s], e)]
      BY <3>1 DEF server_send
    <3> HIDE DEF e
    <3>4. \A i \in DOMAIN Append(inbox[s], e) : Append(inbox[s], e)[i].line = 0
      BY <1>0, <3>2, AppendFacts DEF Numbered
    <3>5. \A r \in Sockets : \A i \in DOMAIN inbox'[r] : inbox'[r][i].line = 0
      BY <1>0, <3>3, <3>4 DEF Numbered
    <3> QED
      BY <3>1, <3>5 DEF server_send, Numbered
  <2> QED
    BY <1>2, <2>1, <2>2 DEF Server
<1>3. CASE ConsoleThread
  <2>1. CASE \E alias \in Lines : console_read(alias)
    <3>1. PICK alias \in Lines : console_read(alias)
      BY <2>1
    <3> DEFINE e == [type |-> "DEFAULT", alias |-> alias, line |-> typed + 1]
    <3>2. e \in Message /\ e.line # 0
      BY <1>0, MessageTyped
    <3>3. console_raw_tasks' = console_raw_tasks \/ console_raw_tasks' = Append(console_raw_tasks, e)
      BY <3>1, LinePushed
    <3> HIDE DEF e
    <3>4. \A i \in DOMAIN Append(console_raw_tasks, e) : Append(console_raw_tasks, e)[i].line # 0
      BY <1>0, <3>2, AppendFacts DEF Numbered
    <3> QED
      BY <3>1, <3>3, <3>4 DEF console_read, Numbered
  <2>2. CASE console_tag
    BY <2>2 DEF console_tag, Numbered
  <2>3. CASE console_laps
    BY <2>3 DEF console_laps, Numbered
  <2> QED
    BY <1>3, <2>1, <2>2, <2>3 DEF ConsoleThread
<1>4. CASE NetworkThread
  BY <1>4 DEF NetworkThread, network_event, network_tag, network_laps, Numbered
<1>5. CASE CoroutineLoop
  <2>1. CASE coroutine_loop
    BY <2>1 DEF coroutine_loop, Numbered
  <2>2. CASE resume_nothing
    BY <1>0, <2>2 DEF resume_nothing, Exit, Numbered
  <2>3. CASE console_co
    <3>1. CASE console_raw_tasks = <<>>
      BY <2>3, <3>1 DEF console_co, Numbered
    <3>2. CASE console_raw_tasks # <<>>
      <4> DEFINE e == [tag |-> "CONSOLE", msg |-> Head(console_raw_tasks)]
      <4>1. Head(console_raw_tasks) \in Message /\ Head(console_raw_tasks).line # 0
        BY <1>0, <3>2, TailFacts DEF Numbered
      <4>2. e \in [tag : Tags, msg : Message] /\ e.tag = "CONSOLE" /\ e.msg.line # 0
        BY <4>1 DEF Tags
      <4>3. tasks' = Append(tasks, e) /\ console_raw_tasks' = Tail(console_raw_tasks)
        BY <2>3, <3>2 DEF console_co
      <4> HIDE DEF e
      <4>4. \A i \in DOMAIN tasks' : tasks'[i].tag = "CONSOLE" <=> tasks'[i].msg.line # 0
        BY <1>0, <4>2, <4>3, AppendFacts DEF Numbered
      <4>5. \A i \in DOMAIN console_raw_tasks' : console_raw_tasks'[i].line # 0
        BY <1>0, <3>2, <4>3, TailFacts DEF Numbered
      <4> QED
        BY <2>3, <4>4, <4>5 DEF console_co, Numbered
    <3> QED
      BY <3>1, <3>2
  <2>4. CASE network_co
    <3>1. CASE network_raw_tasks = 0
      BY <2>4, <3>1 DEF network_co, Numbered
    <3>2. CASE network_raw_tasks # 0
      <4> DEFINE e == [tag |-> "NETWORK", msg |-> IdleWorker.msg]
      <4>1. e \in [tag : Tags, msg : Message] /\ e.tag # "CONSOLE" /\ e.msg.line = 0
        BY DEF Tags
      <4>2. tasks' = Append(tasks, e)
        BY <2>4, <3>2 DEF network_co
      <4> HIDE DEF e
      <4>3. \A i \in DOMAIN tasks' : tasks'[i].tag = "CONSOLE" <=> tasks'[i].msg.line # 0
        BY <1>0, <4>1, <4>2, AppendFacts DEF Numbered
      <4> QED
        BY <2>4, <4>3 DEF network_co, Numbered
    <3> QED
      BY <3>1, <3>2
  <2> QED
    BY <1>5, <2>1, <2>2, <2>3, <2>4 DEF CoroutineLoop
<1>6. CASE Worker
  <2>1. CASE execute_task
    <3>1. \A i \in DOMAIN tasks' : tasks'[i].tag = "CONSOLE" <=> tasks'[i].msg.line # 0
      BY <1>0, <2>1, TailFacts DEF execute_task, Numbered
    <3>2. Head(tasks).tag = "CONSOLE" <=> Head(tasks).msg.line # 0
      BY <1>0, <2>1, TailFacts DEF execute_task, Numbered
    <3> QED
      BY <2>1, <3>1, <3>2 DEF execute_task, Numbered
  <2>2. CASE check_alive
    BY <1>0, <2>2 DEF check_alive, Numbered
  <2>3. CASE receive_message
    <3>1. sock \in Sockets
      BY <1>0, <2>3 DEF receive_message, Numbered, TypeOK, Sockets, NoSocket
    <3>2. \A i \in DOMAIN Tail(inbox[sock]) : Tail(inbox[sock])[i].line = 0
      BY <1>0, <2>3, <3>1, TailFacts DEF receive_message, Numbered
    <3>3. \A r \in Sockets : \A i \in DOMAIN inbox'[r] : inbox'[r][i].line = 0
      BY <1>0, <2>3, <3>1, <3>2 DEF receive_message, Numbered
    <3> QED
      BY <2>3, <3>3 DEF receive_message, Numbered
  <2>4. CASE receive_disconnected \/ receive_would_block
    BY <2>4 DEF receive_disconnected, receive_would_block, Numbered
  <2>5. CASE handle_action
    BY <2>5 DEF handle_action, Done, Numbered
  <2>6. CASE send_input_to_server
    BY <2>6 DEF send_input_to_server, Done, Numbered
  <2>7. CASE reconnect
    BY <2>7 DEF reconnect, Done, Numbered
  <2>8. CASE terminate
    BY <1>0, <2>8 DEF terminate, Exit, Numbered
  <2> QED
    BY <1>6, <2>1, <2>2, <2>3, <2>4, <2>5, <2>6, <2>7, <2>8 DEF Worker
<1> QED
  BY <1>1, <1>2, <1>3, <1>4, <1>5, <1>6 DEF Next

-----------------------------------------------------------------------------
(* A tag for every raw entry                                               *)

\* Each of the two counts, for one kind of entry: the raw entries, the thread
\* that reads them and its coroutine.
LEMMA TaggedStep ==
    ASSUME TypeOK, Starting, EveryEntryTagged, Next
    PROVE  EveryEntryTagged'
<1> SUFFICES ASSUME AllQueued', main' # "off"
             PROVE  /\ Len(console_raw_tasks') = CountTags("CONSOLE")'
                           + One(console' = "tag") + One(main' = "CONSOLE")
                    /\ network_raw_tasks' = CountTags("NETWORK")'
                           + One(network' = "tag") + One(main' = "NETWORK")
  BY DEF EveryEntryTagged, Exited
<1> DEFINE C == CountTags("CONSOLE")
           N == CountTags("NETWORK")
<1>N. /\ Len(console_raw_tasks) \in Nat /\ network_raw_tasks \in Nat
      /\ C \in Nat /\ N \in Nat
  BY TagCounts DEF TypeOK
<1>0. /\ console_raw_tasks \in Seq(Message) /\ tags \in Seq(Tags)
      /\ tags = <<>> => C = 0 /\ N = 0
      /\ tags' = tags => C' = C /\ N' = N
      /\ \A e \in Tags : tags' = Append(tags, e) =>
             C' = C + One(e = "CONSOLE") /\ N' = N + One(e = "NETWORK")
      /\ tags # <<>> /\ tags' = Tail(tags) =>
             C = C' + One(Head(tags) = "CONSOLE") /\ N = N' + One(Head(tags) = "NETWORK")
  BY TagCounts DEF TypeOK
<1> HIDE DEF C, N
<1> USE DEF vars, input, events, loop, slot, peer, history, One
<1>1. mishaps \subseteq mishaps' /\ main # "off"
  <2>1. ASSUME NEW tag, PushTag(tag) PROVE mishaps \subseteq mishaps'
    BY <2>1, TagPushed
  <2>2. ASSUME NEW alias, console_read(alias) PROVE mishaps \subseteq mishaps'
    BY <2>2, LinePushed
  <2> QED
    BY <2>1, <2>2 DEF Next, Server, ConsoleThread, NetworkThread, CoroutineLoop,
         Worker, init, init_fails, run, server_close, server_send, console_read,
         console_tag, console_laps, LapsTheRing, network_event, network_tag,
         network_laps, coroutine_loop, resume_nothing, console_co,
         network_co, execute_task, check_alive, receive_message, receive_disconnected,
         receive_would_block, handle_action, send_input_to_server, reconnect, terminate,
         Exit, Done
<1>a. AllQueued
  BY <1>1 DEF AllQueued
<1>2. /\ Len(console_raw_tasks) = C + One(console = "tag") + One(main = "CONSOLE")
      /\ network_raw_tasks = N + One(network = "tag") + One(main = "NETWORK")
  BY <1>1, <1>a DEF EveryEntryTagged, Exited, C, N
<1> SUFFICES /\ Len(console_raw_tasks') = C' + One(console' = "tag") + One(main' = "CONSOLE")
             /\ network_raw_tasks' = N' + One(network' = "tag") + One(main' = "NETWORK")
  BY DEF C, N
<1>3. CASE init \/ init_fails
  BY <1>N, <1>0, <1>3 DEF init, init_fails, run, Starting
<1>4. CASE Server
  BY <1>N, <1>0, <1>2, <1>4 DEF Server, server_close, server_send
<1>5. CASE ConsoleThread
  <2>1. CASE \E alias \in Lines : console_read(alias)
    <3>1. PICK alias \in Lines : console_read(alias)
      BY <2>1
    <3> DEFINE e == [type |-> "DEFAULT", alias |-> alias, line |-> typed + 1]
    <3>2. e \in Message
      <4>1. typed + 1 \in Nat
        BY DEF TypeOK
      <4> QED
        BY ONLY <4>1, MessageTyped, alias \in Lines
    <3>3. console_raw_tasks' = Append(console_raw_tasks, e)
      BY <3>1, LinePushed DEF AllQueued
    <3>4. Len(console_raw_tasks') = Len(console_raw_tasks) + 1
      BY <1>N, <1>0, <3>2, <3>3, AppendFacts
    <3> QED
      BY <1>N, <1>0, <1>2, <3>1, <3>4 DEF console_read
  <2>2. CASE console_tag
    <3>1. tags' = Append(tags, "CONSOLE")
      BY <2>2, TagPushed DEF console_tag, AllQueued
    <3>2. C' = C + 1 /\ N' = N
      BY <1>N, <1>0, <3>1 DEF Tags
    <3> QED
      BY <1>N, <1>0, <1>2, <2>2, <3>2 DEF console_tag
  <2>3. CASE console_laps
    BY <2>3 DEF console_laps, LapsTheRing, AllQueued
  <2> QED
    BY <1>5, <2>1, <2>2, <2>3 DEF ConsoleThread
<1>6. CASE NetworkThread
  <2>1. CASE \E s \in Sockets : network_event(s)
    BY <1>N, <1>0, <1>2, <2>1 DEF network_event
  <2>2. CASE network_tag
    <3>1. tags' = Append(tags, "NETWORK")
      BY <2>2, TagPushed DEF network_tag, AllQueued
    <3>2. C' = C /\ N' = N + 1
      BY <1>N, <1>0, <3>1 DEF Tags
    <3> QED
      BY <1>N, <1>0, <1>2, <2>2, <3>2 DEF network_tag
  <2>3. CASE network_laps
    BY <2>3 DEF network_laps, LapsTheRing, AllQueued
  <2> QED
    BY <1>6, <2>1, <2>2, <2>3 DEF NetworkThread
<1>7. CASE CoroutineLoop
  <2>1. CASE coroutine_loop
    <3>1. /\ C = C' + One(Head(tags) = "CONSOLE")
          /\ N = N' + One(Head(tags) = "NETWORK")
          /\ C' \in Int /\ N' \in Int
      <4>1. tags' \in Seq(Tags)
        BY <1>N, <1>0, <2>1, TailFacts DEF coroutine_loop
      <4>2. C' \in Nat /\ N' \in Nat
        BY <4>1, PlacesFinite, TagPlaces DEF C, N
      <4>3. tags # <<>> /\ tags' = Tail(tags)
        BY <2>1 DEF coroutine_loop
      <4>4. C' \in Int /\ N' \in Int
        BY <4>2
      <4> QED
        BY <1>0, <4>3, <4>4
    <3>2. /\ main = "wait" /\ main' = Head(tags)
          /\ UNCHANGED <<console_raw_tasks, console, network_raw_tasks, network>>
      BY <2>1 DEF coroutine_loop
    <3>3. /\ C' = C - One(Head(tags) = "CONSOLE") /\ One(main = "CONSOLE") = 0
          /\ N' = N - One(Head(tags) = "NETWORK") /\ One(main = "NETWORK") = 0
      <4>1. One(main = "CONSOLE") = 0 /\ One(main = "NETWORK") = 0
        BY <3>2 DEF One
      <4>2. One(Head(tags) = "CONSOLE") \in Int /\ One(Head(tags) = "NETWORK") \in Int
        BY DEF One
      <4> HIDE DEF One
      <4> QED
        BY ONLY <1>N, <3>1, <4>1, <4>2
    <3> QED
      BY ONLY <1>N, <1>2, <3>2, <3>3 DEF One
  <2>2. CASE resume_nothing
    BY <2>2 DEF resume_nothing, Exit
  <2>3. CASE console_co
    <3>1. console_raw_tasks # <<>>
      BY <1>N, <1>0, <1>2, <2>3 DEF console_co
    <3>2. Len(console_raw_tasks') = Len(console_raw_tasks) - 1
      BY <1>N, <1>0, <2>3, <3>1, TailFacts DEF console_co
    <3> QED
      BY <1>N, <1>0, <1>2, <2>3, <3>2 DEF console_co
  <2>4. CASE network_co
    <3>1. network_raw_tasks # 0
      BY <1>N, <1>0, <1>2, <2>4 DEF network_co
    <3> QED
      BY <1>N, <1>0, <1>2, <2>4, <3>1 DEF network_co
  <2> QED
    BY <1>7, <2>1, <2>2, <2>3, <2>4 DEF CoroutineLoop
<1>8. CASE Worker
  <2>1. main' = main /\ tags' = tags /\ UNCHANGED <<console_raw_tasks, console,
                                                    network_raw_tasks, network>>
    BY <1>8 DEF Worker, execute_task, check_alive, receive_message, receive_disconnected,
         receive_would_block, handle_action, send_input_to_server, reconnect, terminate, Exit
  <2> QED
    BY <1>N, <1>0, <1>2, <2>1
<1> QED
  BY <1>3, <1>4, <1>5, <1>6, <1>7, <1>8 DEF Next

-----------------------------------------------------------------------------
(* Slot 0 is served once                                                   *)

\* Slot 0 is put on its way by an event, which disarms the socket, and the
\* socket is armed again only by the worker that puts the slot down.
LEMMA ArmedStep ==
    ASSUME TypeOK, TypeOK', Starting, Numbered, ArmedIdle, Next
    PROVE  ArmedIdle'
<1>N. /\ network_raw_tasks \in Nat /\ Serving \in Nat /\ NetworkTasks \in Nat /\ Serving <= 1
  BY TaskCounts DEF TypeOK, Serving, One
<1>P. PICK k \in Nat, m \in Nat, v \in Nat :
          network_raw_tasks' = k /\ NetworkTasks' = m /\ Serving' = v /\ v <= 1
  <2>1. network_raw_tasks' \in Nat /\ NetworkTasks' \in Nat
    BY TaskCounts DEF TypeOK
  <2>2. Serving' = 0 \/ Serving' = 1
    BY DEF Serving, One
  <2> QED
    BY <2>1, <2>2
<1>0. /\ tasks = <<>> => NetworkTasks = 0
      /\ tasks' = tasks => m = NetworkTasks
      /\ \A e \in [tag : Tags, msg : Message] : tasks' = Append(tasks, e) =>
             m = NetworkTasks + One(e.tag = "NETWORK")
      /\ tasks # <<>> /\ tasks' = Tail(tasks) =>
             NetworkTasks = m + One(Head(tasks).tag = "NETWORK")
  BY <1>P, TaskCounts DEF TypeOK
<1>1. /\ network_raw_tasks + NetworkTasks + Serving <= 1
      /\ epoll[1] = "armed" => network_raw_tasks + NetworkTasks + Serving = 0
      /\ \A s \in Sockets : s # 1 => epoll[s] = "absent"
  BY DEF ArmedIdle, InFlight
<1>F. k = network_raw_tasks /\ m + v <= NetworkTasks + Serving =>
          k + m + v <= 1 /\ (network_raw_tasks + NetworkTasks + Serving = 0 => k + m + v = 0)
  BY <1>N, <1>P, <1>1
<1>2. /\ Serving = One(wrk.pc \notin {"idle", "off"} /\ wrk.msg.line = 0)
      /\ v = One(wrk'.pc \notin {"idle", "off"} /\ wrk'.msg.line = 0)
  BY <1>P DEF Serving, Console
<1>3. /\ epoll \in [Sockets -> {"absent", "armed", "disarmed"}] /\ 1 \in Sockets
      /\ wrk \in [pc : {"idle", "check", "receive", "handle", "off"}, msg : Message]
      /\ sock \in {0, opened} /\ opened \in 0 .. MaxSockets
      /\ inbox \in [Sockets -> Seq(Message)]
      /\ tasks \in Seq([tag : Tags, msg : Message])
  <2>1. 1 \in Sockets
    BY ClientAssumption DEF Sockets
  <2> QED
    BY <2>1 DEF TypeOK, NoSocket
<1>4. SUFFICES /\ k + m + v <= 1
               /\ epoll'[1] = "armed" => k + m + v = 0
               /\ \A s \in Sockets : s # 1 => epoll'[s] = "absent"
  BY <1>P DEF ArmedIdle, InFlight
<1> USE DEF vars, input, events, loop, slot, peer, history, One
<1>5. CASE init \/ init_fails
  <2>1. k = 0 /\ m = 0 /\ v = 0
    BY <1>P, <1>0, <1>2, <1>5, IdleTyped DEF init, init_fails, run, Starting
  <2>2. \A s \in Sockets : s # 1 => epoll'[s] = "absent"
    BY <1>1, <1>3, <1>5 DEF init, init_fails, init_network, setup_client, init_epoll, Starting
  <2> QED
    BY <2>1, <2>2
<1>6. CASE Server
  BY <1>N, <1>P, <1>0, <1>1, <1>2, <1>6 DEF Server, server_close, server_send
<1>7. CASE ConsoleThread
  BY <1>N, <1>P, <1>0, <1>1, <1>2, <1>7 DEF ConsoleThread, console_read, console_tag,
       console_laps
<1>8. CASE NetworkThread
  <2>1. CASE \E s \in Sockets : network_event(s)
    <3>1. PICK s \in Sockets : network_event(s)
      BY <2>1
    <3>2. s = 1
      BY <1>1, <3>1 DEF network_event
    <3>3. network_raw_tasks + NetworkTasks + Serving = 0 /\ k = network_raw_tasks + 1 /\ m = NetworkTasks /\ v = Serving
      BY <1>N, <1>P, <1>0, <1>1, <1>2, <3>1, <3>2 DEF network_event
    <3>4. epoll' = [epoll EXCEPT ![1] = "disarmed"]
      BY <3>1, <3>2 DEF network_event, Reported
    <3> QED
      BY <1>N, <1>P, <1>0, <1>1, <1>3, <3>3, <3>4
  <2>2. CASE network_tag
    BY <1>N, <1>P, <1>0, <1>1, <1>2, <2>2 DEF network_tag
  <2>3. CASE network_laps
    BY <1>N, <1>P, <1>0, <1>1, <1>2, <2>3 DEF network_laps
  <2> QED
    BY <1>8, <2>1, <2>2, <2>3 DEF NetworkThread
<1>9. CASE CoroutineLoop
  <2>1. CASE coroutine_loop
    BY <1>N, <1>P, <1>0, <1>1, <1>2, <2>1 DEF coroutine_loop
  <2>2. CASE resume_nothing
    <3>1. v = 0
      BY <1>2, <1>3, <2>2 DEF resume_nothing, Exit
    <3> QED
      BY <1>N, <1>P, <1>0, <1>1, <2>2, <3>1 DEF resume_nothing, Exit
  <2>3. CASE console_co
    <3>1. m = NetworkTasks
      <4>1. CASE console_raw_tasks = <<>>
        BY <1>P, <1>0, <2>3, <4>1 DEF console_co
      <4>2. CASE console_raw_tasks # <<>>
        <5> DEFINE e == [tag |-> "CONSOLE", msg |-> Head(console_raw_tasks)]
        <5>1. e \in [tag : Tags, msg : Message] /\ e.tag # "NETWORK"
          <6>1. Head(console_raw_tasks) \in Message
            BY <4>2, TailFacts DEF TypeOK
          <6> QED
            BY <6>1 DEF Tags
        <5>2. tasks' = Append(tasks, e)
          BY <2>3, <4>2 DEF console_co
        <5> HIDE DEF e
        <5>3. m = NetworkTasks + 0
          BY <1>P, <1>0, <5>1, <5>2 DEF One
        <5> QED
          BY <1>N, <1>P, <5>3
      <4> QED
        BY <4>1, <4>2
    <3> QED
      BY <1>N, <1>P, <1>0, <1>1, <1>2, <2>3, <3>1 DEF console_co
  <2>4. CASE network_co
    <3>1. CASE network_raw_tasks = 0
      BY <1>N, <1>P, <1>0, <1>1, <1>2, <2>4, <3>1 DEF network_co
    <3>2. CASE network_raw_tasks # 0
      <4> DEFINE e == [tag |-> "NETWORK", msg |-> IdleWorker.msg]
      <4>1. e \in [tag : Tags, msg : Message] /\ e.tag = "NETWORK"
        BY IdleTyped DEF Tags
      <4>2. tasks' = Append(tasks, e) /\ k = network_raw_tasks - 1 /\ wrk' = wrk /\ epoll' = epoll
        BY <1>P, <2>4, <3>2 DEF network_co
      <4> HIDE DEF e
      <4>3. m = NetworkTasks + 1
        BY <1>P, <1>0, <4>1, <4>2
      <4> QED
        BY <1>N, <1>P, <1>0, <1>1, <1>2, <4>2, <4>3
    <3> QED
      BY <3>1, <3>2
  <2> QED
    BY <1>9, <2>1, <2>2, <2>3, <2>4 DEF CoroutineLoop
<1>10. CASE Worker
  <2>1. CASE execute_task
    <3>1. NetworkTasks = m + One(Head(tasks).tag = "NETWORK")
      BY <1>P, <1>0, <2>1 DEF execute_task
    <3>2. Head(tasks) \in [tag : Tags, msg : Message]
          /\ (Head(tasks).tag = "CONSOLE" <=> Head(tasks).msg.line # 0)
      <4>1. Head(tasks) = tasks[1] /\ 1 \in DOMAIN tasks /\ tasks # <<>>
        BY <1>3, <2>1, TailFacts DEF execute_task
      <4>2. Head(tasks) \in [tag : Tags, msg : Message]
        BY <1>3, <4>1, TailFacts
      <4> QED
        BY <4>1, <4>2 DEF Numbered
    <3>3. Head(tasks).tag \in {"CONSOLE", "NETWORK"}
      BY <3>2 DEF Tags
    <3>4. Serving = 0 /\ v = One(Head(tasks).tag = "NETWORK")
      BY <1>2, <2>1, <3>2, <3>3 DEF execute_task
    <3>5. k = network_raw_tasks /\ epoll' = epoll
      BY <1>P, <2>1 DEF execute_task
    <3>6. m + v = NetworkTasks + Serving
      BY <1>N, <1>P, <3>1, <3>4
    <3>7. m + v <= NetworkTasks + Serving
      BY <1>N, <1>P, <3>6
    <3> QED
      BY <1>F, <1>1, <3>5, <3>7
  <2>2. CASE check_alive
    <3>1. Serving = 1
      BY <1>2, <2>2 DEF check_alive, Numbered, Console
    <3>2. k = network_raw_tasks /\ m = NetworkTasks /\ epoll' = epoll
      BY <1>P, <1>0, <2>2 DEF check_alive
    <3>3. m + v <= NetworkTasks + Serving
      BY <1>N, <1>P, <3>1, <3>2
    <3> QED
      BY <1>F, <1>1, <3>2, <3>3
  <2>3. CASE receive_message
    <3>1. Serving = 1
      BY <1>2, <2>3 DEF receive_message, Numbered, Console
    <3>2. k = network_raw_tasks /\ m = NetworkTasks /\ epoll' = epoll
      BY <1>P, <1>0, <2>3 DEF receive_message
    <3>3. m + v <= NetworkTasks + Serving
      BY <1>N, <1>P, <3>1, <3>2
    <3> QED
      BY <1>F, <1>1, <3>2, <3>3
  <2>4. CASE receive_disconnected \/ receive_would_block
    <3>1. Serving = 1 /\ v = 0
      BY <1>2, <2>4, IdleTyped DEF receive_disconnected, receive_would_block, Numbered, Console
    <3>2. k = network_raw_tasks /\ m = NetworkTasks
      BY <1>P, <1>0, <2>4 DEF receive_disconnected, receive_would_block
    <3>3. \A s \in Sockets : s # 1 => epoll'[s] = "absent"
      BY <1>1, <1>3, <2>4 DEF receive_disconnected, receive_would_block, Release, Rearmed
    <3>4. k + m + v = 0
      BY <1>N, <1>P, <1>1, <3>1, <3>2
    <3> QED
      BY <3>3, <3>4
  <2>5. CASE handle_action \/ send_input_to_server \/ reconnect
    <3>1. v <= Serving
      BY <1>2, <2>5, IdleTyped DEF handle_action, send_input_to_server, reconnect,
             Broadcasting, Done, Console
    <3>2. k = network_raw_tasks /\ m = NetworkTasks /\ epoll' = epoll
      BY <1>P, <1>0, <2>5 DEF handle_action, send_input_to_server, reconnect, reset_base_connection
    <3>3. m + v <= NetworkTasks + Serving
      BY <1>N, <1>P, <3>1, <3>2
    <3> QED
      BY <1>F, <1>1, <3>2, <3>3
  <2>6. CASE terminate
    <3>1. v = 0
      BY <1>2, <1>3, <2>6 DEF terminate, Exit
    <3> QED
      BY <1>N, <1>P, <1>0, <1>1, <2>6, <3>1 DEF terminate, Exit
  <2> QED
    BY <1>10, <2>1, <2>2, <2>3, <2>4, <2>5, <2>6 DEF Worker
<1> QED
  BY <1>5, <1>6, <1>7, <1>8, <1>9, <1>10 DEF Next

-----------------------------------------------------------------------------
(* The order of the lines                                                  *)

\* A chain stays one when elements leave it.
LEMMA ChainShrinks ==
    ASSUME NEW G, NEW H, NEW T, NEW R, NEW n, Chain(G, H, T, R, n),
           NEW A \in SUBSET G, NEW B \in SUBSET H,
           NEW C \in SUBSET T, NEW D \in SUBSET R
    PROVE  Chain(A, B, C, D, n)
BY DEF Chain, Before

\* A new line gets a number above all the others.
LEMMA ChainRead ==
    ASSUME NEW G \in SUBSET Nat, NEW H \in SUBSET Nat, NEW T \in SUBSET Nat,
           NEW R \in SUBSET Nat, NEW n \in Nat, Chain(G, H, T, R, n),
           NEW D \in SUBSET (R \cup {n + 1})
    PROVE  Chain(G, H, T, D, n + 1)
BY DEF Chain, Before

\* The first raw line becomes the last task.
LEMMA ChainPromoted ==
    ASSUME NEW G \in SUBSET Nat, NEW H \in SUBSET Nat, NEW T \in SUBSET Nat,
           NEW R \in SUBSET Nat, NEW n \in Nat, Chain(G, H, T, R, n),
           NEW x \in R, NEW D \in SUBSET R, Before({x}, D),
           NEW C \in SUBSET (T \cup {x})
    PROVE  Chain(G, H, C, D, n)
BY DEF Chain, Before

\* The first task is handled.
LEMMA ChainTaken ==
    ASSUME NEW G \in SUBSET Nat, NEW H \in SUBSET Nat, NEW T \in SUBSET Nat,
           NEW R \in SUBSET Nat, NEW n \in Nat, Chain(G, H, T, R, n),
           NEW x \in T, NEW C \in SUBSET T, Before({x}, C),
           NEW B \in SUBSET {x}
    PROVE  Chain(G, B, C, R, n)
BY DEF Chain, Before

\* The line that is handled reaches the server.
LEMMA ChainSent ==
    ASSUME NEW G \in SUBSET Nat, NEW H \in SUBSET Nat, NEW T \in SUBSET Nat,
           NEW R \in SUBSET Nat, NEW n \in Nat, Chain(G, H, T, R, n),
           NEW A \in SUBSET (G \cup H)
    PROVE  Chain(A, {}, T, R, n)
BY DEF Chain, Before

\* All of them are numbers.
LEMMA LinesTyped ==
    ASSUME TypeOK
    PROVE  /\ RawLines \in SUBSET Nat /\ TaskLines \in SUBSET Nat
           /\ HandledLines \in SUBSET Nat /\ Got \in SUBSET Nat
           /\ typed \in Nat
<1>1. RawLines \in SUBSET Nat
  BY Element, MessageTyped DEF TypeOK, RawLines
<1>2. TaskLines \in SUBSET Nat
  <2>1. \A i \in DOMAIN tasks : tasks[i] \in [tag : Tags, msg : Message]
    BY Element DEF TypeOK
  <2>2. \A i \in DOMAIN tasks : tasks[i].msg.line \in Nat
    BY <2>1, MessageTyped
  <2> QED
    BY <2>2 DEF TaskLines, ConsoleTasks
<1>3. HandledLines \in SUBSET Nat
  BY MessageTyped DEF TypeOK, HandledLines
<1>4. Got \in SUBSET Nat
  BY DEF Got
<1> QED
  BY <1>1, <1>2, <1>3, <1>4 DEF TypeOK

\* A step that moves no line, or only drops the one that is handled.
LEMMA QuietStep ==
    ASSUME TypeOK, LineOrder, LinesInOrder,
           UNCHANGED <<console_raw_tasks, tasks, typed, received>>,
           opened' \in {opened, opened + 1},
           HandledLines' \in SUBSET HandledLines
    PROVE  LineOrder' /\ LinesInOrder'
<1>1. RawLines' = RawLines /\ TaskLines' = TaskLines /\ Got' = Got
      /\ ConsoleTasks' = ConsoleTasks
  BY DEF RawLines, TaskLines, ConsoleTasks, Got
<1>2. Chain(Got, HandledLines, TaskLines, RawLines, typed)
  BY DEF LineOrder
<1>3. Chain(Got', HandledLines', TaskLines', RawLines', typed')
  BY <1>1, <1>2, ChainShrinks
<1>4. \A s \in Sockets : s > opened' => received'[s] = <<>>
  BY DEF LineOrder, TypeOK, Sockets
<1>5. LinesInOrder'
  BY DEF LinesInOrder
<1> QED
  BY <1>1, <1>3, <1>4, <1>5 DEF LineOrder

\* A worker that is not handling a line has none.
LEMMA NotHandling ==
    ASSUME wrk'.pc # "handle" \/ wrk'.msg.line = 0 \/ wrk' = wrk
    PROVE  HandledLines' \in SUBSET HandledLines
BY DEF HandledLines, Console

\* getline: the new line is the last raw line.
LEMMA ReadStep ==
    ASSUME TypeOK, LineOrder, LinesInOrder, NEW alias \in Lines, console_read(alias)
    PROVE  LineOrder' /\ LinesInOrder'
<1> DEFINE e == [type |-> "DEFAULT", alias |-> alias, line |-> typed + 1]
<1>1. /\ console_raw_tasks \in Seq(Message) /\ typed \in Nat
      /\ e \in Message /\ e.line = typed + 1
  <2>1. typed \in Nat /\ typed + 1 \in Nat
    BY DEF TypeOK
  <2> QED
    BY <2>1, MessageTyped DEF TypeOK
<1>2. /\ typed' = typed + 1
      /\ console_raw_tasks' = console_raw_tasks
         \/ console_raw_tasks' = Append(console_raw_tasks, e)
      /\ UNCHANGED <<tasks, wrk, received, opened>>
  BY LinePushed DEF console_read, peer, history
<1> HIDE DEF e
<1>3. /\ TaskLines' = TaskLines /\ Got' = Got /\ HandledLines' = HandledLines
      /\ ConsoleTasks' = ConsoleTasks
  BY <1>2 DEF TaskLines, ConsoleTasks, Got, HandledLines, Console
<1>4. \A i \in DOMAIN console_raw_tasks :
          console_raw_tasks[i].line \in Nat /\ console_raw_tasks[i].line <= typed
  BY LinesTyped DEF LineOrder, Chain, RawLines
<1>5. RawLines' \in SUBSET (RawLines \cup {typed + 1})
  <2>1. CASE console_raw_tasks' = console_raw_tasks
    BY <2>1 DEF RawLines
  <2>2. CASE console_raw_tasks' = Append(console_raw_tasks, e)
    BY <1>1, <2>2, AppendFacts DEF RawLines
  <2> QED
    BY <1>2, <2>1, <2>2
<1>6. \A i, j \in DOMAIN console_raw_tasks' :
          i < j => console_raw_tasks'[i].line < console_raw_tasks'[j].line
  <2>1. CASE console_raw_tasks' = console_raw_tasks
    BY <2>1 DEF LineOrder
  <2>2. CASE console_raw_tasks' = Append(console_raw_tasks, e)
    <3> DEFINE n == Len(console_raw_tasks)
    <3>1. /\ n \in Nat /\ DOMAIN console_raw_tasks = 1 .. n
          /\ DOMAIN console_raw_tasks' = 1 .. n + 1
          /\ console_raw_tasks'[n + 1].line = typed + 1
          /\ \A i \in 1 .. n : console_raw_tasks'[i] = console_raw_tasks[i]
      BY <1>1, <2>2, AppendFacts
    <3> HIDE DEF n
    <3>2. SUFFICES ASSUME NEW i \in 1 .. n + 1, NEW j \in 1 .. n + 1, i < j
                   PROVE  console_raw_tasks'[i].line < console_raw_tasks'[j].line
      BY <3>1
    <3>3. i \in 1 .. n
      BY <3>1, <3>2
    <3>4. CASE j \in 1 .. n
      BY <3>1, <3>2, <3>3, <3>4 DEF LineOrder
    <3>5. CASE j = n + 1
      BY <1>1, <1>4, <3>1, <3>3, <3>5
    <3> QED
      BY <3>1, <3>4, <3>5
  <2> QED
    BY <1>2, <2>1, <2>2
<1>7. Chain(Got, HandledLines, TaskLines, RawLines', typed + 1)
  BY <1>5, ChainRead, LinesTyped DEF LineOrder
<1>8. LinesInOrder' /\ \A s \in Sockets : s > opened' => received'[s] = <<>>
  BY <1>2 DEF LinesInOrder, LineOrder
<1> QED
  BY <1>2, <1>3, <1>6, <1>7, <1>8 DEF LineOrder

\* The first raw line becomes the last console task.
LEMMA PromoteStep ==
    ASSUME TypeOK, LineOrder, LinesInOrder, console_co, console_raw_tasks # <<>>
    PROVE  LineOrder' /\ LinesInOrder'
<1> DEFINE e == [tag |-> "CONSOLE", msg |-> Head(console_raw_tasks)]
           x == Head(console_raw_tasks).line
           n == Len(tasks)
<1>1. /\ console_raw_tasks \in Seq(Message)
      /\ tasks \in Seq([tag : Tags, msg : Message])
  BY DEF TypeOK
<1>2. /\ console_raw_tasks' = Tail(console_raw_tasks) /\ tasks' = Append(tasks, e)
      /\ UNCHANGED <<typed, wrk, received, opened>>
  BY DEF console_co, peer, history
<1>3. /\ e \in [tag : Tags, msg : Message] /\ e.tag = "CONSOLE" /\ e.msg.line = x
      /\ x \in Nat
  <2>1. Head(console_raw_tasks) \in Message
    BY <1>1, TailFacts
  <2> QED
    BY <2>1, MessageTyped DEF Tags
<1>4. Got' = Got /\ HandledLines' = HandledLines
  BY <1>2 DEF Got, HandledLines, Console
<1>5. /\ x \in RawLines /\ RawLines' \in SUBSET RawLines /\ Before({x}, RawLines')
      /\ \A i, j \in DOMAIN console_raw_tasks' :
             i < j => console_raw_tasks'[i].line < console_raw_tasks'[j].line
  <2> DEFINE m == Len(console_raw_tasks)
  <2>1. /\ m \in Nat \ {0} /\ DOMAIN console_raw_tasks = 1 .. m
        /\ DOMAIN console_raw_tasks' = 1 .. (m - 1)
        /\ x = console_raw_tasks[1].line
        /\ \A i \in 1 .. (m - 1) : console_raw_tasks'[i] = console_raw_tasks[i + 1]
    BY <1>1, <1>2, TailFacts
  <2> HIDE DEF m, x
  <2>2. \A i, j \in 1 .. m : i < j => console_raw_tasks[i].line < console_raw_tasks[j].line
    BY <2>1 DEF LineOrder
  <2>3. x \in RawLines
    BY <2>1 DEF RawLines
  <2>4. RawLines' \in SUBSET RawLines
    BY <2>1 DEF RawLines
  <2>5. Before({x}, RawLines')
    BY <2>1, <2>2 DEF RawLines, Before
  <2>6. \A i, j \in 1 .. (m - 1) :
            i < j => console_raw_tasks'[i].line < console_raw_tasks'[j].line
    <3> TAKE i, j \in 1 .. (m - 1)
    <3> HAVE i < j
    <3>1. i + 1 \in 1 .. m /\ j + 1 \in 1 .. m /\ i + 1 < j + 1
      BY <2>1
    <3> QED
      BY <2>1, <2>2, <3>1
  <2> QED
    BY <2>1, <2>3, <2>4, <2>5, <2>6
<1>6. /\ n \in Nat /\ DOMAIN tasks = 1 .. n /\ DOMAIN tasks' = 1 .. n + 1
      /\ tasks'[n + 1] = e
      /\ \A i \in 1 .. n : tasks'[i] = tasks[i]
  BY <1>1, <1>2, <1>3, AppendFacts
<1> HIDE DEF e, x, n
<1>7. ConsoleTasks' = ConsoleTasks \cup {n + 1}
  BY <1>3, <1>6 DEF ConsoleTasks
<1>8. ConsoleTasks \in SUBSET (1 .. n)
  BY <1>6 DEF ConsoleTasks
<1>9. TaskLines' \in SUBSET (TaskLines \cup {x})
  BY <1>3, <1>6, <1>7, <1>8 DEF TaskLines
<1>10. \A i, j \in ConsoleTasks' : i < j => tasks'[i].msg.line < tasks'[j].msg.line
  <2>1. \A i \in ConsoleTasks : tasks[i].msg.line < x
    BY <1>5 DEF LineOrder, Chain, Before, TaskLines
  <2>2. SUFFICES ASSUME NEW i \in ConsoleTasks', NEW j \in ConsoleTasks', i < j
                 PROVE  tasks'[i].msg.line < tasks'[j].msg.line
    OBVIOUS
  <2>3. i \in ConsoleTasks /\ i \in 1 .. n
    BY <1>6, <1>7, <1>8, <2>2
  <2>4. CASE j \in ConsoleTasks
    BY <1>6, <1>8, <2>2, <2>3, <2>4 DEF LineOrder
  <2>5. CASE j = n + 1
    BY <1>3, <1>6, <2>1, <2>3, <2>5
  <2> QED
    BY <1>7, <2>4, <2>5
<1>11. Chain(Got, HandledLines, TaskLines', RawLines', typed)
  BY <1>5, <1>9, ChainPromoted, LinesTyped DEF LineOrder
<1>12. LinesInOrder' /\ \A s \in Sockets : s > opened' => received'[s] = <<>>
  BY <1>2 DEF LinesInOrder, LineOrder
<1> QED
  BY <1>2, <1>4, <1>5, <1>10, <1>11, <1>12 DEF LineOrder

\* A network task changes nothing in the order of the lines.
LEMMA NetworkTaskStep ==
    ASSUME TypeOK, LineOrder, LinesInOrder, network_co
    PROVE  LineOrder' /\ LinesInOrder'
<1> DEFINE e == [tag |-> "NETWORK", msg |-> IdleWorker.msg]
           n == Len(tasks)
<1>1. /\ UNCHANGED <<console_raw_tasks, typed, wrk, received, opened>>
      /\ tasks' = tasks \/ tasks' = Append(tasks, e)
  BY DEF network_co, input, peer, history
<1>2. HandledLines' = HandledLines
  BY <1>1 DEF HandledLines, Console
<1>3. CASE tasks' = tasks
  BY <1>1, <1>2, <1>3, QuietStep
<1>4. CASE tasks' = Append(tasks, e)
  <2>1. e \in [tag : Tags, msg : Message] /\ e.tag # "CONSOLE"
    BY IdleTyped DEF Tags
  <2>2. tasks \in Seq([tag : Tags, msg : Message])
    BY DEF TypeOK
  <2> HIDE DEF e
  <2>3. /\ n \in Nat /\ DOMAIN tasks = 1 .. n /\ DOMAIN tasks' = 1 .. n + 1
        /\ tasks'[n + 1] = e
        /\ \A i \in 1 .. n : tasks'[i] = tasks[i]
    BY <1>4, <2>1, <2>2, AppendFacts
  <2> HIDE DEF n
  <2>4. ConsoleTasks' = ConsoleTasks
    BY <2>1, <2>3 DEF ConsoleTasks
  <2>5. \A i \in ConsoleTasks : tasks'[i] = tasks[i]
    BY <2>3 DEF ConsoleTasks
  <2>6. TaskLines' = TaskLines
    BY <2>4, <2>5 DEF TaskLines
  <2>7. RawLines' = RawLines /\ Got' = Got
    BY <1>1 DEF RawLines, Got
  <2>8. LinesInOrder' /\ \A s \in Sockets : s > opened' => received'[s] = <<>>
    BY <1>1 DEF LinesInOrder, LineOrder
  <2> QED
    BY <1>1, <1>2, <2>4, <2>5, <2>6, <2>7, <2>8 DEF LineOrder
<1> QED
  BY <1>1, <1>3, <1>4

\* The first task is taken; if it is a line, no other is being handled.
LEMMA TakeStep ==
    ASSUME TypeOK, Numbered, LineOrder, LinesInOrder, execute_task
    PROVE  LineOrder' /\ LinesInOrder'
<1> DEFINE n == Len(tasks)
           x == Head(tasks).msg.line
<1>1. /\ tasks # <<>> /\ tasks' = Tail(tasks)
      /\ wrk' = [pc |-> IF Head(tasks).tag = "CONSOLE" THEN "handle" ELSE "check",
                 msg |-> Head(tasks).msg]
      /\ UNCHANGED <<console_raw_tasks, typed, received, opened>>
  BY DEF execute_task, input, peer, history
<1>2. /\ n \in Nat \ {0} /\ DOMAIN tasks = 1 .. n /\ DOMAIN tasks' = 1 .. (n - 1)
      /\ Head(tasks) = tasks[1]
      /\ \A i \in 1 .. (n - 1) : tasks'[i] = tasks[i + 1]
  BY <1>1, TailFacts DEF TypeOK
<1>3. RawLines' = RawLines /\ Got' = Got
  BY <1>1 DEF RawLines, Got
<1> HIDE DEF n
<1>4. /\ TaskLines' \in SUBSET TaskLines
      /\ \A i \in ConsoleTasks' : i \in 1 .. (n - 1) /\ i + 1 \in ConsoleTasks
                                  /\ tasks'[i] = tasks[i + 1]
  <2>1. \A i \in ConsoleTasks' : i \in 1 .. (n - 1) /\ i + 1 \in ConsoleTasks
                                 /\ tasks'[i] = tasks[i + 1]
    BY <1>2 DEF ConsoleTasks
  <2> QED
    BY <2>1 DEF TaskLines
<1>5. \A i, j \in ConsoleTasks' : i < j => tasks'[i].msg.line < tasks'[j].msg.line
  <2> TAKE i, j \in ConsoleTasks'
  <2> HAVE i < j
  <2>1. i + 1 < j + 1
    BY <1>2, <1>4
  <2> QED
    BY <1>4, <2>1 DEF LineOrder
<1>6. Chain(Got, HandledLines', TaskLines', RawLines, typed)
  <2>1. CASE Head(tasks).tag = "CONSOLE"
    <3>1. 1 \in ConsoleTasks
      BY <1>2, <2>1 DEF ConsoleTasks
    <3>2. x \in TaskLines
      BY <1>2, <3>1 DEF TaskLines
    <3>3. Before({x}, TaskLines')
      <4>1. \A i \in ConsoleTasks' : x < tasks'[i].msg.line
        <5> TAKE i \in ConsoleTasks'
        <5>1. 1 < i + 1
          BY <1>2, <1>4
        <5> QED
          BY <1>2, <1>4, <3>1, <5>1 DEF LineOrder
      <4> QED
        BY <4>1 DEF Before, TaskLines
    <3>4. HandledLines' \in SUBSET {x}
      BY <1>1 DEF HandledLines
    <3> HIDE DEF x
    <3> QED
      BY <1>4, <3>2, <3>3, <3>4, ChainTaken, LinesTyped DEF LineOrder
  <2>2. CASE Head(tasks).tag # "CONSOLE"
    <3>1. HandledLines' = {}
      BY <1>1, <2>2 DEF HandledLines
    <3> QED
      BY <1>4, <3>1, ChainShrinks DEF LineOrder
  <2> QED
    BY <2>1, <2>2
<1>7. LinesInOrder' /\ \A s \in Sockets : s > opened' => received'[s] = <<>>
  BY <1>1 DEF LinesInOrder, LineOrder
<1> QED
  BY <1>1, <1>3, <1>5, <1>6, <1>7 DEF LineOrder

\* The line that is handled reaches the server on the newest connection, after
\* everything the server has got before.
LEMMA SendStep ==
    ASSUME TypeOK, LineOrder, LinesInOrder, send_input_to_server
    PROVE  LineOrder' /\ LinesInOrder'
<1> DEFINE l == wrk.msg.line
           n == Len(received[sock])
<1>1. /\ UNCHANGED <<console_raw_tasks, tasks, typed, opened>>
      /\ HandledLines' = {}
  BY IdleTyped DEF send_input_to_server, Done, input, HandledLines, Console
<1>2. sock \in Sockets /\ sock = opened /\ l \in Nat /\ wrk.pc = "handle"
  BY MessageTyped DEF send_input_to_server, Broadcasting, TypeOK, Sockets, NoSocket
<1>3. CASE eof[sock]
  <2>1. received' = received
    BY <1>3 DEF send_input_to_server
  <2> QED
    BY <1>1, <2>1, QuietStep
<1>4. CASE ~eof[sock]
  <2>1. received' = [received EXCEPT ![sock] = Append(received[sock], l)]
    BY <1>4 DEF send_input_to_server
  <2>2. received \in [Sockets -> Seq(Nat)] /\ received[sock] \in Seq(Nat)
    BY <1>2 DEF TypeOK
  <2>3. /\ n \in Nat /\ DOMAIN received[sock] = 1 .. n
        /\ DOMAIN received'[sock] = 1 .. n + 1
        /\ received'[sock][n + 1] = l
        /\ \A i \in 1 .. n : received'[sock][i] = received[sock][i]
    BY <1>2, <2>1, <2>2, AppendFacts
  <2>4. \A s \in Sockets : s # sock => received'[s] = received[s]
    BY <1>2, <2>1, <2>2
  <2> HIDE DEF l, n
  <2>5. l # 0 => l \in HandledLines
    BY <1>2 DEF HandledLines, Console, l
  <2>6. \A s \in Sockets : \A i \in DOMAIN received'[s] :
            \/ s = sock /\ i = n + 1 /\ received'[s][i] = l
            \/ i \in DOMAIN received[s] /\ received'[s][i] = received[s][i]
    BY <2>3, <2>4
  <2>7. Got' \in SUBSET (Got \cup HandledLines)
    <3>1. SUFFICES ASSUME NEW k \in Nat \ {0}, NEW s \in Sockets,
                          NEW i \in DOMAIN received'[s], received'[s][i] = k
                   PROVE  k \in Got \cup HandledLines
      BY DEF Got
    <3> QED
      BY <2>5, <2>6, <3>1 DEF Got
  <2>8. Chain(Got', {}, TaskLines, RawLines, typed)
    BY <2>7, ChainSent, LinesTyped DEF LineOrder
  <2>9. RawLines' = RawLines /\ TaskLines' = TaskLines /\ ConsoleTasks' = ConsoleTasks
    BY <1>1 DEF RawLines, TaskLines, ConsoleTasks
  <2>10. \A s \in Sockets : s > opened => received'[s] = <<>>
    BY <1>2, <2>4 DEF LineOrder, Sockets
  <2>11. LinesInOrder'
    <3> SUFFICES ASSUME NEW s \in Sockets, NEW r \in Sockets,
                        NEW i \in DOMAIN received'[s], NEW j \in DOMAIN received'[r],
                        s < r \/ (s = r /\ i < j),
                        received'[s][i] # 0, received'[r][j] # 0
                 PROVE  received'[s][i] < received'[r][j]
      BY DEF LinesInOrder
    <3>1. CASE i \in DOMAIN received[s] /\ received'[s][i] = received[s][i]
      <4>1. CASE j \in DOMAIN received[r] /\ received'[r][j] = received[r][j]
        BY <3>1, <4>1 DEF LinesInOrder
      <4>2. CASE received'[r][j] = l
        <5>1. received[s][i] \in Got
          <6>1. received[s][i] \in Nat \ {0}
            BY <2>2, <3>1, Element
          <6> QED
            BY <3>1, <6>1 DEF Got
        <5>2. l \in HandledLines
          BY <2>5, <4>2
        <5> QED
          BY <3>1, <4>2, <5>1, <5>2 DEF LineOrder, Chain, Before
      <4> QED
        BY <2>6, <4>1, <4>2
    <3>2. CASE s = sock /\ i = n + 1
      <4>1. CASE s < r
        <5>1. r # sock /\ r > opened
          BY <1>2, <3>2, <4>1 DEF Sockets
        <5>2. received[r] = <<>> /\ received'[r] = received[r]
          BY <2>4, <5>1 DEF LineOrder
        <5> QED
          BY <5>2
      <4>2. CASE s = r /\ i < j
        BY <2>3, <3>2, <4>2
      <4> QED
        BY <4>1, <4>2
    <3> QED
      BY <2>6, <3>1, <3>2
  <2> QED
    BY <1>1, <2>8, <2>9, <2>10, <2>11 DEF LineOrder
<1> QED
  BY <1>3, <1>4

\* Every action keeps the lines in order.
LEMMA LinesStep ==
    ASSUME TypeOK, Starting, Numbered, LineOrder, LinesInOrder, Next
    PROVE  LineOrder' /\ LinesInOrder'
<1> DEFINE still == UNCHANGED <<console_raw_tasks, tasks, typed, received>>
<1> USE DEF vars, input, events, loop, slot, peer, history
<1>1. CASE init \/ init_fails
  <2>1. still /\ wrk' = wrk /\ opened' \in {opened, opened + 1}
    BY <1>1 DEF init, init_fails, run, init_network, setup_client
  <2> QED
    BY <2>1, QuietStep, NotHandling
<1>2. CASE Server
  <2>1. still /\ wrk' = wrk /\ opened' = opened
    BY <1>2 DEF Server, server_close, server_send
  <2> QED
    BY <2>1, QuietStep, NotHandling
<1>3. CASE ConsoleThread
  <2>1. CASE console_tag \/ console_laps
    <3>1. still /\ wrk' = wrk /\ opened' = opened
      BY <2>1 DEF console_tag, console_laps
    <3> QED
      BY <3>1, QuietStep, NotHandling
  <2> QED
    BY <1>3, <2>1, ReadStep DEF ConsoleThread
<1>4. CASE NetworkThread
  <2>1. still /\ wrk' = wrk /\ opened' = opened
    BY <1>4 DEF NetworkThread, network_event, network_tag, network_laps
  <2> QED
    BY <2>1, QuietStep, NotHandling
<1>5. CASE CoroutineLoop
  <2>1. CASE coroutine_loop
    <3>1. still /\ wrk' = wrk /\ opened' = opened
      BY <2>1 DEF coroutine_loop
    <3> QED
      BY <3>1, QuietStep, NotHandling
  <2>2. CASE resume_nothing
    <3>1. still /\ wrk'.pc = "off" /\ opened' = opened
      BY <2>2 DEF resume_nothing, Exit, TypeOK
    <3> QED
      BY <3>1, QuietStep, NotHandling
  <2>3. CASE console_co
    <3>1. CASE console_raw_tasks = <<>>
      <4>1. still /\ wrk' = wrk /\ opened' = opened
        BY <2>3, <3>1 DEF console_co
      <4> QED
        BY <4>1, QuietStep, NotHandling
    <3> QED
      BY <2>3, <3>1, PromoteStep
  <2> QED
    BY <1>5, <2>1, <2>2, <2>3, NetworkTaskStep DEF CoroutineLoop
<1>6. CASE Worker
  <2>1. CASE check_alive \/ receive_disconnected \/ receive_would_block
    <3>1. still /\ wrk'.pc # "handle" /\ opened' = opened
      BY <2>1, IdleTyped DEF check_alive, receive_disconnected, receive_would_block, TypeOK
    <3> QED
      BY <3>1, QuietStep, NotHandling
  <2>2. CASE receive_message
    <3>1. sock \in Sockets /\ inbox[sock] # <<>>
      BY <2>2 DEF receive_message, Numbered, TypeOK, Sockets, NoSocket
    <3>2. Head(inbox[sock]).line = 0
      <4>1. inbox[sock] \in Seq(Message)
        BY <3>1 DEF TypeOK
      <4>2. Head(inbox[sock]) = inbox[sock][1] /\ 1 \in DOMAIN inbox[sock]
        BY <3>1, <4>1, TailFacts
      <4> QED
        BY <3>1, <4>2 DEF Numbered
    <3>3. still /\ wrk'.msg.line = 0 /\ opened' = opened
      BY <2>2, <3>2 DEF receive_message
    <3> QED
      BY <3>3, QuietStep, NotHandling
  <2>3. CASE handle_action
    <3>1. still /\ wrk'.pc # "handle" /\ opened' = opened
      BY <2>3, IdleTyped DEF handle_action, Done
    <3> QED
      BY <3>1, QuietStep, NotHandling
  <2>4. CASE reconnect
    <3>1. still /\ wrk'.pc # "handle" /\ opened' = opened + 1
      BY <2>4, IdleTyped DEF reconnect, reset_base_connection, setup_client, Done
    <3> QED
      BY <3>1, QuietStep, NotHandling
  <2>5. CASE terminate
    <3>1. still /\ wrk'.pc = "off" /\ opened' = opened
      BY <2>5 DEF terminate, Exit, TypeOK
    <3> QED
      BY <3>1, QuietStep, NotHandling
  <2> QED
    BY <1>6, <2>1, <2>2, <2>3, <2>4, <2>5, TakeStep, SendStep DEF Worker
<1> QED
  BY <1>1, <1>2, <1>3, <1>4, <1>5, <1>6 DEF Next

-----------------------------------------------------------------------------
(* The theorems                                                            *)

\* The client starts with nothing anywhere.
LEMMA InitIInv == Init => IInv
<1> SUFFICES ASSUME Init
             PROVE  IInv
  OBVIOUS
<1> USE DEF Init
<1>1. TypeOK
  BY IdleTyped, ClientAssumption DEF TypeOK, NoSocket, Sockets
<1>2. Starting
  BY DEF Starting
<1>3. EveryEntryTagged
  BY TagCounts DEF EveryEntryTagged, One, TypeOK
<1>4. Numbered
  BY IdleTyped DEF Numbered, Console
<1>5. ArmedIdle
  <2>1. NetworkTasks = 0
    <3>1. {i \in DOMAIN tasks : tasks[i].tag = "NETWORK"} = {}
      OBVIOUS
    <3> QED
      BY <3>1, FS_EmptySet DEF NetworkTasks, Count
  <2>2. Serving = 0
    BY IdleTyped DEF Serving, One
  <2> QED
    BY <2>1, <2>2, ClientAssumption DEF ArmedIdle, InFlight, Sockets
<1>6. RawLines = {} /\ TaskLines = {} /\ HandledLines = {} /\ Got = {} /\ ConsoleTasks = {}
  BY IdleTyped DEF RawLines, TaskLines, ConsoleTasks, HandledLines, Got
<1>7. LineOrder
  BY <1>6 DEF LineOrder, Chain, Before
<1>8. LinesInOrder
  BY DEF LinesInOrder
<1> QED
  BY <1>1, <1>2, <1>3, <1>4, <1>5, <1>7, <1>8 DEF IInv

\* Nothing in the invariant depends on anything but the variables.
LEMMA StutterIInv == IInv /\ UNCHANGED vars => IInv'
<1> SUFFICES ASSUME IInv, UNCHANGED vars
             PROVE  IInv'
  OBVIOUS
<1> USE DEF vars, input, events, loop, slot, peer, history
<1>1. TypeOK' /\ Starting' /\ Numbered'
  BY DEF IInv, TypeOK, Starting, Numbered, Console
<1>2. EveryEntryTagged'
  <2>1. CountTags("CONSOLE")' = CountTags("CONSOLE") /\ CountTags("NETWORK")' = CountTags("NETWORK")
    BY TagPlaces
  <2> QED
    BY <2>1 DEF IInv, EveryEntryTagged, Exited, AllQueued
<1>3. ArmedIdle'
  <2>1. NetworkTasks' = NetworkTasks
    BY <1>1, TaskCounts DEF IInv, TypeOK
  <2>2. Serving' = Serving
    BY DEF Serving, Console
  <2>3. InFlight' = InFlight
    BY <2>1, <2>2 DEF InFlight
  <2> QED
    BY <2>3 DEF IInv, ArmedIdle
<1>4. LineOrder' /\ LinesInOrder'
  <2>1. HandledLines' = HandledLines
    BY DEF HandledLines, Console
  <2> QED
    BY <2>1, QuietStep DEF IInv
<1> QED
  BY <1>1, <1>2, <1>3, <1>4 DEF IInv

\* IInv is inductive.
LEMMA StepIInv == IInv /\ [Next]_vars => IInv'
<1>1. ASSUME IInv, Next
      PROVE  IInv'
  <2> USE <1>1 DEF IInv
  <2>1. TypeOK'
    BY TypeStep
  <2>2. Starting'
    BY StartingStep
  <2>3. EveryEntryTagged'
    BY TaggedStep
  <2>4. Numbered'
    BY NumberedStep
  <2>5. ArmedIdle'
    BY <2>1, ArmedStep
  <2>6. LineOrder' /\ LinesInOrder'
    BY LinesStep
  <2> QED
    BY <2>1, <2>2, <2>3, <2>4, <2>5, <2>6
<1> QED
  BY <1>1, StutterIInv

\* IInv holds in every state the client reaches.
LEMMA AlwaysIInv == Spec => []IInv
BY InitIInv, StepIInv, PTL DEF Spec

\* Until a push is refused or laps its ring there is a tag for every raw entry: the reader
\* threads, the ring of tags and the coroutines of main never lose track of
\* each other (console_routine.cpp:16-17, network_routine.cpp:342-343).
THEOREM NoEntryStranded == Spec => []EveryEntryTagged
<1>1. IInv => EveryEntryTagged
  BY DEF IInv
<1> QED
  BY <1>1, AlwaysIInv, PTL

\* Slot 0 is on its way to the worker, or in its hands, at most once, however
\* often the connection is replaced (socket_routine.cpp:389).
THEOREM OneServant == Spec => []SlotServedOnce
<1>1. IInv => SlotServedOnce
  BY DEF IInv, ArmedIdle, InFlight, NetworkTasks, Serving, SlotServedOnce
<1> QED
  BY <1>1, AlwaysIInv, PTL

\* The server gets the lines in the order in which they were typed and none of
\* them twice, reconnections included (client.cpp:88-118).
THEOREM LinesArriveInOrder == Spec => []LinesInOrder
<1>1. IInv => LinesInOrder
  BY DEF IInv
<1> QED
  BY <1>1, AlwaysIInv, PTL

=============================================================================
