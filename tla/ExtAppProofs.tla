---------------------------- MODULE ExtAppProofs ----------------------------
(***************************************************************************)
(* Proofs about the processes of apps, for any apps and any number of      *)
(* processes and messages: what the runtime keeps of a process agrees with *)
(* the process, and every start is answered, whatever of the start, the    *)
(* messages, the end of the process and the time-outs comes first.         *)
(*                                                                         *)
(* The state of one app does not depend on another's, so the invariant is  *)
(* one of each app (Kept), built up from what is on its way and what the   *)
(* bridge, the descriptor and the scheduler have of it.                    *)
(***************************************************************************)
EXTENDS ExtApp, SequenceTheorems, TLAPS

-----------------------------------------------------------------------------
(* What is on its way *)

Messages(V) == {V[n] : n \in DOMAIN V}
Once(V) == \A n, m \in DOMAIN V : V[n] = V[m] => n = m
SubscribesFirst(V) ==
    \A n, m \in DOMAIN V : V[n] = "subscribe" /\ V[m] = "ready" => n < m

-----------------------------------------------------------------------------
(* A process and what the runtime has of it *)

\* Nothing is under way twice.
ChannelTyped(p) == p \in Process /\ Once(p.toVuid) /\ Once(p.toApp)

\* The start: its timer runs while it is waited for, and it is settled once.
StartKept(p) ==
    /\ p.child = "none" => p = Unborn
    /\ p.child # "none" => p.settled = IF p.waits THEN 0 ELSE 1
    /\ p.startTimer # Off => p.waits
    /\ p.waits => /\ p.startTimer # Off /\ p.outcome = "pending"
                  /\ ~p.killed /\ ~p.dying /\ ~p.exited
    /\ p.child # "none" /\ ~p.killed => p.receives
    /\ p.exited => p.child = "dead"
    /\ p.outcome = "ready" => p.child \in {"up", "dead"}

\* How far the process is says what can be under way.
BeforeLaunch(p) ==
    /\ p.child = "loading" => p.toVuid = <<>> /\ p.toApp = <<>> /\ p.pingTimer = Off
    /\ p.child = "asking" =>
          /\ Messages(p.toVuid) \subseteq {"initiating", "ping"}
          /\ Messages(p.toApp) \subseteq {"descriptor"}
          /\ "initiating" \in Messages(p.toVuid) => p.toApp = <<>>
    /\ p.child \in {"loading", "asking"} => ~p.listens
    /\ p.child \in {"loading", "asking", "broken"} => p.call = "none" /\ p.heard = 0
    /\ p.child = "broken" => Messages(p.toVuid) \subseteq {"ping", "error"}
    /\ p.child \in {"broken", "dead"} => p.toApp = <<>>
    /\ p.child = "dead" => Len(p.toVuid) <= 4

Launch(p) ==
    /\ p.heard <= 1
    /\ p.child = "up" =>
          /\ Messages(p.toVuid) \subseteq {"subscribe", "ready", "ping", "invoke"}
          /\ Messages(p.toApp) \subseteq {"create", "promise"}
          /\ ~p.listens => "subscribe" \notin Messages(p.toVuid)
          /\ p.call # "asked" => "invoke" \notin Messages(p.toVuid)
          /\ p.call # "answered" => "promise" \notin Messages(p.toApp)
          /\ p.early => p.listens
          /\ SubscribesFirst(p.toVuid) \/ ~p.early
          /\ p.outcome = "ready" => "ready" \notin Messages(p.toVuid)
          /\ p.outcome # "ready" => p.heard = 0 /\ "create" \notin Messages(p.toApp)
          /\ "create" \in Messages(p.toApp) => p.heard = 0
          /\ "ready" \in Messages(p.toVuid) /\ p.early
                => p.killed \/ p.subscribed \/ "subscribe" \in Messages(p.toVuid)
          /\ p.outcome = "ready" /\ p.early
                => p.killed \/ p.heard = 1 \/ "create" \in Messages(p.toApp)

\* Who never hung has a ping on its way when the first interval has passed; no
\* process is found to hang before its start is given up.
PingsArrive(p) ==
    /\ Alive(p) /\ ~p.killed /\ p.hangs = "never" /\ p.pingTimer # Off
          => \/ p.pingTimer = FifteenSeconds
             \/ p.pingTimer = 3 /\ "ping" \in Messages(p.toVuid)
    /\ p.waits => /\ p.pingTimer # Off => p.startTimer < p.pingTimer
                  /\ "ping" \in Messages(p.toVuid) => p.startTimer < FifteenSeconds

Kept(p) ==
    ChannelTyped(p) /\ StartKept(p) /\ BeforeLaunch(p) /\ Launch(p) /\ PingsArrive(p)

\* Whoever is not left to die, is not being started and has not failed.
Disowned(p) == Alive(p) /\ ~p.waits /\ p.child # "broken" /\ ~p.killed /\ ~p.dying

SchedulerKept(P, s) ==
    /\ s \in [status : {"exited", "creating", "running", "destructing"}, app : 0 .. MaxForks]
    /\ s.status \in {"exited", "creating"} => s.app = 0
    /\ s.status \in {"running", "destructing"} => s.app \in Forks /\ P[s.app].child # "none"
    /\ \A i \in Forks : P[i].waits => s.status = "creating"
    /\ \A i, j \in Forks : P[i].waits /\ P[j].waits => i = j
    /\ \A i \in Forks : Disowned(P[i]) => s.app = i

ExtAppIInv ==
    /\ procs \in [Forks -> Process]
    /\ \A i \in Forks : Kept(procs[i])
    /\ SchedulerKept(procs, scheduler)

-----------------------------------------------------------------------------
(* Lists of messages *)

LEMMA AppendMessage ==
    ASSUME NEW S, NEW V \in Seq(S), NEW m \in S, Once(V), m \notin Messages(V)
    PROVE  /\ Append(V, m) \in Seq(S) /\ Once(Append(V, m))
           /\ Messages(Append(V, m)) = Messages(V) \cup {m}
           /\ SubscribesFirst(V) /\ (m = "subscribe" => "ready" \notin Messages(V))
                 => SubscribesFirst(Append(V, m))
<1> DEFINE W == Append(V, m)
<1>1. W \in Seq(S) /\ Len(W) = Len(V) + 1 /\ DOMAIN V = 1 .. Len(V) /\ Len(V) \in Nat
  OBVIOUS
<1>2. DOMAIN W = DOMAIN V \cup {Len(V) + 1} /\ Len(V) + 1 \notin DOMAIN V
  BY <1>1
<1>3. W[Len(V) + 1] = m /\ \A n \in DOMAIN V : W[n] = V[n]
  BY <1>1
<1>4. Messages(W) = Messages(V) \cup {m}
  BY <1>2, <1>3 DEF Messages
<1>5. Once(W)
  BY <1>2, <1>3 DEF Messages, Once
<1>6. ASSUME SubscribesFirst(V), m = "subscribe" => "ready" \notin Messages(V)
      PROVE  SubscribesFirst(W)
  <2> SUFFICES ASSUME NEW n \in DOMAIN W, NEW k \in DOMAIN W, W[n] = "subscribe", W[k] = "ready"
               PROVE  n < k
    BY DEF SubscribesFirst
  <2>1. CASE n \in DOMAIN V /\ k \in DOMAIN V
    BY <1>3, <1>6, <2>1 DEF SubscribesFirst
  <2>2. CASE n \in DOMAIN V /\ k = Len(V) + 1
    BY <1>1, <2>2
  <2>3. CASE n = Len(V) + 1
    <3>1. m = "subscribe" /\ k \in DOMAIN V
      BY <1>2, <1>3, <2>3
    <3>2. V[k] = "ready"
      BY <1>3, <3>1
    <3> QED
      BY <1>6, <3>1, <3>2 DEF Messages
  <2> QED
    BY <1>2, <2>1, <2>2, <2>3
<1> QED
  BY <1>1, <1>4, <1>5, <1>6

LEMMA TailMessage ==
    ASSUME NEW S, NEW V \in Seq(S), V # <<>>, Once(V)
    PROVE  /\ Tail(V) \in Seq(S) /\ Once(Tail(V)) /\ Len(Tail(V)) = Len(V) - 1
           /\ Head(V) \in Messages(V) /\ Head(V) \in S
           /\ Messages(Tail(V)) = Messages(V) \ {Head(V)}
           /\ SubscribesFirst(V) => /\ SubscribesFirst(Tail(V))
                                    /\ Head(V) = "ready" => "subscribe" \notin Messages(V)
<1> DEFINE W == Tail(V)
<1>1. /\ W \in Seq(S) /\ Len(W) = Len(V) - 1 /\ DOMAIN V = 1 .. Len(V) /\ Len(V) \in Nat \ {0}
      /\ DOMAIN W = 1 .. Len(V) - 1
  OBVIOUS
<1>2. Head(V) = V[1] /\ 1 \in DOMAIN V /\ V[1] \in S
  BY <1>1
<1>3. \A n \in DOMAIN W : n + 1 \in DOMAIN V /\ n + 1 # 1 /\ W[n] = V[n + 1]
  BY <1>1
<1>4. \A n \in DOMAIN V \ {1} : n - 1 \in DOMAIN W /\ W[n - 1] = V[n]
  <2> TAKE n \in DOMAIN V \ {1}
  <2>1. n - 1 \in DOMAIN W /\ (n - 1) + 1 = n
    BY <1>1
  <2> QED
    BY <1>3, <2>1
<1>5. Messages(W) = Messages(V) \ {V[1]}
  <2>1. ASSUME NEW n \in DOMAIN W PROVE W[n] \in Messages(V) \ {V[1]}
    BY <1>2, <1>3 DEF Messages, Once
  <2>2. ASSUME NEW n \in DOMAIN V, V[n] # V[1] PROVE V[n] \in Messages(W)
    <3>1. n \in DOMAIN V \ {1}
      BY <2>2
    <3> QED
      BY <1>4, <3>1 DEF Messages
  <2> QED
    BY <2>1, <2>2 DEF Messages
<1>6. Once(W)
  <2> SUFFICES ASSUME NEW n \in DOMAIN W, NEW k \in DOMAIN W, W[n] = W[k] PROVE n = k
    BY DEF Once
  <2>1. n + 1 = k + 1
    BY <1>3 DEF Once
  <2> QED
    BY <1>1, <2>1
<1>7. SubscribesFirst(V) => SubscribesFirst(W)
  <2> SUFFICES ASSUME SubscribesFirst(V), NEW n \in DOMAIN W, NEW k \in DOMAIN W,
                      W[n] = "subscribe", W[k] = "ready"
               PROVE  n < k
    BY DEF SubscribesFirst
  <2>1. n + 1 < k + 1
    BY <1>3 DEF SubscribesFirst
  <2> QED
    BY <1>1, <2>1
<1>8. SubscribesFirst(V) /\ V[1] = "ready" => "subscribe" \notin Messages(V)
  <2> SUFFICES ASSUME SubscribesFirst(V), V[1] = "ready", NEW n \in DOMAIN V, V[n] = "subscribe"
               PROVE  FALSE
    BY DEF Messages
  <2>1. n < 1
    BY <1>2 DEF SubscribesFirst
  <2> QED
    BY <1>1, <2>1
<1> HIDE DEF W
<1>9. V[1] \in Messages(V)
  BY <1>2 DEF Messages
<1> QED
  BY <1>1, <1>2, <1>5, <1>6, <1>7, <1>8, <1>9 DEF W

\* As many messages as there are kinds.
LEMMA FewMessages ==
    ASSUME NEW S, NEW V \in Seq(S), Once(V)
    PROVE  /\ Messages(V) \subseteq {"initiating", "ping"} => Len(V) <= 4
           /\ Messages(V) \subseteq {"ping", "error"} => Len(V) <= 4
           /\ Messages(V) \subseteq {"subscribe", "ready", "ping", "invoke"} => Len(V) <= 4
           /\ Messages(V) \subseteq {"descriptor"} => Len(V) <= 2
           /\ Messages(V) \subseteq {"create", "promise"} => Len(V) <= 2
<1>1. Len(V) \in Nat /\ DOMAIN V = 1 .. Len(V) /\ \A n \in DOMAIN V : V[n] \in Messages(V)
  BY DEF Messages
<1>2. \A n, k \in DOMAIN V : V[n] = V[k] => n = k
  BY DEF Once
<1>3. ASSUME NEW a, NEW b, NEW c, NEW d, Messages(V) \subseteq {a, b, c, d} PROVE Len(V) <= 4
  <2> SUFFICES ASSUME Len(V) > 4 PROVE FALSE
    BY <1>1
  <2>1. 1 \in DOMAIN V /\ 2 \in DOMAIN V /\ 3 \in DOMAIN V /\ 4 \in DOMAIN V /\ 5 \in DOMAIN V
    BY <1>1
  <2>2. /\ V[1] # V[2] /\ V[1] # V[3] /\ V[1] # V[4] /\ V[1] # V[5] /\ V[2] # V[3]
        /\ V[2] # V[4] /\ V[2] # V[5] /\ V[3] # V[4] /\ V[3] # V[5] /\ V[4] # V[5]
    BY <1>2, <2>1
  <2>3. \A n \in DOMAIN V : V[n] = a \/ V[n] = b \/ V[n] = c \/ V[n] = d
    BY <1>1, <1>3
  <2> QED
    BY <2>1, <2>2, <2>3
<1>4. ASSUME NEW a, NEW b, Messages(V) \subseteq {a, b} PROVE Len(V) <= 2
  <2> SUFFICES ASSUME Len(V) > 2 PROVE FALSE
    BY <1>1
  <2>1. 1 \in DOMAIN V /\ 2 \in DOMAIN V /\ 3 \in DOMAIN V
    BY <1>1
  <2>2. V[1] # V[2] /\ V[1] # V[3] /\ V[2] # V[3]
    BY <1>2, <2>1
  <2>3. \A n \in DOMAIN V : V[n] = a \/ V[n] = b
    BY <1>1, <1>4
  <2> QED
    BY <2>1, <2>2, <2>3
<1>5. Messages(V) \subseteq {"initiating", "ping"} => Len(V) <= 4
  <2>1. Messages(V) \subseteq {"initiating", "ping"} => Len(V) <= 2
    BY <1>4
  <2> QED
    BY <1>1, <2>1
<1>6. Messages(V) \subseteq {"ping", "error"} => Len(V) <= 4
  <2>1. Messages(V) \subseteq {"ping", "error"} => Len(V) <= 2
    BY <1>4
  <2> QED
    BY <1>1, <2>1
<1>7. Messages(V) \subseteq {"descriptor"} => Len(V) <= 2
  <2>1. Messages(V) \subseteq {"descriptor"} => Messages(V) \subseteq {"descriptor", "create"}
    OBVIOUS
  <2> QED
    BY <1>4, <2>1
<1>8. Messages(V) \subseteq {"create", "promise"} => Len(V) <= 2
  BY <1>4
<1>9. Messages(V) \subseteq {"subscribe", "ready", "ping", "invoke"} => Len(V) <= 4
  BY <1>3
<1> QED
  BY <1>5, <1>6, <1>7, <1>8, <1>9

LEMMA NoMessage == Messages(<<>>) = {} /\ Once(<<>>) /\ SubscribesFirst(<<>>)
BY DEF Messages, Once, SubscribesFirst

LEMMA EmptyMessages == ASSUME NEW S, NEW V \in Seq(S), Messages(V) = {} PROVE V = <<>>
<1>1. DOMAIN V = {}
  BY DEF Messages
<1>2. DOMAIN V = 1 .. Len(V) /\ Len(V) \in Nat
  OBVIOUS
<1>3. Len(V) = 0
  BY <1>1, <1>2
<1> QED
  BY <1>3

LEMMA ReportsOne ==
    ASSUME NEW S, NEW V \in Seq(S), NEW m \in S
    PROVE  V \o <<m>> = Append(V, m)
BY AppendIsConcat

LEMMA ReportsTwo ==
    ASSUME NEW S, NEW V \in Seq(S), NEW m \in S, NEW k \in S
    PROVE  V \o <<m, k>> = Append(Append(V, m), k)
OBVIOUS

-----------------------------------------------------------------------------
(* What each operation leaves of a process *)

LEMMA KeptGives ==
    ASSUME NEW p, Kept(p)
    PROVE  /\ p \in Process /\ p.toVuid \in Seq(ToVuid) /\ p.toApp \in Seq(ToApp)
           /\ Once(p.toVuid) /\ Once(p.toApp)
           /\ Len(p.toVuid) <= 4 /\ Len(p.toApp) <= 2
           /\ p.settled <= 1 /\ p.heard <= 1
<1>1. /\ p \in Process /\ p.toVuid \in Seq(ToVuid) /\ p.toApp \in Seq(ToApp)
      /\ Once(p.toVuid) /\ Once(p.toApp)
  BY DEF Kept, ChannelTyped, Process
<1>2. Len(<<>>) = 0
  OBVIOUS
<1>3. Len(p.toVuid) <= 4 /\ Len(p.toApp) <= 2
  <2>1. CASE p.child \in {"none", "loading"}
    BY <1>2, <2>1 DEF Kept, StartKept, BeforeLaunch, Unborn
  <2>2. CASE p.child = "asking"
    BY <1>1, <2>2, FewMessages DEF Kept, BeforeLaunch
  <2>3. CASE p.child = "up"
    BY <1>1, <2>3, FewMessages DEF Kept, Launch
  <2>4. CASE p.child = "broken"
    BY <1>1, <1>2, <2>4, FewMessages DEF Kept, BeforeLaunch
  <2>5. CASE p.child = "dead"
    BY <1>2, <2>5 DEF Kept, BeforeLaunch
  <2> QED
    BY <1>1, <2>1, <2>2, <2>3, <2>4, <2>5 DEF Process
<1>4. p.settled <= 1
  BY <1>1 DEF Kept, StartKept, Unborn
<1> QED
  BY <1>1, <1>3, <1>4 DEF Kept, Launch

LEMMA HangKept ==
    ASSUME NEW p, Kept(p), Alive(p), NEW h \in {"now", "over"}
    PROVE  LET q == [p EXCEPT !.hangs = h]
           IN  Kept(q) /\ q.waits = p.waits /\ q.child = p.child /\ (Disowned(q) => Disowned(p))
<1> DEFINE q == [p EXCEPT !.hangs = h]
<1>1. q \in Process
  BY KeptGives DEF Process
<1>2. ChannelTyped(q) /\ StartKept(q)
  BY <1>1, KeptGives DEF Kept, ChannelTyped, StartKept, Process, Alive
<1>3. BeforeLaunch(q) /\ Launch(q)
  BY KeptGives DEF Kept, BeforeLaunch, Launch, Process
<1>4. PingsArrive(q)
  BY KeptGives DEF Kept, PingsArrive, Process
<1> QED
  BY <1>2, <1>3, <1>4, KeptGives DEF Kept, Disowned, Alive, Process

LEMMA LoadKept ==
    ASSUME NEW p, Kept(p), p.child = "loading"
    PROVE  LET q == Reports([p EXCEPT !.child = "asking"], <<"initiating">>)
           IN  Kept(q) /\ q.waits = p.waits /\ q.child = "asking" /\ (Disowned(q) => Disowned(p))
<1> DEFINE q == Reports([p EXCEPT !.child = "asking"], <<"initiating">>)
           V == Append(<<>>, "initiating")
<1>1. /\ p \in Process /\ p.toVuid = <<>> /\ p.toApp = <<>> /\ p.pingTimer = Off
      /\ ~p.listens /\ p.call = "none" /\ p.heard = 0
  BY KeptGives DEF Kept, BeforeLaunch
<1>2. /\ q = [p EXCEPT !.child = "asking", !.toVuid = V]
      /\ V \in Seq(ToVuid) /\ Once(V) /\ Messages(V) = {"initiating"}
  <2>1. "initiating" \in ToVuid /\ <<>> \in Seq(ToVuid)
    BY DEF ToVuid
  <2>2. <<>> \o <<"initiating">> = V
    BY <2>1, ReportsOne
  <2>3. V \in Seq(ToVuid) /\ Once(V) /\ Messages(V) = {"initiating"}
    <3>1. "initiating" \notin Messages(<<>>) /\ Once(<<>>)
      BY NoMessage
    <3>2. /\ V \in Seq(ToVuid) /\ Once(V)
          /\ Messages(V) = Messages(<<>>) \cup {"initiating"}
      BY <2>1, <3>1, AppendMessage
    <3> QED
      BY <3>2, NoMessage
  <2> HIDE DEF V
  <2> QED
    BY <1>1, <2>2, <2>3 DEF Reports, Process
<1> HIDE DEF q, V
<1>3. q \in Process
  BY <1>1, <1>2 DEF Process
<1>4. ChannelTyped(q) /\ StartKept(q)
  BY <1>1, <1>2, <1>3, KeptGives DEF Kept, ChannelTyped, StartKept, Process
<1>5. BeforeLaunch(q) /\ Launch(q)
  BY <1>1, <1>2, NoMessage DEF BeforeLaunch, Launch, Process
<1>6. PingsArrive(q)
  BY <1>1, <1>2 DEF PingsArrive, Process
<1>7. Kept(q) /\ q.waits = p.waits /\ q.child = "asking" /\ (Disowned(q) => Disowned(p))
  BY <1>1, <1>2, <1>4, <1>5, <1>6 DEF Kept, Disowned, Alive, Process
<1> QED
  BY <1>7 DEF q

\* The descriptor has come: the app is launched, or fails.
LEMMA LaunchKept ==
    ASSUME NEW p, Kept(p), Works(p), p.toApp # <<>>, Head(p.toApp) = "descriptor"
    PROVE  LET r == [p EXCEPT !.toApp = Tail(@)]
               q == Launched(r)
           IN  Kept(q) /\ q.waits = p.waits /\ q.child = "up" /\ (Disowned(q) => Disowned(p))
<1> DEFINE r == [p EXCEPT !.toApp = Tail(@)]
           V == IF p.early THEN Append(Append(p.toVuid, "subscribe"), "ready")
                           ELSE Append(p.toVuid, "ready")
           q == Launched(r)
<1>1. /\ p \in Process /\ p.toVuid \in Seq(ToVuid) /\ p.toApp \in Seq(ToApp)
      /\ Once(p.toVuid) /\ Once(p.toApp)
  BY KeptGives
<1>2. /\ "descriptor" \in Messages(p.toApp) /\ Tail(p.toApp) \in Seq(ToApp)
      /\ Once(Tail(p.toApp)) /\ Messages(Tail(p.toApp)) = Messages(p.toApp) \ {"descriptor"}
  BY <1>1, TailMessage
<1>3. p.child = "asking"
  <2>1. p.child \notin {"none", "loading", "broken", "dead"}
    BY <1>1 DEF Kept, StartKept, BeforeLaunch, Unborn
  <2>2. p.child # "up"
    BY <1>2 DEF Kept, Launch
  <2> QED
    BY <1>1, <2>1, <2>2 DEF Process
<1>4. /\ Messages(p.toVuid) \subseteq {"ping"} /\ Messages(Tail(p.toApp)) = {}
      /\ p.call = "none" /\ p.heard = 0 /\ p.outcome # "ready"
  BY <1>2, <1>3 DEF Kept, BeforeLaunch, StartKept
<1>5. q = [p EXCEPT !.toApp = Tail(p.toApp), !.child = "up", !.listens = p.early, !.toVuid = V]
  <2>1. p.toVuid \o <<"ready">> = Append(p.toVuid, "ready")
    BY <1>1, ReportsOne DEF ToVuid
  <2>2. p.toVuid \o <<"subscribe", "ready">> = Append(Append(p.toVuid, "subscribe"), "ready")
    BY <1>1, ReportsTwo DEF ToVuid
  <2> QED
    BY <1>1, <2>1, <2>2 DEF Launched, Reports, Process
<1>6. /\ V \in Seq(ToVuid) /\ Once(V) /\ SubscribesFirst(V)
      /\ Messages(V) = Messages(p.toVuid) \cup (IF p.early THEN {"subscribe", "ready"} ELSE {"ready"})
  <2>1. SubscribesFirst(p.toVuid)
    BY <1>1, <1>4 DEF SubscribesFirst, Messages
  <2>2. CASE p.early
    <3> DEFINE U == Append(p.toVuid, "subscribe")
    <3>1. /\ U \in Seq(ToVuid) /\ Once(U) /\ SubscribesFirst(U)
          /\ Messages(U) = Messages(p.toVuid) \cup {"subscribe"}
      BY <1>1, <1>4, <2>1, AppendMessage DEF ToVuid
    <3>2. V = Append(U, "ready") /\ "ready" \notin Messages(U)
      BY <1>4, <2>2, <3>1
    <3> HIDE DEF U, V
    <3>3. /\ V \in Seq(ToVuid) /\ Once(V) /\ SubscribesFirst(V)
          /\ Messages(V) = Messages(U) \cup {"ready"}
      BY <3>1, <3>2, AppendMessage DEF ToVuid
    <3> QED
      BY <2>2, <3>1, <3>3
  <2>3. CASE ~p.early
    BY <1>1, <1>4, <2>1, <2>3, AppendMessage DEF ToVuid
  <2> QED
    BY <2>2, <2>3
<1> HIDE DEF q, V
<1>7. q \in Process
  BY <1>1, <1>2, <1>5, <1>6 DEF Process
<1>8. ChannelTyped(q) /\ StartKept(q)
  BY <1>1, <1>2, <1>3, <1>4, <1>5, <1>6, <1>7 DEF Kept, ChannelTyped, StartKept, Process
<1>9. BeforeLaunch(q)
  BY <1>1, <1>5 DEF BeforeLaunch, Process
<1>10. Launch(q)
  <2>1. /\ q.child = "up" /\ q.heard = 0 /\ q.outcome # "ready" /\ q.toVuid = V
        /\ q.toApp = Tail(p.toApp) /\ q.call = "none" /\ q.early = p.early /\ q.listens = p.early
    BY <1>1, <1>4, <1>5 DEF Process
  <2>2. p.early \in BOOLEAN
    BY <1>1 DEF Process
  <2> QED
    BY <1>4, <1>6, <2>1, <2>2 DEF Launch
<1>11. PingsArrive(q)
  BY <1>1, <1>3, <1>5, <1>6 DEF Kept, PingsArrive, Alive, Process
<1>12. Kept(q) /\ q.waits = p.waits /\ q.child = "up" /\ (Disowned(q) => Disowned(p))
  BY <1>1, <1>3, <1>5, <1>8, <1>9, <1>10, <1>11 DEF Kept, Disowned, Alive, Process
<1> QED
  BY <1>12 DEF q

LEMMA BrokenKept ==
    ASSUME NEW p, Kept(p), Works(p), p.toApp # <<>>, Head(p.toApp) = "descriptor"
    PROVE  LET r == [p EXCEPT !.toApp = Tail(@)]
               q == Reports([r EXCEPT !.child = "broken"], <<"error">>)
           IN  Kept(q) /\ q.waits = p.waits /\ q.child = "broken" /\ ~Disowned(q)
<1> DEFINE r == [p EXCEPT !.toApp = Tail(@)]
           V == Append(p.toVuid, "error")
           q == Reports([r EXCEPT !.child = "broken"], <<"error">>)
<1>1. /\ p \in Process /\ p.toVuid \in Seq(ToVuid) /\ p.toApp \in Seq(ToApp)
      /\ Once(p.toVuid) /\ Once(p.toApp)
  BY KeptGives
<1>2. /\ "descriptor" \in Messages(p.toApp) /\ Tail(p.toApp) \in Seq(ToApp)
      /\ Once(Tail(p.toApp)) /\ Messages(Tail(p.toApp)) = Messages(p.toApp) \ {"descriptor"}
  BY <1>1, TailMessage
<1>3. p.child = "asking"
  <2>1. p.child \notin {"none", "loading", "broken", "dead"}
    BY <1>1 DEF Kept, StartKept, BeforeLaunch, Unborn
  <2>2. p.child # "up"
    BY <1>2 DEF Kept, Launch
  <2> QED
    BY <1>1, <2>1, <2>2 DEF Process
<1>4. /\ Messages(p.toVuid) \subseteq {"ping"} /\ Tail(p.toApp) = <<>>
      /\ p.call = "none" /\ p.heard = 0 /\ p.outcome # "ready"
  <2>1. Messages(Tail(p.toApp)) = {}
    BY <1>2, <1>3 DEF Kept, BeforeLaunch
  <2>2. Tail(p.toApp) = <<>>
    BY <1>2, <2>1, EmptyMessages
  <2> QED
    BY <1>2, <1>3, <2>2 DEF Kept, BeforeLaunch, StartKept
<1>5. q = [p EXCEPT !.toApp = <<>>, !.child = "broken", !.toVuid = V]
  <2>1. p.toVuid \o <<"error">> = V
    BY <1>1, ReportsOne DEF ToVuid
  <2> QED
    BY <1>1, <1>4, <2>1 DEF Reports, Process
<1>6. /\ V \in Seq(ToVuid) /\ Once(V) /\ Messages(V) = Messages(p.toVuid) \cup {"error"}
  BY <1>1, <1>4, AppendMessage DEF ToVuid
<1> HIDE DEF q, V
<1>7. q \in Process
  <2>1. <<>> \in Seq(ToApp)
    OBVIOUS
  <2> QED
    BY <1>1, <1>5, <1>6, <2>1 DEF Process
<1>8. ChannelTyped(q) /\ StartKept(q)
  BY <1>1, <1>3, <1>4, <1>5, <1>6, <1>7, NoMessage DEF Kept, ChannelTyped, StartKept, Process
<1>9. BeforeLaunch(q) /\ Launch(q)
  BY <1>1, <1>4, <1>5, <1>6 DEF BeforeLaunch, Launch, Process
<1>10. PingsArrive(q)
  BY <1>1, <1>3, <1>5, <1>6 DEF Kept, PingsArrive, Alive, Process
<1>11. Kept(q) /\ q.waits = p.waits /\ q.child = "broken" /\ ~Disowned(q)
  BY <1>1, <1>5, <1>8, <1>9, <1>10 DEF Kept, Disowned, Process
<1> QED
  BY <1>11 DEF q

\* The runtime has told the app that it was created, or what a call returned.
LEMMA HearKept ==
    ASSUME NEW p, Kept(p), Works(p), p.toApp # <<>>, Head(p.toApp) = "create"
    PROVE  LET r == [p EXCEPT !.toApp = Tail(@)]
               q == [r EXCEPT !.heard = @ + 1]
           IN  Kept(q) /\ q.waits = p.waits /\ q.child = p.child /\ (Disowned(q) => Disowned(p))
<1> DEFINE r == [p EXCEPT !.toApp = Tail(@)]
           A == Tail(p.toApp)
           q == [r EXCEPT !.heard = @ + 1]
<1>1. /\ p \in Process /\ p.toApp \in Seq(ToApp) /\ Once(p.toVuid) /\ Once(p.toApp)
  BY KeptGives
<1>2. /\ "create" \in Messages(p.toApp) /\ A \in Seq(ToApp) /\ Once(A)
      /\ Messages(A) = Messages(p.toApp) \ {"create"}
  BY <1>1, TailMessage
<1>3. p.child = "up" /\ p.heard = 0 /\ p.outcome = "ready"
  <2>1. p.child \notin {"none", "loading", "broken", "dead"}
    BY <1>1 DEF Kept, StartKept, BeforeLaunch, Unborn
  <2>2. p.child # "asking"
    BY <1>2 DEF Kept, BeforeLaunch
  <2>3. p.child = "up"
    BY <1>1, <2>1, <2>2 DEF Process
  <2> QED
    BY <1>2, <2>3 DEF Kept, Launch
<1>4. q = [p EXCEPT !.toApp = A, !.heard = 1]
  <2>1. r.heard = 0
    BY <1>1, <1>3 DEF Process
  <2>2. q = [r EXCEPT !.heard = 1]
    <3> HIDE DEF r
    <3>1. r.heard + 1 = 1
      BY <2>1
    <3> QED
      BY <3>1
  <2> QED
    BY <1>1, <2>2 DEF Process
<1> HIDE DEF q, A
<1>5. q \in Process
  <2>1. 1 \in 0 .. 2
    OBVIOUS
  <2> QED
    BY <1>1, <1>2, <1>4, <2>1 DEF Process
<1>6. ChannelTyped(q) /\ StartKept(q)
  BY <1>1, <1>2, <1>3, <1>4, <1>5 DEF Kept, ChannelTyped, StartKept, Process
<1>7. BeforeLaunch(q) /\ Launch(q)
  BY <1>1, <1>2, <1>3, <1>4 DEF Kept, BeforeLaunch, Launch, Process
<1>8. PingsArrive(q)
  BY <1>1, <1>4 DEF Kept, PingsArrive, Alive, Process
<1>9. Kept(q) /\ q.waits = p.waits /\ q.child = p.child /\ (Disowned(q) => Disowned(p))
  BY <1>1, <1>4, <1>6, <1>7, <1>8 DEF Kept, Disowned, Alive, Process
<1> QED
  BY <1>9 DEF q

LEMMA ReturnKept ==
    ASSUME NEW p, Kept(p), Works(p), p.toApp # <<>>, Head(p.toApp) = "promise"
    PROVE  LET r == [p EXCEPT !.toApp = Tail(@)]
               q == [r EXCEPT !.call = "returned"]
           IN  Kept(q) /\ q.waits = p.waits /\ q.child = p.child /\ (Disowned(q) => Disowned(p))
<1> DEFINE r == [p EXCEPT !.toApp = Tail(@)]
           A == Tail(p.toApp)
           q == [r EXCEPT !.call = "returned"]
<1>1. /\ p \in Process /\ p.toApp \in Seq(ToApp) /\ Once(p.toVuid) /\ Once(p.toApp)
  BY KeptGives
<1>2. /\ "promise" \in Messages(p.toApp) /\ A \in Seq(ToApp) /\ Once(A)
      /\ Messages(A) = Messages(p.toApp) \ {"promise"}
  BY <1>1, TailMessage
<1>3. p.child = "up" /\ p.call = "answered"
  <2>1. p.child \notin {"none", "loading", "broken", "dead"}
    BY <1>1 DEF Kept, StartKept, BeforeLaunch, Unborn
  <2>2. p.child # "asking"
    BY <1>2 DEF Kept, BeforeLaunch
  <2>3. p.child = "up"
    BY <1>1, <2>1, <2>2 DEF Process
  <2> QED
    BY <1>2, <2>3 DEF Kept, Launch
<1>4. q = [p EXCEPT !.toApp = A, !.call = "returned"]
  BY <1>1 DEF Process
<1> HIDE DEF q, A
<1>5. q \in Process
  BY <1>1, <1>2, <1>4 DEF Process
<1>6. ChannelTyped(q) /\ StartKept(q)
  BY <1>1, <1>2, <1>3, <1>4, <1>5 DEF Kept, ChannelTyped, StartKept, Process
<1>7. BeforeLaunch(q) /\ Launch(q)
  BY <1>1, <1>2, <1>3, <1>4 DEF Kept, BeforeLaunch, Launch, Process
<1>8. PingsArrive(q)
  BY <1>1, <1>4 DEF Kept, PingsArrive, Alive, Process
<1>9. Kept(q) /\ q.waits = p.waits /\ q.child = p.child /\ (Disowned(q) => Disowned(p))
  BY <1>1, <1>4, <1>6, <1>7, <1>8 DEF Kept, Disowned, Alive, Process
<1> QED
  BY <1>9 DEF q

LEMMA ListenKept ==
    ASSUME NEW p, Kept(p), p.child = "up", ~p.listens
    PROVE  LET q == Reports([p EXCEPT !.listens = TRUE], <<"subscribe">>)
           IN  Kept(q) /\ q.waits = p.waits /\ q.child = p.child /\ (Disowned(q) => Disowned(p))
<1> DEFINE V == Append(p.toVuid, "subscribe")
           q == Reports([p EXCEPT !.listens = TRUE], <<"subscribe">>)
<1>1. /\ p \in Process /\ p.toVuid \in Seq(ToVuid) /\ Once(p.toVuid)
      /\ ~p.early /\ "subscribe" \notin Messages(p.toVuid)
  BY KeptGives DEF Kept, Launch
<1>2. /\ V \in Seq(ToVuid) /\ Once(V) /\ Messages(V) = Messages(p.toVuid) \cup {"subscribe"}
  BY <1>1, AppendMessage DEF ToVuid
<1>3. q = [p EXCEPT !.listens = TRUE, !.toVuid = V]
  <2>1. p.toVuid \o <<"subscribe">> = V
    BY <1>1, ReportsOne DEF ToVuid
  <2> QED
    BY <1>1, <2>1 DEF Reports, Process
<1> HIDE DEF q, V
<1>4. q \in Process
  BY <1>1, <1>2, <1>3 DEF Process
<1>5. ChannelTyped(q) /\ StartKept(q)
  BY <1>1, <1>2, <1>3, <1>4 DEF Kept, ChannelTyped, StartKept, Process
<1>6. BeforeLaunch(q) /\ Launch(q)
  BY <1>1, <1>2, <1>3 DEF Kept, BeforeLaunch, Launch, Process
<1>7. PingsArrive(q)
  BY <1>1, <1>2, <1>3 DEF Kept, PingsArrive, Alive, Process
<1>8. Kept(q) /\ q.waits = p.waits /\ q.child = p.child /\ (Disowned(q) => Disowned(p))
  BY <1>1, <1>3, <1>5, <1>6, <1>7 DEF Kept, Disowned, Alive, Process
<1> QED
  BY <1>8 DEF q

LEMMA InvokeKept ==
    ASSUME NEW p, Kept(p), p.child = "up", p.call = "none"
    PROVE  LET q == Reports([p EXCEPT !.call = "asked"], <<"invoke">>)
           IN  Kept(q) /\ q.waits = p.waits /\ q.child = p.child /\ (Disowned(q) => Disowned(p))
<1> DEFINE V == Append(p.toVuid, "invoke")
           q == Reports([p EXCEPT !.call = "asked"], <<"invoke">>)
<1>1. /\ p \in Process /\ p.toVuid \in Seq(ToVuid) /\ Once(p.toVuid)
      /\ "invoke" \notin Messages(p.toVuid)
  BY KeptGives DEF Kept, Launch
<1>2. /\ V \in Seq(ToVuid) /\ Once(V) /\ Messages(V) = Messages(p.toVuid) \cup {"invoke"}
      /\ SubscribesFirst(p.toVuid) => SubscribesFirst(V)
  BY <1>1, AppendMessage DEF ToVuid
<1>3. q = [p EXCEPT !.call = "asked", !.toVuid = V]
  <2>1. p.toVuid \o <<"invoke">> = V
    BY <1>1, ReportsOne DEF ToVuid
  <2> QED
    BY <1>1, <2>1 DEF Reports, Process
<1> HIDE DEF q, V
<1>4. q \in Process
  BY <1>1, <1>2, <1>3 DEF Process
<1>5. ChannelTyped(q) /\ StartKept(q)
  BY <1>1, <1>2, <1>3, <1>4 DEF Kept, ChannelTyped, StartKept, Process
<1>6. BeforeLaunch(q) /\ Launch(q)
  BY <1>1, <1>2, <1>3 DEF Kept, BeforeLaunch, Launch, Process
<1>7. PingsArrive(q)
  BY <1>1, <1>2, <1>3 DEF Kept, PingsArrive, Alive, Process
<1>8. Kept(q) /\ q.waits = p.waits /\ q.child = p.child /\ (Disowned(q) => Disowned(p))
  BY <1>1, <1>3, <1>5, <1>6, <1>7 DEF Kept, Disowned, Alive, Process
<1> QED
  BY <1>8 DEF q

LEMMA DiesKept ==
    ASSUME NEW p, Kept(p), Alive(p)
    PROVE  LET q == [p EXCEPT !.child = "dead", !.toApp = <<>>]
           IN  Kept(q) /\ q.waits = p.waits /\ q.child = "dead" /\ ~Disowned(q)
<1> DEFINE q == [p EXCEPT !.child = "dead", !.toApp = <<>>]
<1>1. p \in Process /\ Once(p.toVuid) /\ Len(p.toVuid) <= 4 /\ <<>> \in Seq(ToApp)
  BY KeptGives
<1>2. q \in Process
  BY <1>1 DEF Process
<1>3. ChannelTyped(q) /\ StartKept(q)
  BY <1>1, <1>2, NoMessage DEF Kept, ChannelTyped, StartKept, Alive, Process
<1>4. BeforeLaunch(q) /\ Launch(q) /\ PingsArrive(q)
  BY <1>1 DEF Kept, BeforeLaunch, Launch, PingsArrive, Alive, Process
<1>5. Kept(q) /\ q.waits = p.waits /\ q.child = "dead" /\ ~Disowned(q)
  BY <1>1, <1>3, <1>4 DEF Kept, Disowned, Alive, Process
<1> QED
  BY <1>5

LEMMA UnbornKept == Kept(Unborn) /\ ~Unborn.waits /\ ~Disowned(Unborn) /\ Unborn \in Process
<1>1. Unborn \in Process
  BY DEF Unborn, Process, Off, FifteenSeconds
<1>2. ChannelTyped(Unborn) /\ StartKept(Unborn)
  BY <1>1, NoMessage DEF ChannelTyped, StartKept, Unborn, Off
<1>3. BeforeLaunch(Unborn) /\ Launch(Unborn) /\ PingsArrive(Unborn)
  BY DEF BeforeLaunch, Launch, PingsArrive, Unborn, Off, Alive
<1> QED
  BY <1>1, <1>2, <1>3 DEF Kept, Disowned, Unborn, Alive

LEMMA ForkKept ==
    ASSUME NEW early \in BOOLEAN
    PROVE  LET q == [Unborn EXCEPT !.child = "loading", !.early = early, !.receives = TRUE,
                                   !.waits = TRUE, !.startTimer = FifteenSeconds]
           IN  Kept(q) /\ q.waits /\ q.child = "loading" /\ ~Disowned(q)
<1> DEFINE q == [Unborn EXCEPT !.child = "loading", !.early = early, !.receives = TRUE,
                               !.waits = TRUE, !.startTimer = FifteenSeconds]
<1>1. q \in Process
  <2>1. FifteenSeconds \in 0 .. FifteenSeconds
    BY DEF FifteenSeconds
  <2> QED
    BY <2>1, UnbornKept DEF Process
<1>2. ChannelTyped(q) /\ StartKept(q)
  BY <1>1, NoMessage DEF ChannelTyped, StartKept, Unborn, Off, FifteenSeconds
<1>3. BeforeLaunch(q) /\ Launch(q) /\ PingsArrive(q)
  BY NoMessage DEF BeforeLaunch, Launch, PingsArrive, Unborn, Off
<1>4. Kept(q) /\ q.waits /\ q.child = "loading" /\ ~Disowned(q)
  BY <1>2, <1>3 DEF Kept, Disowned, Unborn
<1> QED
  BY <1>4

LEMMA SettleForm ==
    ASSUME NEW p, Kept(p), p.waits, NEW o
    PROVE  /\ Settle(p, o) = [p EXCEPT !.waits = FALSE, !.startTimer = Off, !.outcome = o,
                                        !.settled = 1]
           /\ p.child # "none" /\ p.outcome = "pending" /\ ~p.killed /\ ~p.dying /\ ~p.exited
<1>1. p \in Process /\ p.child # "none"
  BY KeptGives DEF Kept, StartKept, Unborn
<1>2. p.settled = 0
  BY <1>1 DEF Kept, StartKept
<1>3. (IF p.settled < 2 THEN p.settled + 1 ELSE p.settled) = 1
  BY <1>2
<1>4. Settle(p, o) = [p EXCEPT !.waits = FALSE, !.startTimer = Off, !.outcome = o, !.settled = 1]
  BY <1>1, <1>3 DEF Settle, Process
<1> QED
  BY <1>1, <1>4 DEF Kept, StartKept

LEMMA SettleFailedKept ==
    ASSUME NEW p, Kept(p), p.waits
    PROVE  LET q == Settle(p, "failed") IN Kept(q) /\ ~q.waits /\ q.child = p.child
<1> DEFINE q == Settle(p, "failed")
<1>1. /\ p \in Process /\ p.child # "none" /\ p.outcome = "pending" /\ ~p.killed
      /\ q = [p EXCEPT !.waits = FALSE, !.startTimer = Off, !.outcome = "failed", !.settled = 1]
  BY KeptGives, SettleForm
<1> HIDE DEF q
<1>2. q \in Process
  <2>1. 1 \in 0 .. 2 /\ Off \in 0 .. FifteenSeconds
    BY DEF Off, FifteenSeconds
  <2> QED
    BY <1>1, <2>1 DEF Process
<1>3. ChannelTyped(q) /\ StartKept(q)
  BY <1>1, <1>2 DEF Kept, ChannelTyped, StartKept, Process
<1>4. BeforeLaunch(q) /\ Launch(q)
  BY <1>1, <1>2 DEF Kept, BeforeLaunch, Launch, Process
<1>5. PingsArrive(q)
  BY <1>1, <1>2 DEF Kept, PingsArrive, Alive, Process
<1>6. Kept(q) /\ ~q.waits /\ q.child = p.child
  BY <1>1, <1>3, <1>4, <1>5 DEF Kept, Process
<1> QED
  BY <1>6 DEF q

LEMMA StartTimerKept ==
    ASSUME NEW p, Kept(p), p.waits
    PROVE  LET q == [Settle(p, "failed") EXCEPT !.receives = FALSE, !.killed = TRUE]
           IN  Kept(q) /\ ~q.waits /\ q.child = p.child /\ ~Disowned(q)
<1> DEFINE r == Settle(p, "failed")
           q == [r EXCEPT !.receives = FALSE, !.killed = TRUE]
<1>1. Kept(r) /\ ~r.waits /\ r.child = p.child
  BY SettleFailedKept
<1>2. p.child # "none"
  BY SettleForm
<1> HIDE DEF r
<1>3. r \in Process /\ q \in Process
  <2>1. r \in Process
    BY <1>1, KeptGives
  <2> QED
    BY <2>1 DEF Process
<1>4. ChannelTyped(q) /\ StartKept(q)
  BY <1>1, <1>2, <1>3 DEF Kept, ChannelTyped, StartKept, Process
<1>5. BeforeLaunch(q) /\ Launch(q)
  BY <1>1, <1>3 DEF Kept, BeforeLaunch, Launch, Process
<1>6. PingsArrive(q) /\ ~Disowned(q)
  BY <1>1, <1>3 DEF PingsArrive, Disowned, Process
<1>7. Kept(q) /\ ~q.waits /\ q.child = p.child /\ ~Disowned(q)
  BY <1>1, <1>3, <1>4, <1>5, <1>6 DEF Kept, Process
<1> QED
  BY <1>7 DEF r

-----------------------------------------------------------------------------
(* What the runtime receives *)

LEMMA TakeFacts ==
    ASSUME NEW p, Kept(p), p.toVuid # <<>>
    PROVE  /\ p \in Process /\ Tail(p.toVuid) \in Seq(ToVuid) /\ Once(Tail(p.toVuid))
           /\ Len(p.toVuid) <= 4 => Len(Tail(p.toVuid)) <= 4
           /\ Head(p.toVuid) \in Messages(p.toVuid)
           /\ Messages(Tail(p.toVuid)) = Messages(p.toVuid) \ {Head(p.toVuid)}
           /\ SubscribesFirst(p.toVuid) =>
                 /\ SubscribesFirst(Tail(p.toVuid))
                 /\ Head(p.toVuid) = "ready" => "subscribe" \notin Messages(p.toVuid)
           /\ p.child \notin {"none", "loading"}
<1>1. p \in Process /\ p.toVuid \in Seq(ToVuid) /\ Once(p.toVuid) /\ Len(p.toVuid) \in Nat
  BY KeptGives
<1>2. p.child \notin {"none", "loading"}
  BY <1>1 DEF Kept, StartKept, BeforeLaunch, Unborn
<1>3. Len(Tail(p.toVuid)) = Len(p.toVuid) - 1
  BY <1>1, TailMessage
<1> QED
  BY <1>1, <1>2, <1>3, TailMessage

\* A message nobody minds: of a start that is settled, or to nobody.
LEMMA DropKept ==
    ASSUME NEW p, Kept(p), p.toVuid # <<>>,
           p.killed \/ Head(p.toVuid) \notin {"ping", "subscribe"}
    PROVE  LET q == [p EXCEPT !.toVuid = Tail(@)]
           IN  Kept(q) /\ q.waits = p.waits /\ q.child = p.child /\ (Disowned(q) => Disowned(p))
<1> DEFINE V == Tail(p.toVuid)
           q == [p EXCEPT !.toVuid = V]
<1>1. /\ p \in Process /\ V \in Seq(ToVuid) /\ Once(V)
      /\ Len(p.toVuid) <= 4 => Len(V) <= 4
      /\ Messages(V) = Messages(p.toVuid) \ {Head(p.toVuid)}
      /\ SubscribesFirst(p.toVuid) => SubscribesFirst(V)
      /\ p.child \notin {"none", "loading"}
  BY TakeFacts
<1> HIDE DEF V
<1>2. q \in Process
  BY <1>1 DEF Process
<1>3. ChannelTyped(q) /\ StartKept(q)
  BY <1>1, <1>2 DEF Kept, ChannelTyped, StartKept, Process
<1>4. BeforeLaunch(q)
  BY <1>1, <1>2 DEF Kept, BeforeLaunch, Process
<1>5. Launch(q)
  BY <1>1, <1>2 DEF Kept, Launch, Process
<1>6. PingsArrive(q)
  BY <1>1, <1>2 DEF Kept, PingsArrive, Alive, Process
<1>7. Kept(q) /\ q.waits = p.waits /\ q.child = p.child /\ (Disowned(q) => Disowned(p))
  BY <1>1, <1>3, <1>4, <1>5, <1>6 DEF Kept, Disowned, Alive, Process
<1> QED
  BY <1>7 DEF V

LEMMA DescriptorKept ==
    ASSUME NEW p, Kept(p), p.toVuid # <<>>, Head(p.toVuid) = "initiating"
    PROVE  LET r == [p EXCEPT !.toVuid = Tail(@)]
               q == Send(r, "descriptor")
           IN  Kept(q) /\ q.waits = p.waits /\ q.child = p.child /\ (Disowned(q) => Disowned(p))
<1> DEFINE r == [p EXCEPT !.toVuid = Tail(@)]
           q == Send(r, "descriptor")
<1>1. Kept(r) /\ r.waits = p.waits /\ r.child = p.child /\ (Disowned(r) => Disowned(p))
  BY DropKept
<1>2. /\ "initiating" \in Messages(p.toVuid) /\ p \in Process /\ r \in Process
      /\ Messages(Tail(p.toVuid)) = Messages(p.toVuid) \ {"initiating"}
      /\ p.child \notin {"none", "loading"}
  BY <1>1, TakeFacts, KeptGives
<1>3. CASE r.killed \/ ~Alive(r)
  BY <1>1, <1>3 DEF Send
<1>4. CASE ~r.killed /\ Alive(r)
  <2> DEFINE A == Append(r.toApp, "descriptor")
  <2>1. p.child = "asking" /\ p.toApp = <<>>
    <3>1. p.child \notin {"up", "broken", "dead"}
      BY <1>1, <1>2, <1>4 DEF Kept, Launch, BeforeLaunch, Alive
    <3>2. p.child = "asking"
      BY <1>2, <3>1 DEF Process
    <3> QED
      BY <1>2, <3>2 DEF Kept, BeforeLaunch
  <2>2. /\ r.toApp = <<>> /\ r.toVuid = Tail(p.toVuid) /\ q = [r EXCEPT !.toApp = A]
    BY <1>2, <1>4, <2>1 DEF Send, Process
  <2>3. A \in Seq(ToApp) /\ Once(A) /\ Messages(A) = {"descriptor"}
    <3>1. "descriptor" \in ToApp /\ r.toApp \in Seq(ToApp)
      BY <1>2 DEF ToApp, Process
    <3>2. Messages(r.toApp) = {} /\ Once(r.toApp)
      BY <2>2, NoMessage
    <3>3. A \in Seq(ToApp) /\ Once(A) /\ Messages(A) = Messages(r.toApp) \cup {"descriptor"}
      BY <3>1, <3>2, AppendMessage
    <3> QED
      BY <3>2, <3>3
  <2>4. r.child = "asking" /\ "initiating" \notin Messages(r.toVuid)
    BY <1>1, <1>2, <2>1, <2>2
  <2> HIDE DEF q, A, r
  <2>5. q \in Process
    BY <1>2, <2>2, <2>3 DEF Process
  <2>6. ChannelTyped(q) /\ StartKept(q)
    BY <1>1, <1>2, <2>2, <2>3, <2>4, <2>5 DEF Kept, ChannelTyped, StartKept, Process
  <2>7. BeforeLaunch(q) /\ Launch(q)
    BY <1>1, <1>2, <2>2, <2>3, <2>4 DEF Kept, BeforeLaunch, Launch, Process
  <2>8. PingsArrive(q)
    BY <1>1, <1>2, <2>2 DEF Kept, PingsArrive, Alive, Process
  <2>9. Kept(q) /\ q.waits = r.waits /\ q.child = r.child /\ (Disowned(q) => Disowned(r))
    BY <1>2, <2>2, <2>6, <2>7, <2>8 DEF Kept, Disowned, Alive, Process
  <2> QED
    BY <1>1, <2>9 DEF q, r
<1> QED
  BY <1>3, <1>4

LEMMA PingKept ==
    ASSUME NEW p, Kept(p), p.toVuid # <<>>, Head(p.toVuid) = "ping"
    PROVE  LET r == [p EXCEPT !.toVuid = Tail(@)]
               q == Ping(r)
           IN  Kept(q) /\ q.waits = p.waits /\ q.child = p.child /\ (Disowned(q) => Disowned(p))
<1> DEFINE V == Tail(p.toVuid)
           q == [p EXCEPT !.toVuid = V, !.pingTimer = FifteenSeconds]
<1>1. /\ p \in Process /\ V \in Seq(ToVuid) /\ Once(V)
      /\ Len(p.toVuid) <= 4 => Len(V) <= 4
      /\ Messages(V) = Messages(p.toVuid) \ {"ping"} /\ "ping" \in Messages(p.toVuid)
      /\ SubscribesFirst(p.toVuid) => SubscribesFirst(V)
      /\ p.child \notin {"none", "loading"}
  BY TakeFacts
<1> HIDE DEF V
<1>2. q \in Process
  <2>1. FifteenSeconds \in 0 .. FifteenSeconds
    BY DEF FifteenSeconds
  <2> QED
    BY <1>1, <2>1 DEF Process
<1>3. ChannelTyped(q) /\ StartKept(q)
  BY <1>1, <1>2 DEF Kept, ChannelTyped, StartKept, Process
<1>4. BeforeLaunch(q)
  BY <1>1, <1>2 DEF Kept, BeforeLaunch, Process
<1>5. Launch(q)
  BY <1>1, <1>2 DEF Kept, Launch, Process
<1>6. PingsArrive(q)
  BY <1>1, <1>2 DEF Kept, PingsArrive, Process
<1>7. Kept(q) /\ q.waits = p.waits /\ q.child = p.child /\ (Disowned(q) => Disowned(p))
  BY <1>1, <1>3, <1>4, <1>5, <1>6 DEF Kept, Disowned, Alive, Process
<1> QED
  BY <1>7 DEF V, Ping

LEMMA SubscribeKept ==
    ASSUME NEW p, Kept(p), p.toVuid # <<>>, Head(p.toVuid) = "subscribe"
    PROVE  LET r == [p EXCEPT !.toVuid = Tail(@)]
               q == [r EXCEPT !.subscribed = TRUE]
           IN  Kept(q) /\ q.waits = p.waits /\ q.child = p.child /\ (Disowned(q) => Disowned(p))
<1> DEFINE V == Tail(p.toVuid)
           q == [p EXCEPT !.toVuid = V, !.subscribed = TRUE]
<1>1. /\ p \in Process /\ V \in Seq(ToVuid) /\ Once(V)
      /\ Len(p.toVuid) <= 4 => Len(V) <= 4
      /\ Messages(V) = Messages(p.toVuid) \ {"subscribe"}
      /\ SubscribesFirst(p.toVuid) => SubscribesFirst(V)
      /\ p.child \notin {"none", "loading"}
  BY TakeFacts
<1> HIDE DEF V
<1>2. q \in Process
  BY <1>1 DEF Process
<1>3. ChannelTyped(q) /\ StartKept(q)
  BY <1>1, <1>2 DEF Kept, ChannelTyped, StartKept, Process
<1>4. BeforeLaunch(q)
  BY <1>1, <1>2 DEF Kept, BeforeLaunch, Process
<1>5. Launch(q)
  BY <1>1, <1>2 DEF Kept, Launch, Process
<1>6. PingsArrive(q)
  BY <1>1, <1>2 DEF Kept, PingsArrive, Alive, Process
<1>7. Kept(q) /\ q.waits = p.waits /\ q.child = p.child /\ (Disowned(q) => Disowned(p))
  BY <1>1, <1>3, <1>4, <1>5, <1>6 DEF Kept, Disowned, Alive, Process
<1> QED
  BY <1>7 DEF V

LEMMA WorkKept ==
    ASSUME NEW p, Kept(p), p.toVuid # <<>>, Head(p.toVuid) = "invoke"
    PROVE  LET r == [p EXCEPT !.toVuid = Tail(@)]
               q == [r EXCEPT !.call = "working"]
           IN  Kept(q) /\ q.waits = p.waits /\ q.child = p.child /\ (Disowned(q) => Disowned(p))
<1> DEFINE V == Tail(p.toVuid)
           q == [p EXCEPT !.toVuid = V, !.call = "working"]
<1>1. /\ p \in Process /\ V \in Seq(ToVuid) /\ Once(V)
      /\ Len(p.toVuid) <= 4 => Len(V) <= 4
      /\ Messages(V) = Messages(p.toVuid) \ {"invoke"} /\ "invoke" \in Messages(p.toVuid)
      /\ SubscribesFirst(p.toVuid) => SubscribesFirst(V)
      /\ p.child \notin {"none", "loading"}
  BY TakeFacts
<1>2. p.child \in {"up", "dead"}
  BY <1>1 DEF Kept, BeforeLaunch, Process
<1> HIDE DEF V
<1>3. q \in Process
  BY <1>1 DEF Process
<1>4. ChannelTyped(q) /\ StartKept(q)
  BY <1>1, <1>3 DEF Kept, ChannelTyped, StartKept, Process
<1>5. BeforeLaunch(q)
  BY <1>1, <1>2, <1>3 DEF Kept, BeforeLaunch, Process
<1>6. Launch(q)
  BY <1>1, <1>3 DEF Kept, Launch, Process
<1>7. PingsArrive(q)
  BY <1>1, <1>3 DEF Kept, PingsArrive, Alive, Process
<1>8. Kept(q) /\ q.waits = p.waits /\ q.child = p.child /\ (Disowned(q) => Disowned(p))
  BY <1>1, <1>4, <1>5, <1>6, <1>7 DEF Kept, Disowned, Alive, Process
<1> QED
  BY <1>8 DEF V

\* The app is ready: it is told so if it has subscribed, and then once.
LEMMA ReadyKept ==
    ASSUME NEW p, Kept(p), p.toVuid # <<>>, Head(p.toVuid) = "ready", p.waits
    PROVE  LET r == [p EXCEPT !.toVuid = Tail(@)]
               q == TellCreated(Ping(Settle(r, "ready")))
           IN  Kept(q) /\ ~q.waits /\ q.child # "none"
<1> DEFINE r == [p EXCEPT !.toVuid = Tail(@)]
           s == Ping(Settle(r, "ready"))
           q == TellCreated(s)
           A == Append(r.toApp, "create")
<1>1. Kept(r) /\ r.waits = p.waits /\ r.child = p.child
  BY DropKept
<1>2. /\ r \in Process /\ p \in Process /\ r.outcome = "pending" /\ ~r.killed
      /\ r.child # "none"
      /\ Settle(r, "ready") = [r EXCEPT !.waits = FALSE, !.startTimer = Off,
                                         !.outcome = "ready", !.settled = 1]
  BY <1>1, KeptGives, SettleForm
<1>3. /\ s = [r EXCEPT !.waits = FALSE, !.startTimer = Off, !.outcome = "ready",
                        !.settled = 1, !.pingTimer = FifteenSeconds]
      /\ s \in Process
  <2>1. 1 \in 0 .. 2 /\ Off \in 0 .. FifteenSeconds /\ FifteenSeconds \in 0 .. FifteenSeconds
    BY DEF Off, FifteenSeconds
  <2> HIDE DEF r
  <2>2. s = [r EXCEPT !.waits = FALSE, !.startTimer = Off, !.outcome = "ready",
                      !.settled = 1, !.pingTimer = FifteenSeconds]
    BY <1>2 DEF Ping, Process
  <2> HIDE DEF s
  <2> QED
    BY <1>2, <2>1, <2>2 DEF Process
<1>4. /\ "ready" \in Messages(p.toVuid) /\ r.toVuid = Tail(p.toVuid)
      /\ Messages(Tail(p.toVuid)) = Messages(p.toVuid) \ {"ready"}
      /\ SubscribesFirst(p.toVuid) => "subscribe" \notin Messages(p.toVuid)
      /\ p.child \notin {"none", "loading"}
  BY <1>2, TakeFacts
<1>5. r.child \in {"up", "dead"}
  BY <1>1, <1>2, <1>4 DEF Kept, BeforeLaunch, Process
<1>6. "ready" \notin Messages(r.toVuid)
  BY <1>4
<1>7. r.child = "up" /\ r.early => r.subscribed
  <2> SUFFICES ASSUME p.child = "up", p.early PROVE p.subscribed
    BY <1>1, <1>2 DEF Process
  <2>1. SubscribesFirst(p.toVuid) /\ ~p.killed
    BY <1>2 DEF Kept, Launch, Process
  <2> QED
    BY <1>4, <2>1 DEF Kept, Launch
<1>8. r.child = "up" => /\ r.heard = 0 /\ "create" \notin Messages(r.toApp)
                        /\ Messages(r.toApp) \subseteq {"create", "promise"}
  BY <1>1, <1>2 DEF Kept, Launch
<1>9. r.toApp \in Seq(ToApp) /\ Once(r.toApp) /\ Once(r.toVuid) /\ Len(r.toVuid) <= 4
  BY <1>1, KeptGives
<1>10. r.child = "dead" => r.toApp = <<>>
  BY <1>1 DEF Kept, BeforeLaunch
<1> HIDE DEF s, r
<1>11. ChannelTyped(s) /\ StartKept(s) /\ BeforeLaunch(s) /\ PingsArrive(s)
  <2>1. ChannelTyped(s) /\ StartKept(s)
    BY <1>1, <1>2, <1>3, <1>5, <1>9 DEF Kept, ChannelTyped, StartKept, Process, Off
  <2>2. BeforeLaunch(s)
    BY <1>2, <1>3, <1>5, <1>9, <1>10 DEF BeforeLaunch, Process
  <2>3. PingsArrive(s)
    BY <1>2, <1>3 DEF PingsArrive, Process
  <2> QED
    BY <2>1, <2>2, <2>3
<1>12. CASE s.subscribed /\ s.child = "up"
  <2>1. q = [s EXCEPT !.toApp = A]
    BY <1>2, <1>3, <1>12 DEF TellCreated, Send, Alive, Process
  <2>2. r.child = "up"
    BY <1>2, <1>3, <1>12 DEF Process
  <2>3. A \in Seq(ToApp) /\ Once(A) /\ Messages(A) = Messages(r.toApp) \cup {"create"}
    BY <1>8, <1>9, <2>2, AppendMessage DEF ToApp
  <2> HIDE DEF q, A
  <2>4. q \in Process
    BY <1>3, <2>1, <2>3 DEF Process
  <2>5. ChannelTyped(q) /\ StartKept(q)
    BY <1>3, <1>11, <1>12, <2>1, <2>3, <2>4 DEF ChannelTyped, StartKept, Process
  <2>6. BeforeLaunch(q) /\ PingsArrive(q)
    BY <1>3, <1>11, <1>12, <2>1 DEF BeforeLaunch, PingsArrive, Alive, Process
  <2>7. Launch(q)
    <3>1. /\ q.child = "up" /\ q.toVuid = r.toVuid /\ q.toApp = A /\ q.heard = 0
          /\ q.outcome = "ready" /\ q.early = r.early /\ q.listens = r.listens
          /\ q.call = r.call
      BY <1>2, <1>3, <1>8, <2>1, <2>2 DEF Process
    <3> QED
      BY <1>1, <1>6, <1>8, <2>2, <2>3, <3>1 DEF Kept, Launch
  <2>8. Kept(q) /\ ~q.waits /\ q.child # "none"
    BY <1>2, <1>3, <1>12, <2>1, <2>5, <2>6, <2>7 DEF Kept, Process
  <2> QED
    BY <2>8 DEF q, s, r
<1>13. CASE ~(s.subscribed /\ s.child = "up")
  <2>1. s.child = r.child /\ s.subscribed = r.subscribed
    BY <1>2, <1>3 DEF Process
  <2>2. q = s
    BY <1>5, <1>13, <2>1 DEF TellCreated, Send, Alive
  <2>3. Launch(s)
    <3>1. /\ s.toVuid = r.toVuid /\ s.toApp = r.toApp /\ s.heard = r.heard
          /\ s.outcome = "ready" /\ s.early = r.early /\ s.listens = r.listens
          /\ s.call = r.call
      BY <1>2, <1>3 DEF Process
    <3>2. r.child = "up" => ~r.early
      BY <1>7, <1>13, <2>1
    <3> QED
      BY <1>1, <1>6, <1>8, <2>1, <3>1, <3>2 DEF Kept, Launch
  <2>4. Kept(s) /\ ~s.waits /\ s.child # "none"
    BY <1>2, <1>3, <1>11, <2>1, <2>3 DEF Kept, Process
  <2> HIDE DEF q
  <2>5. Kept(q) /\ ~q.waits /\ q.child # "none"
    BY <2>2, <2>4
  <2> QED
    BY <2>5 DEF q, s, r
<1> QED
  BY <1>12, <1>13

-----------------------------------------------------------------------------
(* Answers, timers and the end *)

LEMMA AnswerKept ==
    ASSUME NEW p, Kept(p), p.call = "working"
    PROVE  LET r == [p EXCEPT !.call = "answered"]
               q == Send(r, "promise")
           IN  Kept(q) /\ q.waits = p.waits /\ q.child = p.child /\ (Disowned(q) => Disowned(p))
<1> DEFINE r == [p EXCEPT !.call = "answered"]
           q == Send(r, "promise")
           A == Append(p.toApp, "promise")
<1>1. p \in Process /\ p.toApp \in Seq(ToApp) /\ Once(p.toApp) /\ r \in Process
  <2>1. p \in Process /\ p.toApp \in Seq(ToApp) /\ Once(p.toApp)
    BY KeptGives
  <2> QED
    BY <2>1 DEF Process
<1>2. p.child \in {"up", "dead"}
  BY <1>1 DEF Kept, StartKept, BeforeLaunch, Unborn, Process
<1>3. Kept(r) /\ r.waits = p.waits /\ r.child = p.child /\ (Disowned(r) => Disowned(p))
  <2>1. ChannelTyped(r) /\ StartKept(r)
    BY <1>1, <1>2 DEF Kept, ChannelTyped, StartKept, Process
  <2>2. BeforeLaunch(r) /\ Launch(r)
    BY <1>1, <1>2 DEF Kept, BeforeLaunch, Launch, Process
  <2>3. PingsArrive(r)
    BY <1>1 DEF Kept, PingsArrive, Alive, Process
  <2> QED
    BY <1>1, <2>1, <2>2, <2>3 DEF Kept, Disowned, Alive, Process
<1>4. r.call = "answered" /\ r.toApp = p.toApp
  BY <1>1 DEF Process
<1> HIDE DEF r
<1>5. CASE r.killed \/ ~Alive(r)
  BY <1>3, <1>5 DEF Send, r
<1>6. CASE ~r.killed /\ Alive(r)
  <2>1. p.child = "up" /\ "promise" \notin Messages(p.toApp)
    BY <1>2, <1>3, <1>6 DEF Kept, Launch, Alive
  <2>2. A \in Seq(ToApp) /\ Once(A) /\ Messages(A) = Messages(p.toApp) \cup {"promise"}
    BY <1>1, <2>1, AppendMessage DEF ToApp
  <2>3. q = [r EXCEPT !.toApp = A]
    BY <1>4, <1>6 DEF Send
  <2> HIDE DEF q, A
  <2>4. q \in Process
    BY <1>1, <2>2, <2>3 DEF Process
  <2>5. ChannelTyped(q) /\ StartKept(q)
    BY <1>1, <1>3, <2>1, <2>2, <2>3, <2>4 DEF Kept, ChannelTyped, StartKept, Process
  <2>6. BeforeLaunch(q) /\ Launch(q)
    BY <1>1, <1>3, <1>4, <2>1, <2>2, <2>3 DEF Kept, BeforeLaunch, Launch, Process
  <2>7. PingsArrive(q)
    BY <1>1, <1>3, <2>3 DEF Kept, PingsArrive, Alive, Process
  <2>8. Kept(q) /\ q.waits = p.waits /\ q.child = p.child /\ (Disowned(q) => Disowned(p))
    BY <1>1, <1>3, <2>3, <2>5, <2>6, <2>7 DEF Kept, Disowned, Alive, Process
  <2> QED
    BY <2>8 DEF q, r
<1> QED
  BY <1>5, <1>6

\* A ping is overdue only if the process hung.
LEMMA OverdueKept ==
    ASSUME NEW p, Kept(p), p.pingTimer = DueTick
    PROVE  LET q == [p EXCEPT !.pingTimer = Off, !.killed = @ \/ ~p.exited]
           IN  Kept(q) /\ q.waits = p.waits /\ q.child = p.child /\ (Disowned(q) => Disowned(p))
<1> DEFINE q == [p EXCEPT !.pingTimer = Off, !.killed = @ \/ ~p.exited]
<1>1. p \in Process
  BY KeptGives
<1>2. p.killed \in BOOLEAN /\ p.exited \in BOOLEAN
  BY <1>1 DEF Process
<1>3. q \in Process
  <2>1. Off \in 0 .. FifteenSeconds
    BY DEF Off, FifteenSeconds
  <2> QED
    BY <1>1, <1>2, <2>1 DEF Process
<1>4. ~p.waits /\ p.child \notin {"none", "loading"}
  <2>1. DueTick # Off
    BY DEF DueTick, Off
  <2>2. p.child \notin {"none", "loading"}
    BY <2>1 DEF Kept, StartKept, BeforeLaunch, Unborn
  <2>3. ASSUME p.waits PROVE FALSE
    <3>1. p.startTimer < DueTick /\ p.startTimer # Off /\ p.startTimer \in 0 .. FifteenSeconds
      BY <1>1, <2>1, <2>3 DEF Kept, StartKept, PingsArrive, Process
    <3> QED
      BY <3>1 DEF DueTick, Off, FifteenSeconds
  <2> QED
    BY <2>2, <2>3
<1>5. ChannelTyped(q) /\ StartKept(q)
  BY <1>1, <1>2, <1>3, <1>4 DEF Kept, ChannelTyped, StartKept, Process
<1>6. BeforeLaunch(q) /\ Launch(q)
  BY <1>1, <1>2, <1>4 DEF Kept, BeforeLaunch, Launch, Process
<1>7. PingsArrive(q)
  BY <1>1, <1>4 DEF PingsArrive, Process
<1> QED
  BY <1>1, <1>2, <1>4, <1>5, <1>6, <1>7 DEF Kept, Disowned, Alive, Process

LEMMA DestructKept ==
    ASSUME NEW p, Kept(p), ~p.waits, p.child # "none"
    PROVE  LET q == [p EXCEPT !.dying = ~p.exited]
           IN  Kept(q) /\ q.waits = p.waits /\ q.child = p.child
<1> DEFINE q == [p EXCEPT !.dying = ~p.exited]
<1>1. p \in Process
  BY KeptGives
<1>2. q \in Process
  BY <1>1 DEF Process
<1>3. ChannelTyped(q) /\ StartKept(q)
  BY <1>1, <1>2 DEF Kept, ChannelTyped, StartKept, Process
<1>4. BeforeLaunch(q) /\ Launch(q) /\ PingsArrive(q)
  BY <1>1 DEF Kept, BeforeLaunch, Launch, PingsArrive, Alive, Process
<1> QED
  BY <1>1, <1>3, <1>4 DEF Kept, Process

LEMMA KillTimerKept ==
    ASSUME NEW p, Kept(p), p.dying
    PROVE  LET q == [p EXCEPT !.dying = FALSE, !.killed = TRUE]
           IN  Kept(q) /\ q.waits = p.waits /\ q.child = p.child /\ ~Disowned(q)
<1> DEFINE q == [p EXCEPT !.dying = FALSE, !.killed = TRUE]
<1>1. p \in Process
  BY KeptGives
<1>2. q \in Process
  BY <1>1 DEF Process
<1>3. ChannelTyped(q) /\ StartKept(q)
  BY <1>1, <1>2 DEF Kept, ChannelTyped, StartKept, Process, Unborn
<1>4. BeforeLaunch(q) /\ Launch(q) /\ PingsArrive(q)
  BY <1>1 DEF Kept, BeforeLaunch, Launch, PingsArrive, Process
<1> QED
  BY <1>1, <1>3, <1>4 DEF Kept, Disowned, Process

LEMMA ExitKept ==
    ASSUME NEW p, Kept(p), p.child = "dead"
    PROVE  LET r == [p EXCEPT !.exited = TRUE]
               q == IF r.waits THEN Settle(r, "failed") ELSE r
           IN  Kept(q) /\ ~q.waits /\ q.child = "dead"
<1> DEFINE r == [p EXCEPT !.exited = TRUE]
           q == IF r.waits THEN Settle(r, "failed") ELSE r
           s == [p EXCEPT !.waits = FALSE, !.startTimer = Off, !.outcome = "failed", !.settled = 1]
<1>1. p \in Process /\ r \in Process
  <2>1. p \in Process
    BY KeptGives
  <2> QED
    BY <2>1 DEF Process
<1>2. ASSUME NEW t, Kept(t), ~t.waits, t.child = "dead"
      PROVE  Kept([t EXCEPT !.exited = TRUE])
  <2> DEFINE u == [t EXCEPT !.exited = TRUE]
  <2>1. t \in Process
    BY <1>2, KeptGives
  <2>2. u \in Process
    BY <2>1 DEF Process
  <2>3. ChannelTyped(u) /\ StartKept(u)
    BY <1>2, <2>1, <2>2 DEF Kept, ChannelTyped, StartKept, Process
  <2>4. BeforeLaunch(u) /\ Launch(u) /\ PingsArrive(u)
    BY <1>2, <2>1 DEF Kept, BeforeLaunch, Launch, PingsArrive, Alive, Process
  <2> QED
    BY <2>3, <2>4 DEF Kept
<1>3. CASE p.waits
  <2>1. Kept(Settle(p, "failed")) /\ ~Settle(p, "failed").waits /\ Settle(p, "failed").child = "dead"
    BY <1>3, SettleFailedKept
  <2>2. Settle(r, "failed") = [Settle(p, "failed") EXCEPT !.exited = TRUE]
    BY <1>1 DEF Settle, Process
  <2>3. Settle(p, "failed") \in Process
    BY <2>1, KeptGives
  <2>4. Kept(Settle(r, "failed"))
    BY <1>2, <2>1, <2>2
  <2>5. ~Settle(r, "failed").waits /\ Settle(r, "failed").child = "dead"
    BY <2>1, <2>2, <2>3 DEF Process
  <2>6. r.waits
    BY <1>1, <1>3 DEF Process
  <2> HIDE DEF r
  <2>7. Kept(q) /\ ~q.waits /\ q.child = "dead"
    BY <2>4, <2>5, <2>6
  <2> QED
    BY <2>7 DEF r
<1>4. CASE ~p.waits
  BY <1>1, <1>2, <1>4 DEF Process
<1> QED
  BY <1>3, <1>4

LEMMA TickKept ==
    ASSUME NEW p, Kept(p), p.toVuid = <<>>, p.startTimer # DueTick, p.pingTimer # DueTick
    PROVE  LET r == [p EXCEPT !.startTimer = Later(@), !.pingTimer = Later(@)]
               q == IF Works(r) /\ r.child # "loading" THEN Reports(r, <<"ping">>) ELSE r
           IN  Kept(q) /\ q.waits = p.waits /\ q.child = p.child /\ (Disowned(q) => Disowned(p))
<1> DEFINE r == [p EXCEPT !.startTimer = Later(@), !.pingTimer = Later(@)]
           q == IF Works(r) /\ r.child # "loading" THEN Reports(r, <<"ping">>) ELSE r
           V == Append(<<>>, "ping")
           start == Later(p.startTimer)
           ping == Later(p.pingTimer)
<1>1. p \in Process /\ p.toVuid = <<>> /\ Once(p.toApp) /\ Messages(p.toVuid) = {}
  BY KeptGives, NoMessage
<1>2. /\ start \in 0 .. FifteenSeconds /\ ping \in 0 .. FifteenSeconds
      /\ p.startTimer = Off => start = Off
      /\ p.startTimer # Off => start # Off /\ start = p.startTimer - 1
      /\ p.pingTimer = Off => ping = Off
      /\ p.pingTimer # Off => ping # Off /\ ping = p.pingTimer - 1
  <2>1. p.startTimer \in 0 .. FifteenSeconds /\ p.pingTimer \in 0 .. FifteenSeconds
    BY <1>1 DEF Process
  <2> QED
    BY <2>1 DEF Later, DueTick, Off, FifteenSeconds
<1>3. r = [p EXCEPT !.startTimer = start, !.pingTimer = ping]
  OBVIOUS
<1> HIDE DEF r, start, ping
<1>4. r \in Process
  BY <1>1, <1>2, <1>3 DEF Process
<1>5. ChannelTyped(r) /\ StartKept(r)
  <2>1. p.child = "none" => r = p
    <3> SUFFICES ASSUME p.child = "none" PROVE r = p
      OBVIOUS
    <3>1. p = Unborn
      BY DEF Kept, StartKept
    <3>2. p.startTimer = Off /\ p.pingTimer = Off
      BY <3>1 DEF Unborn
    <3>3. start = p.startTimer /\ ping = p.pingTimer
      BY <1>2, <3>2
    <3> QED
      BY <1>1, <1>3, <3>3 DEF Process
  <2>2. ChannelTyped(r)
    BY <1>1, <1>3, <1>4 DEF Kept, ChannelTyped, Process
  <2>3. StartKept(r)
    BY <1>1, <1>2, <1>3, <2>1 DEF Kept, StartKept, Process
  <2> QED
    BY <2>2, <2>3
<1>6. BeforeLaunch(r) /\ Launch(r)
  BY <1>1, <1>2, <1>3 DEF Kept, BeforeLaunch, Launch, Process
<1>7. /\ r.waits = p.waits /\ r.child = p.child /\ r.toVuid = <<>> /\ r.toApp = p.toApp
      /\ r.killed = p.killed /\ r.dying = p.dying /\ r.hangs = p.hangs
      /\ r.startTimer = start /\ r.pingTimer = ping
  BY <1>1, <1>3 DEF Process
<1>8. CASE Works(r) /\ r.child # "loading"
  <2>1. V \in Seq(ToVuid) /\ Once(V) /\ Messages(V) = {"ping"} /\ <<>> \o <<"ping">> = V
    <3>1. "ping" \in ToVuid /\ <<>> \in Seq(ToVuid) /\ "ping" \notin Messages(<<>>) /\ Once(<<>>)
      BY NoMessage DEF ToVuid
    <3>2. /\ V \in Seq(ToVuid) /\ Once(V)
          /\ Messages(V) = Messages(<<>>) \cup {"ping"}
      BY <3>1, AppendMessage
    <3>3. <<>> \o <<"ping">> = V
      BY <3>1, ReportsOne
    <3> HIDE DEF V
    <3> QED
      BY <3>2, <3>3, NoMessage
  <2>2. q = [r EXCEPT !.toVuid = V]
    BY <1>7, <1>8, <2>1 DEF Reports
  <2>3. SubscribesFirst(V)
    BY <2>1 DEF SubscribesFirst, Messages
  <2>4. r.child \notin {"none", "loading", "dead"}
    BY <1>8 DEF Works, Alive
  <2> HIDE DEF q, V
  <2>5. q \in Process
    BY <1>4, <2>1, <2>2 DEF Process
  <2>6. ChannelTyped(q) /\ StartKept(q)
    BY <1>4, <1>5, <2>1, <2>2, <2>4, <2>5 DEF ChannelTyped, StartKept, Process
  <2>7. BeforeLaunch(q) /\ Launch(q)
    BY <1>4, <1>6, <2>1, <2>2, <2>3, <2>4 DEF BeforeLaunch, Launch, Process
  <2>8. PingsArrive(q)
    <3>1. /\ q.toVuid = V /\ q.waits = p.waits /\ q.child = p.child /\ q.killed = p.killed
          /\ q.hangs = p.hangs /\ q.startTimer = start /\ q.pingTimer = ping
      BY <1>4, <1>7, <2>2 DEF Process
    <3>2. ASSUME Alive(p), ~p.killed, p.hangs = "never", ping # Off PROVE ping = 3
      <4>1. p.pingTimer = FifteenSeconds
        BY <1>1, <1>2, <3>2 DEF Kept, PingsArrive
      <4> QED
        BY <1>2, <3>2, <4>1 DEF FifteenSeconds, Off
    <3>3. ASSUME p.waits
          PROVE  start < FifteenSeconds /\ (ping # Off => start < ping)
      <4>1. p.startTimer # Off /\ p.startTimer \in 0 .. FifteenSeconds
            /\ p.pingTimer \in 0 .. FifteenSeconds
        BY <1>1, <3>3 DEF Kept, StartKept, Process
      <4>2. p.pingTimer # Off => p.startTimer < p.pingTimer
        BY <3>3 DEF Kept, PingsArrive
      <4> QED
        BY <1>2, <4>1, <4>2 DEF FifteenSeconds, Off
    <3> QED
      BY <2>1, <3>1, <3>2, <3>3 DEF PingsArrive, Alive
  <2>9. Kept(q) /\ q.waits = p.waits /\ q.child = p.child /\ (Disowned(q) => Disowned(p))
    BY <1>4, <1>7, <2>2, <2>6, <2>7, <2>8 DEF Kept, Disowned, Alive, Process
  <2> QED
    BY <2>9 DEF q, r
<1>9. CASE ~(Works(r) /\ r.child # "loading")
  <2>1. q = r
    BY <1>9
  <2> HIDE DEF q
  <2>2. r.child = "loading" => r.pingTimer = Off
    BY <1>2, <1>7 DEF Kept, BeforeLaunch
  <2>3. PingsArrive(r)
    <3>1. Messages(r.toVuid) = {}
      BY <1>7, NoMessage
    <3>2. Alive(r) /\ r.hangs = "never" => r.pingTimer = Off
      BY <1>9, <2>2 DEF Works
    <3>3. ASSUME r.waits, r.pingTimer # Off PROVE r.startTimer < r.pingTimer
      <4>1. p.startTimer # Off /\ p.startTimer \in 0 .. FifteenSeconds
            /\ p.pingTimer \in 0 .. FifteenSeconds
        BY <1>1, <1>7, <3>3 DEF Kept, StartKept, Process
      <4>2. p.pingTimer # Off
        BY <1>2, <1>7, <3>3
      <4>3. p.startTimer < p.pingTimer
        BY <1>7, <3>3, <4>2 DEF Kept, PingsArrive
      <4> QED
        BY <1>2, <1>7, <4>1, <4>2, <4>3 DEF FifteenSeconds, Off
    <3> QED
      BY <3>1, <3>2, <3>3 DEF PingsArrive
  <2>4. Kept(q) /\ q.waits = p.waits /\ q.child = p.child /\ (Disowned(q) => Disowned(p))
    BY <1>5, <1>6, <1>7, <2>1, <2>3 DEF Kept, Disowned, Alive
  <2> QED
    BY <2>4 DEF q, r
<1> QED
  BY <1>8, <1>9

-----------------------------------------------------------------------------
(* The scheduler *)

LEMMA ExtFacts ==
    ASSUME ExtAppIInv, NEW i \in Forks
    PROVE  Kept(procs[i]) /\ procs[i] \in Process /\ MaxForks \in Nat /\ i # 0
<1>1. MaxForks \in Nat /\ Kept(procs[i])
  BY ExtAppAssumption DEF ExtAppIInv
<1> QED
  BY <1>1, KeptGives DEF Forks

\* The scheduler is told nothing, and the process does not become one it
\* should have been told of.
LEMMA QuietStep ==
    ASSUME ExtAppIInv, NEW i \in Forks, NEW q, Become(i, q), Kept(q), UNCHANGED scheduler,
           q.waits => procs[i].waits, Disowned(q) => Disowned(procs[i]),
           q.child # "none" \/ procs[i].child = "none"
    PROVE  ExtAppIInv'
<1>1. procs \in [Forks -> Process] /\ q \in Process
  BY KeptGives DEF ExtAppIInv
<1>2. procs' = [procs EXCEPT ![i] = q]
  BY DEF Become
<1>3. /\ procs' \in [Forks -> Process] /\ procs'[i] = q
      /\ \A j \in Forks : j # i => procs'[j] = procs[j]
  BY <1>1, <1>2
<1>4. \A j \in Forks : Kept(procs'[j])
  BY <1>3 DEF ExtAppIInv
<1>5. SchedulerKept(procs, scheduler)
  BY DEF ExtAppIInv
<1>6. /\ \A j \in Forks : procs'[j].waits => procs[j].waits
      /\ \A j \in Forks : Disowned(procs'[j]) => Disowned(procs[j])
      /\ \A j \in Forks : procs[j].child # "none" => procs'[j].child # "none"
  BY <1>3
<1>7. SchedulerKept(procs', scheduler')
  BY <1>5, <1>6 DEF SchedulerKept
<1> QED
  BY <1>3, <1>4, <1>7 DEF ExtAppIInv

\* The scheduler and a process that starts, is ready or ends: nobody else is
\* being started, and nobody else is left behind.
LEMMA ToldStep ==
    ASSUME ExtAppIInv, NEW i \in Forks, NEW q, Become(i, q), Kept(q), q.child # "none",
           scheduler' \in [status : {"exited", "creating", "running"}, app : {0, i}],
           scheduler'.app = i <=> scheduler'.status = "running",
           q.waits => scheduler'.status = "creating",
           \A j \in Forks : procs[j].waits => j = i,
           \A j \in Forks : Disowned(procs[j]) => j = i,
           Disowned(q) => scheduler'.app = i
    PROVE  ExtAppIInv'
<1>1. procs \in [Forks -> Process] /\ q \in Process
  BY KeptGives DEF ExtAppIInv
<1>2. procs' = [procs EXCEPT ![i] = q]
  BY DEF Become
<1>3. /\ procs' \in [Forks -> Process] /\ procs'[i] = q
      /\ \A j \in Forks : j # i => procs'[j] = procs[j]
  BY <1>1, <1>2
<1>4. \A j \in Forks : Kept(procs'[j])
  BY <1>3 DEF ExtAppIInv
<1>5. /\ \A j \in Forks : procs'[j].waits => j = i /\ q.waits
      /\ \A j \in Forks : Disowned(procs'[j]) => j = i /\ Disowned(q)
  BY <1>3
<1>6. i \in 0 .. MaxForks /\ 0 \in 0 .. MaxForks /\ i # 0
  BY ExtAppAssumption DEF Forks
<1>7. SchedulerKept(procs', scheduler')
  BY <1>3, <1>5, <1>6 DEF SchedulerKept
<1> QED
  BY <1>3, <1>4, <1>7 DEF ExtAppIInv

\* Who is being started, or known to the scheduler, is alone in it.
LEMMA OneStarts ==
    ASSUME ExtAppIInv, NEW i \in Forks, procs[i].waits \/ scheduler.app = i
    PROVE  /\ \A j \in Forks : procs[j].waits => j = i
           /\ \A j \in Forks : Disowned(procs[j]) => j = i
<1>1. SchedulerKept(procs, scheduler) /\ i # 0
  BY ExtFacts DEF ExtAppIInv
<1>2. CASE procs[i].waits
  <2>1. scheduler.status = "creating" /\ scheduler.app = 0
    BY <1>1, <1>2 DEF SchedulerKept
  <2>2. \A j \in Forks : ~Disowned(procs[j])
    BY <1>1, <2>1, ExtFacts DEF SchedulerKept
  <2> QED
    BY <1>1, <1>2, <2>2 DEF SchedulerKept
<1>3. CASE scheduler.app = i
  <2>1. scheduler.status \in {"running", "destructing"}
    BY <1>1, <1>3 DEF SchedulerKept
  <2> QED
    BY <1>1, <1>3, <2>1 DEF SchedulerKept
<1> QED
  BY <1>2, <1>3

-----------------------------------------------------------------------------
(* The steps *)

LEMMA ProcessSteps ==
    ASSUME ExtAppIInv, NEW i \in Forks,
           LoadApp(i) \/ Read(i) \/ Listen(i) \/ Invoke(i) \/ Hang(i) \/ GoOn(i) \/ ProcessDies(i)
    PROVE  ExtAppIInv'
<1> DEFINE p == procs[i]
<1>1. Kept(p) /\ p \in Process
  BY ExtFacts
<1>2. UNCHANGED scheduler
  BY DEF LoadApp, Read, Listen, Invoke, Hang, GoOn, ProcessDies
<1>3. ASSUME NEW q, Become(i, q), Kept(q), q.waits = p.waits, q.child = p.child,
             Disowned(q) => Disowned(p)
      PROVE  ExtAppIInv'
  BY <1>2, <1>3, QuietStep
<1>4. ASSUME NEW q, Become(i, q), Kept(q), q.waits = p.waits, q.child # "none",
             Disowned(q) => Disowned(p)
      PROVE  ExtAppIInv'
  BY <1>2, <1>4, QuietStep
<1>5. CASE LoadApp(i)
  BY <1>1, <1>4, <1>5, LoadKept DEF LoadApp
<1>6. CASE Read(i)
  <2> DEFINE r == [p EXCEPT !.toApp = Tail(@)]
  <2>1. Works(p) /\ p.toApp # <<>>
    BY <1>6 DEF Read
  <2>2. CASE Head(p.toApp) = "descriptor" /\ Become(i, Launched(r))
    BY <1>1, <1>4, <2>1, <2>2, LaunchKept
  <2>3. CASE /\ Head(p.toApp) = "descriptor"
             /\ Become(i, Reports([r EXCEPT !.child = "broken"], <<"error">>))
    BY <1>1, <1>4, <2>1, <2>3, BrokenKept
  <2>4. CASE Head(p.toApp) = "create" /\ Become(i, [r EXCEPT !.heard = @ + 1])
    BY <1>1, <1>3, <2>1, <2>4, HearKept
  <2>5. CASE Head(p.toApp) = "promise" /\ Become(i, [r EXCEPT !.call = "returned"])
    BY <1>1, <1>3, <2>1, <2>5, ReturnKept
  <2> QED
    BY <1>6, <2>2, <2>3, <2>4, <2>5 DEF Read
<1>7. CASE Listen(i)
  BY <1>1, <1>3, <1>7, ListenKept DEF Listen
<1>8. CASE Invoke(i)
  BY <1>1, <1>3, <1>8, InvokeKept DEF Invoke
<1>9. CASE Hang(i)
  BY <1>1, <1>3, <1>9, HangKept DEF Hang
<1>10. CASE GoOn(i)
  BY <1>1, <1>3, <1>10, HangKept DEF GoOn
<1>11. CASE ProcessDies(i)
  BY <1>1, <1>4, <1>11, DiesKept DEF ProcessDies
<1> QED
  BY <1>5, <1>6, <1>7, <1>8, <1>9, <1>10, <1>11

LEMMA ForkStep ==
    ASSUME ExtAppIInv, NEW i \in Forks, ForkApp(i)
    PROVE  ExtAppIInv'
<1>1. PICK early \in BOOLEAN :
          Become(i, [Unborn EXCEPT !.child = "loading", !.early = early, !.receives = TRUE,
                                   !.waits = TRUE, !.startTimer = FifteenSeconds])
  BY DEF ForkApp
<1> DEFINE q == [Unborn EXCEPT !.child = "loading", !.early = early, !.receives = TRUE,
                               !.waits = TRUE, !.startTimer = FifteenSeconds]
<1>2. Kept(q) /\ q.waits /\ q.child = "loading" /\ ~Disowned(q)
  BY ForkKept
<1>3. scheduler.status = "exited" /\ scheduler' = [status |-> "creating", app |-> 0]
  BY DEF ForkApp
<1>4. SchedulerKept(procs, scheduler) /\ i # 0
  BY ExtFacts DEF ExtAppIInv
<1>5. /\ \A j \in Forks : ~procs[j].waits
      /\ \A j \in Forks : ~Disowned(procs[j])
  BY <1>3, <1>4, ExtFacts DEF SchedulerKept
<1> HIDE DEF q
<1>6. Become(i, q)
  BY <1>1 DEF q
<1>7. /\ scheduler' \in [status : {"exited", "creating", "running"}, app : {0, i}]
      /\ scheduler'.status = "creating" /\ scheduler'.app # i
  BY <1>3, <1>4
<1> QED
  BY <1>2, <1>5, <1>6, <1>7, ToldStep

LEMMA OnMessageStep ==
    ASSUME ExtAppIInv, NEW i \in Forks, OnMessage(i)
    PROVE  ExtAppIInv'
<1> DEFINE p == procs[i]
           m == Head(p.toVuid)
           r == [p EXCEPT !.toVuid = Tail(@)]
<1>1. Kept(p) /\ p \in Process /\ p.toVuid # <<>> /\ i # 0
  BY ExtFacts DEF OnMessage
<1>2. ASSUME NEW q, Become(i, q), Kept(q), q.waits = p.waits, q.child = p.child,
             Disowned(q) => Disowned(p), UNCHANGED scheduler
      PROVE  ExtAppIInv'
  BY <1>2, QuietStep
<1>3. r.receives = p.receives /\ r.waits = p.waits
  BY <1>1 DEF Process
<1>4. CASE ~r.receives /\ Become(i, r) /\ UNCHANGED scheduler
  <2>1. p.killed
    BY <1>1, <1>3, <1>4, TakeFacts DEF Kept, StartKept
  <2> QED
    BY <1>1, <1>2, <1>4, <2>1, DropKept
<1>5. CASE m = "initiating" /\ Become(i, Send(r, "descriptor")) /\ UNCHANGED scheduler
  BY <1>1, <1>2, <1>5, DescriptorKept
<1>6. CASE /\ m = "ready" /\ r.waits
           /\ Become(i, TellCreated(Ping(Settle(r, "ready"))))
           /\ scheduler' = [status |-> "running", app |-> i]
  <2> DEFINE q == TellCreated(Ping(Settle(r, "ready")))
  <2>1. Kept(q) /\ ~q.waits /\ q.child # "none"
    BY <1>1, <1>3, <1>6, ReadyKept
  <2>2. /\ \A j \in Forks : procs[j].waits => j = i
        /\ \A j \in Forks : Disowned(procs[j]) => j = i
    BY <1>3, <1>6, OneStarts
  <2> HIDE DEF q
  <2>3. Become(i, q)
    BY <1>6 DEF q
  <2>4. /\ scheduler' \in [status : {"exited", "creating", "running"}, app : {0, i}]
        /\ scheduler'.status = "running" /\ scheduler'.app = i
    BY <1>6
  <2> QED
    BY <2>1, <2>2, <2>3, <2>4, ToldStep
<1>7. CASE /\ m = "error" /\ r.waits /\ Become(i, Settle(r, "failed")) /\ scheduler' = Exited
  <2> DEFINE q == Settle(r, "failed")
  <2>1. Kept(r) /\ r.waits /\ r.child = p.child
    BY <1>1, <1>7, DropKept
  <2>2. Kept(q) /\ ~q.waits /\ q.child = p.child
    BY <2>1, SettleFailedKept
  <2>3. p.child \in {"broken", "dead"}
    BY <1>1, <1>7, TakeFacts DEF Kept, BeforeLaunch, Launch, Process
  <2>4. /\ \A j \in Forks : procs[j].waits => j = i
        /\ \A j \in Forks : Disowned(procs[j]) => j = i
    BY <1>3, <1>7, OneStarts
  <2> HIDE DEF q
  <2>5. Become(i, q) /\ ~Disowned(q) /\ q.child # "none"
    BY <1>7, <2>2, <2>3 DEF q, Disowned, Alive
  <2>6. /\ scheduler' \in [status : {"exited", "creating", "running"}, app : {0, i}]
        /\ scheduler'.status = "exited" /\ scheduler'.app # i
    BY <1>1, <1>7 DEF Exited
  <2> QED
    BY <2>2, <2>4, <2>5, <2>6, ToldStep
<1>8. CASE m \in {"ready", "error"} /\ Become(i, r) /\ UNCHANGED scheduler
  BY <1>1, <1>2, <1>8, DropKept
<1>9. CASE m = "ping" /\ Become(i, Ping(r)) /\ UNCHANGED scheduler
  BY <1>1, <1>2, <1>9, PingKept
<1>10. CASE m = "subscribe" /\ Become(i, [r EXCEPT !.subscribed = TRUE]) /\ UNCHANGED scheduler
  BY <1>1, <1>2, <1>10, SubscribeKept
<1>11. CASE m = "invoke" /\ Become(i, [r EXCEPT !.call = "working"]) /\ UNCHANGED scheduler
  BY <1>1, <1>2, <1>11, WorkKept
<1>12. ASSUME m \in {"initiating", "ready", "error"}, OnStatus(i, r, m) PROVE ExtAppIInv'
  <2>1. CASE m = "initiating"
    BY <1>5, <1>12, <2>1 DEF OnStatus
  <2>2. CASE m = "ready" /\ r.waits
    BY <1>6, <1>12, <2>2 DEF OnStatus
  <2>3. CASE m = "error" /\ r.waits
    BY <1>7, <1>12, <2>3 DEF OnStatus
  <2>4. CASE m \in {"ready", "error"} /\ ~r.waits
    BY <1>8, <1>12, <2>4 DEF OnStatus
  <2> QED
    BY <1>12, <2>1, <2>2, <2>3, <2>4
<1> QED
  BY <1>4, <1>9, <1>10, <1>11, <1>12 DEF OnMessage

LEMMA TimerSteps ==
    ASSUME ExtAppIInv, NEW i \in Forks,
           Answer(i) \/ StartTimerFires(i) \/ NotResponding(i) \/ KillTimerFires(i) \/ HandleExit(i)
    PROVE  ExtAppIInv'
<1> DEFINE p == procs[i]
<1>1. Kept(p) /\ p \in Process /\ i # 0
  BY ExtFacts
<1>2. ASSUME NEW q, Become(i, q), Kept(q), q.waits = p.waits, q.child = p.child,
             Disowned(q) => Disowned(p), UNCHANGED scheduler
      PROVE  ExtAppIInv'
  BY <1>2, QuietStep
<1>3. CASE Answer(i)
  BY <1>1, <1>2, <1>3, AnswerKept DEF Answer
<1>4. CASE StartTimerFires(i)
  <2> DEFINE q == [Settle(p, "failed") EXCEPT !.receives = FALSE, !.killed = TRUE]
  <2>1. p.waits
    BY <1>1, <1>4 DEF StartTimerFires, Kept, StartKept, DueTick, Off
  <2>2. Kept(q) /\ ~q.waits /\ q.child = p.child /\ ~Disowned(q)
    BY <1>1, <2>1, StartTimerKept
  <2>3. p.child # "none"
    BY <1>1, <2>1, SettleForm
  <2>4. /\ \A j \in Forks : procs[j].waits => j = i
        /\ \A j \in Forks : Disowned(procs[j]) => j = i
    BY <2>1, OneStarts
  <2> HIDE DEF q
  <2>5. Become(i, q)
    BY <1>4 DEF StartTimerFires, q
  <2>6. /\ scheduler' \in [status : {"exited", "creating", "running"}, app : {0, i}]
        /\ scheduler'.status = "exited" /\ scheduler'.app # i
    BY <1>1, <1>4 DEF StartTimerFires, Exited
  <2> QED
    BY <2>2, <2>3, <2>4, <2>5, <2>6, ToldStep
<1>5. CASE NotResponding(i)
  BY <1>1, <1>2, <1>5, OverdueKept DEF NotResponding
<1>6. CASE KillTimerFires(i)
  BY <1>1, <1>2, <1>6, KillTimerKept DEF KillTimerFires
<1>7. CASE HandleExit(i)
  <2> DEFINE r == [p EXCEPT !.exited = TRUE]
             q == IF r.waits THEN Settle(r, "failed") ELSE r
  <2>1. r.child = p.child /\ r.waits = p.waits
    BY <1>1 DEF Process
  <2>2. /\ Become(i, q) /\ p.child = "dead"
        /\ scheduler' = IF p.waits \/ scheduler.app = i THEN Exited ELSE scheduler
    BY <1>7, <2>1 DEF HandleExit
  <2>3. Kept(q) /\ ~q.waits /\ q.child = "dead"
    BY <1>1, <2>2, ExitKept
  <2> HIDE DEF q
  <2>4. ~Disowned(q)
    BY <2>3 DEF Disowned, Alive
  <2>5. CASE p.waits \/ scheduler.app = i
    <3>1. /\ \A j \in Forks : procs[j].waits => j = i
          /\ \A j \in Forks : Disowned(procs[j]) => j = i
      BY <2>5, OneStarts
    <3>2. /\ scheduler' \in [status : {"exited", "creating", "running"}, app : {0, i}]
          /\ scheduler'.status = "exited" /\ scheduler'.app # i
      BY <1>1, <2>2, <2>5 DEF Exited
    <3> QED
      BY <2>2, <2>3, <2>4, <3>1, <3>2, ToldStep
  <2>6. CASE ~(p.waits \/ scheduler.app = i)
    <3>1. UNCHANGED scheduler
      BY <2>2, <2>6
    <3> QED
      BY <2>2, <2>3, <2>4, <3>1, QuietStep
  <2> QED
    BY <2>5, <2>6
<1> QED
  BY <1>3, <1>4, <1>5, <1>6, <1>7

LEMMA DestructStep ==
    ASSUME ExtAppIInv, DestructApp
    PROVE  ExtAppIInv'
<1> DEFINE i == scheduler.app
           p == procs[i]
           q == [p EXCEPT !.dying = ~p.exited]
<1>1. SchedulerKept(procs, scheduler) /\ scheduler.status = "running"
  BY DEF ExtAppIInv, DestructApp
<1>2. i \in Forks /\ p.child # "none" /\ ~p.waits
  BY <1>1 DEF SchedulerKept
<1>3. Kept(p) /\ p \in Process /\ procs \in [Forks -> Process]
  BY <1>2, ExtFacts DEF ExtAppIInv
<1>4. Kept(q) /\ q.waits = p.waits /\ q.child = p.child
  BY <1>2, <1>3, DestructKept
<1>5. procs' = [procs EXCEPT ![i] = q] /\ scheduler' = [scheduler EXCEPT !.status = "destructing"]
  BY <1>2, <1>3 DEF DestructApp, Become
<1>6. q \in Process
  BY <1>4, KeptGives
<1>7. /\ scheduler'.app = i /\ scheduler'.status = "destructing"
      /\ scheduler' \in [status : {"exited", "creating", "running", "destructing"},
                         app : 0 .. MaxForks]
  BY <1>1, <1>5 DEF SchedulerKept
<1> HIDE DEF q, i
<1>8. /\ procs' \in [Forks -> Process] /\ procs'[i] = q
      /\ \A j \in Forks : j # i => procs'[j] = procs[j]
  BY <1>2, <1>3, <1>5, <1>6
<1>9. \A j \in Forks : ~procs[j].waits /\ (Disowned(procs[j]) => j = i)
  BY <1>1 DEF SchedulerKept, i
<1>10. \A j \in Forks : ~procs'[j].waits /\ (Disowned(procs'[j]) => j = i)
  BY <1>2, <1>4, <1>8, <1>9
<1>11. SchedulerKept(procs', scheduler')
  BY <1>2, <1>4, <1>7, <1>8, <1>10 DEF SchedulerKept
<1>12. \A j \in Forks : Kept(procs'[j])
  BY <1>4, <1>8 DEF ExtAppIInv
<1> QED
  BY <1>8, <1>11, <1>12 DEF ExtAppIInv

LEMMA TimePassesStep ==
    ASSUME ExtAppIInv, TimePasses
    PROVE  ExtAppIInv'
<1> DEFINE next(j) == LET p == [procs[j] EXCEPT !.startTimer = Later(@), !.pingTimer = Later(@)]
                      IN  IF Works(p) /\ p.child # "loading" THEN Reports(p, <<"ping">>) ELSE p
<1>1. ASSUME NEW j \in Forks
      PROVE  /\ Kept(next(j)) /\ next(j).waits = procs[j].waits
             /\ next(j).child = procs[j].child /\ (Disowned(next(j)) => Disowned(procs[j]))
             /\ next(j) \in Process
  <2>1. /\ Kept(procs[j]) /\ procs[j].toVuid = <<>> /\ procs[j].startTimer # DueTick
        /\ procs[j].pingTimer # DueTick
    BY ExtFacts DEF TimePasses
  <2>2. /\ Kept(next(j)) /\ next(j).waits = procs[j].waits
        /\ next(j).child = procs[j].child /\ (Disowned(next(j)) => Disowned(procs[j]))
    BY <2>1, TickKept
  <2> HIDE DEF next
  <2> QED
    BY <2>2, KeptGives
<1>2. procs' = [j \in Forks |-> next(j)] /\ UNCHANGED scheduler
  BY DEF TimePasses
<1> HIDE DEF next
<1>3. \A j \in Forks : procs'[j] = next(j)
  BY <1>2
<1>4. procs' \in [Forks -> Process] /\ \A j \in Forks : Kept(procs'[j])
  BY <1>1, <1>2, <1>3
<1>5. SchedulerKept(procs, scheduler)
  BY DEF ExtAppIInv
<1>6. /\ \A j \in Forks : procs'[j].waits = procs[j].waits
      /\ \A j \in Forks : Disowned(procs'[j]) => Disowned(procs[j])
      /\ \A j \in Forks : procs'[j].child = procs[j].child
  BY <1>1, <1>3
<1>7. SchedulerKept(procs', scheduler')
  BY <1>2, <1>5, <1>6 DEF SchedulerKept
<1> QED
  BY <1>4, <1>7 DEF ExtAppIInv

LEMMA ExtAppInductive == ExtAppIInv /\ [ExtAppNext]_extVars => ExtAppIInv'
<1> SUFFICES ASSUME ExtAppIInv, [ExtAppNext]_extVars PROVE ExtAppIInv'
  OBVIOUS
<1>1. CASE UNCHANGED extVars
  BY <1>1 DEF extVars, ExtAppIInv
<1>2. CASE DestructApp
  BY <1>2, DestructStep
<1>3. CASE TimePasses
  BY <1>3, TimePassesStep
<1>4. ASSUME NEW i \in Forks,
             \/ LoadApp(i) \/ Read(i) \/ Listen(i) \/ Invoke(i) \/ Hang(i) \/ GoOn(i)
             \/ ProcessDies(i) \/ ForkApp(i) \/ RuntimeSteps(i) \/ Answer(i)
      PROVE  ExtAppIInv'
  BY <1>4, ProcessSteps, ForkStep, OnMessageStep, TimerSteps DEF RuntimeSteps
<1> QED
  BY <1>1, <1>2, <1>3, <1>4 DEF ExtAppNext

LEMMA ExtAppIInvGives == ExtAppIInv => ExtAppInv
<1> SUFFICES ASSUME ExtAppIInv PROVE ExtAppInv
  OBVIOUS
<1>1. ASSUME NEW i \in Forks
      PROVE  /\ Kept(procs[i]) /\ procs[i] \in Process /\ Len(procs[i].toVuid) <= 4
             /\ Len(procs[i].toApp) <= 2 /\ procs[i].settled <= 1 /\ procs[i].heard <= 1
  BY ExtFacts, KeptGives
<1>2. SchedulerKept(procs, scheduler) /\ procs \in [Forks -> Process]
  BY DEF ExtAppIInv
<1>3. ExtAppTypeOK
  BY <1>1, <1>2 DEF ExtAppTypeOK, SchedulerKept
<1>4. SettledOnce
  BY <1>1 DEF SettledOnce
<1>5. NoneForgotten
  BY <1>2 DEF NoneForgotten, SchedulerKept, Disowned
<1>6. CreateIsHeard
  <2>1. ASSUME NEW i \in Forks, procs[i].child = "up", procs[i].early,
               procs[i].outcome = "ready", procs[i].toApp = <<>>, ~procs[i].killed
        PROVE  procs[i].heard = 1
    BY <1>1, <2>1, NoMessage DEF Kept, Launch
  <2> QED
    BY <1>1, <2>1 DEF CreateIsHeard
<1>7. RespondingSurvives
  <2>1. DueTick # FifteenSeconds /\ DueTick # 3 /\ DueTick # Off
    BY DEF DueTick, FifteenSeconds, Off
  <2> QED
    BY <1>1, <2>1 DEF RespondingSurvives, Kept, PingsArrive
<1> QED
  BY <1>3, <1>4, <1>5, <1>6, <1>7 DEF ExtAppInv

\* The start of a process is settled once, whether its report, its exit or the
\* timer of the start comes first; no process that lives is forgotten; an app
\* that listens to 'create' from its launch hears it, and no one twice; and a
\* process that never hung is not killed for not responding: for any number of
\* processes, one after the other, and whatever they fail at.
THEOREM ProcessesKept == ExtAppSpec => []ExtAppInv
<1>1. ExtAppInit => ExtAppIInv
  <2> SUFFICES ASSUME ExtAppInit PROVE ExtAppIInv
    OBVIOUS
  <2>1. procs = [i \in Forks |-> Unborn] /\ scheduler = [status |-> "exited", app |-> 0]
    BY DEF ExtAppInit
  <2>2. \A i \in Forks : procs[i] = Unborn
    BY <2>1
  <2>3. 0 \in 0 .. MaxForks
    BY ExtAppAssumption
  <2>4. SchedulerKept(procs, scheduler)
    BY <2>1, <2>2, <2>3, UnbornKept DEF SchedulerKept
  <2> QED
    BY <2>1, <2>2, <2>4, UnbornKept DEF ExtAppIInv
<1> QED
  BY <1>1, ExtAppInductive, ExtAppIInvGives, PTL DEF ExtAppSpec

=============================================================================
