---------------------------- MODULE DaemonProofs ----------------------------
(***************************************************************************)
(* What the runs of DaemonMC show for two processes and two clients, for   *)
(* any number of them and any number of troubles: the types, and that the  *)
(* socket leads to the daemon that serves, that a launch which went well   *)
(* holds, and that a shutdown reported as done has been done.              *)
(*                                                                         *)
(* Steps fall into four kinds: clients and handlers that are calm about    *)
(* processes and socket, processes that end, that move on, and that come.  *)
(* What each kind does comes first; then each part of the inductive        *)
(* invariant is kept by all of them.                                       *)
(***************************************************************************)
EXTENDS Daemon, TLAPS

StageOK == stage \in [Daemons -> Stages]

\* A request that is handled has a process that handles it.
Handled == \A c \in Clients :
    handler[c] # "none" => to[c] # Nobody /\ stage[to[c]] \in {"serving", "closing"}

\* The socket.  Unless two processes take it together, one at a time is past its
\* first look; what it has found out then stays true until it acts on it.
Past == {"dial", "remove", "bind", "listen", "chmod"}

OneTakes == ~raced =>
    \A d, e \in Daemons : stage[d] \in Past /\ stage[e] \in Past => d = e

PathLeads == \A d \in Daemons : path = d => stage[d] \in {"listen", "chmod", "serving"}

PathHeld == ~raced => \A d \in Daemons :
    /\ stage[d] \in {"listen", "chmod", "serving"} => path = d
    /\ stage[d] = "bind" => path = Nobody
    /\ stage[d] = "remove" => ~Reachable

\* Shutdowns.  A client that waits has a process that listened to it, and is
\* known to be cut short if that process has been signalled.
Requests ==
    /\ \A c \in Clients :
          /\ at[c] = "asked" => /\ to[c] \in Daemons
                                /\ stage[to[c]] \in {"chmod", "serving", "closing"}
                                /\ term[to[c]] => c \in cut
          /\ handler[c] = "done" => at[c] # "asked"
    /\ \A d \in Daemons :
          /\ quit[d] # "no" => stage[d] \in {"serving", "closing"}
          /\ stage[d] = "closing" => Stopping(d)

OneWorks == ~second => \A d, e \in Daemons : Working(d) /\ Working(e) => d = e

RacedIsSecond == raced => second

\* From the end of a Suspend to the end of the process databases run only where a
\* stop failed and was reported, or where Suspend and supervision let them.
Stopped(d) == databases = "suspended" \/ d \in left
Admitted   == \A c \in Clients : handler[c] = "admit" => to[c] \in left
Suspended  == ~second /\ ~unseen =>
    /\ \A c \in Clients : /\ handler[c] = "reply" => databases = "suspended"
                          /\ handler[c] = "done" => Stopped(to[c])
    /\ \A d \in Daemons : quit[d] # "no" => Stopped(d)

IInv == /\ TypeOK
        /\ OneTakes /\ PathLeads /\ PathHeld
        /\ Requests /\ OneWorks /\ RacedIsSecond /\ Admitted /\ Suspended
        /\ LaunchHolds /\ ShutdownTrue

-----------------------------------------------------------------------------
(***************************************************************************)
(* What clients and handlers leave alone, and what End does                *)
(***************************************************************************)
Calm(c) == \/ Accept(c) \/ Suspend(c) \/ Reply(c) \/ CloseQuit(c)
           \/ Poll(c) \/ GiveUp(c) \/ Launch(c) \/ AskShutdown(c) \/ HangUp(c)

\* They neither start nor end a process, nor touch the socket.
LEMMA CalmIsCalm ==
    ASSUME NEW c \in Clients, Calm(c)
    PROVE  UNCHANGED <<stage, term, path, raced, second>>
<1> USE DEF process, clients, history
<1>1. CASE Accept(c) BY <1>1 DEF Accept
<1>2. CASE Suspend(c) BY <1>2 DEF Suspend
<1>3. CASE Reply(c) BY <1>3 DEF Reply
<1>4. CASE CloseQuit(c) BY <1>4 DEF CloseQuit
<1>5. CASE Poll(c) BY <1>5 DEF Poll, Found
<1>6. CASE GiveUp(c) BY <1>6 DEF GiveUp
<1>7. CASE Launch(c) BY <1>7 DEF Launch, Found
<1>8. CASE AskShutdown(c) BY <1>8 DEF AskShutdown
<1>9. CASE HangUp(c) BY <1>9 DEF HangUp
<1> QED BY <1>1, <1>2, <1>3, <1>4, <1>5, <1>6, <1>7, <1>8, <1>9 DEF Calm

\* A trouble is one less.
LEMMA Spent ==
    ASSUME TypeOK, NEW f, Trouble(f)
    PROVE  troubles' \in 0..Troubles
BY DaemonAssumption DEF TypeOK, Trouble

\* What a Suspend does: it succeeds, or reports what it left, or is blind to it.
LEMMA SuspendDoes ==
    ASSUME TypeOK, NEW c \in Clients, Suspend(c)
    PROVE  /\ UNCHANGED <<installed, stage, term, quit, path, at, to, told, cut,
                          launched, raced, late, second>>
           /\ handler[c] = "suspend" /\ to[c] \in Daemons /\ troubles' \in 0..Troubles
           /\ handler' \in [Clients -> {"none", "suspend", "reply", "admit", "done"}]
           /\ \A x \in Clients \ {c} : handler'[x] = handler[x]
           /\ \/ /\ databases' = "suspended" /\ unseen' = FALSE /\ left' = left
                 /\ handler'[c] = "reply"
              \/ /\ UNCHANGED <<databases, unseen>> /\ left' = left \cup {to[c]}
                 /\ handler'[c] = "admit"
              \/ /\ UNCHANGED <<databases, left>> /\ unseen' = TRUE
                 /\ handler'[c] = "reply"
<1>0. /\ handler \in [Clients -> {"none", "suspend", "reply", "admit", "done"}]
      /\ troubles \in 0..Troubles /\ to[c] \in Daemons /\ handler[c] = "suspend"
  BY DEF TypeOK, Suspend
<1>1. UNCHANGED <<installed, stage, term, quit, path, at, to, told, cut,
                  launched, raced, late, second>>
  BY DEF Suspend
<1>2. CASE databases' = "suspended" /\ unseen' = FALSE /\ UNCHANGED <<troubles, left>>
           /\ handler' = [handler EXCEPT ![c] = "reply"]
  BY <1>0, <1>1, <1>2
<1>3. CASE /\ Trouble("stop") /\ UNCHANGED <<databases, unseen>>
           /\ handler' = [handler EXCEPT ![c] = "admit"] /\ left' = Unfinished(c)
  <2>1. troubles' \in 0..Troubles BY <1>3, Spent
  <2> QED BY <1>0, <1>1, <1>3, <2>1 DEF Unfinished
<1>4. CASE /\ Trouble("stop") /\ UNCHANGED <<databases, left>> /\ unseen' = TRUE
           /\ handler' = [handler EXCEPT ![c] = "reply"]
  <2>1. troubles' \in 0..Troubles BY <1>4, Spent
  <2> QED BY <1>0, <1>1, <1>4, <2>1
<1> QED BY <1>2, <1>3, <1>4 DEF Suspend

\* Who asks has no handler, and is all that changes its place.
LEMMA AskingIsNew ==
    ASSUME TypeOK, NEW c \in Clients, AskShutdown(c)
    PROVE  /\ UNCHANGED <<handler, quit, databases, left, unseen, second>> /\ handler[c] = "none"
           /\ \A x \in Clients \ {c} : to'[x] = to[x]
<1>1. to[c] = Nobody /\ UNCHANGED <<handler, quit, databases, left, unseen, second>>
  BY DEF AskShutdown, Free, process
<1>2. handler[c] = "none" /\ to \in [Clients -> Daemons \cup {Nobody}]
  BY <1>1 DEF TypeOK
<1>3. to' = to \/ to' = [to EXCEPT ![c] = path]
  BY DEF AskShutdown
<1> QED BY <1>1, <1>2, <1>3

\* An answer is one of the outcomes of a shutdown.
LEMMA AnswerTyped ==
    ASSUME NEW c
    PROVE  Answer(c) \in Outcomes \ {"dropped while up"}
BY DEF Answer, Outcomes

\* The ways a process ends.
Falls(d) == \/ BootFails(d) \/ Exit(d) \/ Kill(d)
            \/ Probe(d) /\ Answers(d)
            \/ Bind(d) /\ path # Nobody
            \/ Chmod(d) /\ path = Nobody

Ended(d) ==
    /\ \E code \in {"ok", "error", "killed"} : End(d, code)
    /\ UNCHANGED <<installed, databases, cut, raced, late, second>>
    /\ launched' \in {launched, FALSE}
    /\ path' # path => path = d /\ path' = "dead" /\ ~launched'
    /\ troubles' \in 0..Troubles

\* Each of them is an End, and does little more.
LEMMA FallIsEnd ==
    ASSUME TypeOK, NEW d \in Daemons, Falls(d)
    PROVE  Ended(d)
<1>1. troubles \in 0..Troubles BY DEF TypeOK
<1>2. CASE BootFails(d)
  <2>1. End(d, "error") BY <1>2 DEF BootFails
  <2> QED BY <1>1, <1>2, <2>1, Spent DEF BootFails, Ended
<1>3. CASE Exit(d)
  <2>1. End(d, "ok") BY <1>3 DEF Exit
  <2> QED BY <1>1, <1>3, <2>1 DEF Exit, Ended
<1>4. CASE Kill(d)
  <2>1. End(d, "killed") BY <1>4 DEF Kill
  <2> QED BY <1>4, <2>1, Spent DEF Kill, Ended
<1>5. CASE Probe(d) /\ Answers(d)
  <2>1. End(d, "error") /\ UNCHANGED <<cut, launched, raced, late, second>> BY <1>5 DEF Probe
  <2> QED BY <1>1, <1>5, <2>1 DEF Probe, Ended
<1>6. CASE Bind(d) /\ path # Nobody
  <2>1. End(d, "error") /\ UNCHANGED <<path, cut, launched, raced, late, second>> BY <1>6 DEF Bind
  <2> QED BY <1>1, <1>6, <2>1 DEF Bind, Ended
<1>7. CASE Chmod(d) /\ path = Nobody
  <2>1. End(d, "error") /\ UNCHANGED <<cut, launched, raced, late, second>> BY <1>7 DEF Chmod
  <2> QED BY <1>1, <1>7, <2>1 DEF Chmod, Ended
<1> QED BY <1>2, <1>3, <1>4, <1>5, <1>6, <1>7 DEF Falls

\* The types an end leaves.
LEMMA EndTyped ==
    ASSUME TypeOK, NEW d \in Daemons, NEW code, End(d, code)
    PROVE  /\ StageOK' /\ Handled'
           /\ term' \in [Daemons -> BOOLEAN] /\ quit' \in [Daemons -> {"no", "soon", "yes"}]
           /\ at' \in [Clients -> {"idle", "start", "poll", "asked"}]
           /\ to' \in [Clients -> Daemons \cup {Nobody}]
           /\ handler' \in [Clients -> {"none", "suspend", "reply", "admit", "done"}]
           /\ told' \in [Clients -> Outcomes]
           /\ left' \subseteq Daemons /\ unseen' \in BOOLEAN
<1> USE DEF TypeOK, End, Abandoned
<1>1. StageOK' BY DEF StageOK, Stages
<1>2. Handled' BY DaemonAssumption DEF Handled
<1>3. told' \in [Clients -> Outcomes]
  <2>1. \A c \in Clients : told[c] \in Outcomes OBVIOUS
  <2> QED BY <2>1 DEF Outcomes
<1>8. left' \subseteq Daemons /\ unseen' \in BOOLEAN OBVIOUS
<1>4. at' \in [Clients -> {"idle", "start", "poll", "asked"}] OBVIOUS
<1>5. handler' \in [Clients -> {"none", "suspend", "reply", "admit", "done"}] OBVIOUS
<1>6. to' \in [Clients -> Daemons \cup {Nobody}] OBVIOUS
<1>7. term' \in [Daemons -> BOOLEAN] /\ quit' \in [Daemons -> {"no", "soon", "yes"}] OBVIOUS
<1> QED BY <1>1, <1>2, <1>3, <1>4, <1>5, <1>6, <1>7, <1>8

\* The process that ends is off or failed; the others and their clients go on.
LEMMA FallSpares ==
    ASSUME TypeOK, NEW d \in Daemons, Falls(d)
    PROVE  /\ stage'[d] \in {"off", "failed"} /\ ~term'[d] /\ quit'[d] = "no"
           /\ \A e \in Daemons \ {d} :
                 stage'[e] = stage[e] /\ term'[e] = term[e] /\ quit'[e] = quit[e]
           /\ left' = left \ {d}
           /\ \A c \in Clients :
                 IF to[c] = d
                 THEN to'[c] = Nobody /\ handler'[c] = "none" /\ at'[c] # "asked"
                 ELSE /\ to'[c] = to[c] /\ handler'[c] = handler[c]
                      /\ at'[c] = at[c] /\ told'[c] = told[c]
<1>1. PICK code \in {"ok", "error", "killed"} : End(d, code) BY FallIsEnd DEF Ended
<1> QED BY <1>1 DEF End, Abandoned, TypeOK

\* It was at work.
LEMMA FallWorks ==
    ASSUME TypeOK, NEW d \in Daemons, Falls(d)
    PROVE  Working(d)
<1>1. CASE BootFails(d) BY <1>1 DEF BootFails, Working
<1>2. CASE Exit(d) BY <1>2 DEF Exit, Working
<1>3. CASE Kill(d) BY <1>3 DEF Kill, Working
<1>4. CASE Probe(d) /\ Answers(d) BY <1>4 DEF Probe, Working
<1>5. CASE Bind(d) /\ path # Nobody BY <1>5 DEF Bind, Working
<1>6. CASE Chmod(d) /\ path = Nobody BY <1>6 DEF Chmod, Working
<1> QED BY <1>1, <1>2, <1>3, <1>4, <1>5, <1>6 DEF Falls

\* So types survive it.
LEMMA FallTyped ==
    ASSUME TypeOK, NEW d \in Daemons, Falls(d)
    PROVE  TypeOK'
<1>1. PICK code \in {"ok", "error", "killed"} : End(d, code) BY FallIsEnd DEF Ended
<1> QED BY <1>1, FallIsEnd, EndTyped DEF Ended, TypeOK, StageOK, Handled

\* The socket never leads to a process that has ended.
LEMMA FallLeaves ==
    ASSUME TypeOK, PathLeads, NEW d \in Daemons, Falls(d)
    PROVE  path' # d
<1> USE DaemonAssumption DEF PathLeads
<1>1. CASE BootFails(d) BY <1>1 DEF BootFails
<1>2. CASE Exit(d) BY <1>2 DEF Exit
<1>3. CASE Kill(d) BY <1>3 DEF Kill
<1>4. CASE Probe(d) /\ Answers(d) BY <1>4 DEF Probe
<1>5. CASE Bind(d) /\ path # Nobody BY <1>5 DEF Bind
<1>6. CASE Chmod(d) /\ path = Nobody BY <1>6 DEF Chmod
<1> QED BY <1>1, <1>2, <1>3, <1>4, <1>5, <1>6 DEF Falls

\* A process starts, or finds what it would start at work already.
Comes == \/ \E d \in Daemons : ByHand(d)
         \/ \E c \in Clients : StartDaemon(c)
         \/ Restart

\* Either way the clients and the socket are left alone.
LEMMA ComesIsRun ==
    ASSUME TypeOK, Comes
    PROVE  /\ (\E d \in Daemons : Run(d)) \/ UNCHANGED <<process, second>>
           /\ UNCHANGED <<term, quit, path, databases, to, handler, told, cut, left, unseen, launched, raced, late>>
           /\ \A c \in Clients : at'[c] = "asked" <=> at[c] = "asked"
<1>1. ASSUME NEW d \in Daemons, ByHand(d)
      PROVE  /\ Run(d)
             /\ UNCHANGED <<term, quit, path, databases, at, to, handler, told, cut, left, unseen, launched, raced, late>>
  BY <1>1 DEF ByHand, Run, clients
<1>2. ASSUME NEW c \in Clients, StartDaemon(c)
      PROVE  /\ (\E d \in Daemons : Run(d)) \/ UNCHANGED <<process, second>>
             /\ UNCHANGED <<term, quit, path, databases, to, handler, told, cut, left, unseen, launched, raced, late>>
             /\ at[c] = "start" /\ at' = [at EXCEPT ![c] = "poll"]
  BY <1>2, DaemonAssumption DEF StartDaemon, Run, process
<1>3. CASE Restart
  BY <1>3, DaemonAssumption DEF Restart, Run, clients
<1>4. at \in [Clients -> {"idle", "start", "poll", "asked"}] BY DEF TypeOK
<1> QED BY <1>1, <1>2, <1>3, <1>4 DEF Comes

\* What a process does on its way to the socket and back.
Moves(d) == \/ Boot(d) \/ Stat(d) \/ RemoveStale(d) \/ Listen(d) \/ CloseListener(d)
            \/ Probe(d) /\ ~Answers(d)
            \/ Bind(d) /\ path = Nobody
            \/ Chmod(d) /\ path # Nobody

\* Every step is one of these.
LEMMA Cases ==
    ASSUME [Next]_vars
    PROVE  \/ \E c \in Clients : Calm(c)
           \/ \E d \in Daemons : Falls(d) \/ Moves(d) \/ Terminate(d) \/ Supervise(d)
           \/ Comes
           \/ UNCHANGED vars
<1>1. ASSUME NEW d \in Daemons, Probe(d) PROVE Falls(d) \/ Moves(d)
  BY <1>1 DEF Falls, Moves
<1>2. ASSUME NEW d \in Daemons, Bind(d) PROVE Falls(d) \/ Moves(d)
  BY <1>2 DEF Falls, Moves
<1>3. ASSUME NEW d \in Daemons, Chmod(d) PROVE Falls(d) \/ Moves(d)
  BY <1>3 DEF Falls, Moves
<1>4. ASSUME NEW d \in Daemons, DaemonStep(d) PROVE Falls(d) \/ Moves(d)
  BY <1>1, <1>2, <1>3, <1>4 DEF DaemonStep, Falls, Moves
<1>5. ASSUME NEW d \in Daemons, Kill(d) PROVE Falls(d)
  BY <1>5 DEF Falls
<1>6. ASSUME NEW c \in Clients, Handle(c) \/ Wait(c) PROVE Calm(c) \/ Comes
  BY <1>6 DEF Handle, Wait, Calm, Comes
<1> QED BY <1>4, <1>5, <1>6 DEF Next, Calm, Comes

\* Who takes the socket: an end frees the place, Stat is the only way in, and a
\* second one that comes in is a race.
LEMMA TakesKept ==
    ASSUME TypeOK, OneTakes, [Next]_vars
    PROVE  OneTakes'
<1> USE DaemonAssumption DEF OneTakes, Past, Taking, Stages
<1>0. stage \in [Daemons -> Stages] BY DEF TypeOK
<1>1. ASSUME NEW c \in Clients, Calm(c) PROVE OneTakes'
  BY <1>1, CalmIsCalm
<1>2. ASSUME NEW d \in Daemons, Falls(d) PROVE OneTakes'
  BY <1>2, FallIsEnd, FallSpares DEF Ended
<1>3. ASSUME NEW d \in Daemons, Moves(d) PROVE OneTakes'
  <2>1. CASE Boot(d)
    BY <1>0, <2>1 DEF Boot, history
  <2>2. CASE Stat(d)
    <3>1. Past \subseteq Taking BY DEF Past, Taking
    <3>2. \A e \in Daemons \ {d} : stage'[e] = stage[e] BY <1>0, <2>2 DEF Stat
    <3>3. ~raced' => \A e \in Daemons \ {d} : stage[e] \notin Taking BY <2>2 DEF Stat
    <3> QED BY <3>1, <3>2, <3>3
  <2>3. CASE Probe(d) /\ ~Answers(d)
    BY <1>0, <2>3 DEF Probe, Answers, history
  <2>4. CASE RemoveStale(d)
    BY <1>0, <2>4 DEF RemoveStale, Removed, history
  <2>5. CASE Bind(d) /\ path = Nobody
    BY <1>0, <2>5 DEF Bind, history
  <2>6. CASE Listen(d)
    BY <1>0, <2>6 DEF Listen, history
  <2>7. CASE Chmod(d) /\ path # Nobody
    BY <1>0, <2>7 DEF Chmod, history
  <2>8. CASE CloseListener(d)
    BY <1>0, <2>8 DEF CloseListener, history
  <2> QED BY <1>3, <2>1, <2>2, <2>3, <2>4, <2>5, <2>6, <2>7, <2>8 DEF Moves
<1>4. ASSUME NEW d \in Daemons, Terminate(d) PROVE OneTakes'
  BY <1>0, <1>4 DEF Terminate, process, clients, history
<1>5. CASE Comes
  BY <1>0, <1>5, ComesIsRun DEF Run, process, Working
<1>7. ASSUME NEW d \in Daemons, Supervise(d) PROVE OneTakes'
  BY <1>7 DEF Supervise, clients
<1>6. CASE UNCHANGED vars
  BY <1>6 DEF vars, process, clients, history
<1> QED BY <1>1, <1>2, <1>3, <1>4, <1>5, <1>6, <1>7, Cases

\* Where the socket leads: only Bind makes it lead to a process.
LEMMA LeadsKept ==
    ASSUME TypeOK, PathLeads, [Next]_vars
    PROVE  PathLeads'
<1> USE DaemonAssumption DEF PathLeads
<1>0. stage \in [Daemons -> Stages] BY DEF TypeOK
<1>1. ASSUME NEW c \in Clients, Calm(c) PROVE PathLeads'
  BY <1>1, CalmIsCalm
<1>2. ASSUME NEW d \in Daemons, Falls(d) PROVE PathLeads'
  <2>1. path' # d BY <1>2, FallLeaves
  <2>2. path' # path => path = d /\ path' = "dead" BY <1>2, FallIsEnd DEF Ended
  <2>3. \A e \in Daemons \ {d} : stage'[e] = stage[e] BY <1>2, FallSpares
  <2> QED BY <2>1, <2>2, <2>3
<1>3. ASSUME NEW d \in Daemons, Moves(d) PROVE PathLeads'
  <2>1. CASE Boot(d)
    BY <1>0, <2>1 DEF Boot, history
  <2>2. CASE Stat(d)
    BY <1>0, <2>2 DEF Stat, Taking, Past, history
  <2>3. CASE Probe(d) /\ ~Answers(d)
    BY <1>0, <2>3 DEF Probe, Answers, history
  <2>4. CASE RemoveStale(d)
    BY <1>0, <2>4 DEF RemoveStale, Removed, history
  <2>5. CASE Bind(d) /\ path = Nobody
    BY <1>0, <2>5 DEF Bind, history
  <2>6. CASE Listen(d)
    BY <1>0, <2>6 DEF Listen, history
  <2>7. CASE Chmod(d) /\ path # Nobody
    BY <1>0, <2>7 DEF Chmod, history
  <2>8. CASE CloseListener(d)
    BY <1>0, <2>8 DEF CloseListener, history
  <2> QED BY <1>3, <2>1, <2>2, <2>3, <2>4, <2>5, <2>6, <2>7, <2>8 DEF Moves
<1>4. ASSUME NEW d \in Daemons, Terminate(d) PROVE PathLeads'
  BY <1>0, <1>4 DEF Terminate, process, clients, history
<1>5. CASE Comes
  BY <1>0, <1>5, ComesIsRun DEF Run, process, Working
<1>7. ASSUME NEW d \in Daemons, Supervise(d) PROVE PathLeads'
  BY <1>7 DEF Supervise, clients
<1>6. CASE UNCHANGED vars
  BY <1>6 DEF vars, process, clients, history
<1> QED BY <1>1, <1>2, <1>3, <1>4, <1>5, <1>6, <1>7, Cases

\* What a process has found out of the socket stays true until it acts on it:
\* nobody else is on the way, and those who have left it lead nowhere.
LEMMA HeldKept ==
    ASSUME TypeOK, OneTakes, PathLeads, PathHeld, [Next]_vars
    PROVE  PathHeld'
<1> USE DaemonAssumption DEF OneTakes, PathLeads, PathHeld, Past, Taking, Reachable, Listening
<1>0. stage \in [Daemons -> Stages] BY DEF TypeOK
<1>1. ASSUME NEW c \in Clients, Calm(c) PROVE PathHeld'
  BY <1>1, CalmIsCalm
<1>2. ASSUME NEW d \in Daemons, Falls(d) PROVE PathHeld'
  <2>1. path' # d BY <1>2, FallLeaves
  <2>2. path' # path => path = d /\ path' = "dead" BY <1>2, FallIsEnd DEF Ended
  <2>3. \A e \in Daemons \ {d} : stage'[e] = stage[e] BY <1>2, FallSpares
  <2>4. stage'[d] \in {"off", "failed"} BY <1>2, FallSpares
  <2>5. raced' = raced BY <1>2, FallIsEnd DEF Ended
  <2>6. Reachable' => Reachable BY <2>1, <2>2, <2>3
  <2> QED BY <2>1, <2>2, <2>3, <2>4, <2>5, <2>6
<1>3. ASSUME NEW d \in Daemons, Moves(d) PROVE PathHeld'
  <2>1. CASE Boot(d)
    BY <1>0, <2>1 DEF Boot, history
  <2>2. CASE Stat(d)
    BY <1>0, <2>2 DEF Stat, Taking, Past, history
  <2>3. CASE Probe(d) /\ ~Answers(d)
    BY <1>0, <2>3 DEF Probe, Answers, history
  <2>4. CASE RemoveStale(d)
    BY <1>0, <2>4 DEF RemoveStale, Removed, history
  <2>5. CASE Bind(d) /\ path = Nobody
    BY <1>0, <2>5 DEF Bind, history
  <2>6. CASE Listen(d)
    BY <1>0, <2>6 DEF Listen, history
  <2>7. CASE Chmod(d) /\ path # Nobody
    BY <1>0, <2>7 DEF Chmod, history
  <2>8. CASE CloseListener(d)
    BY <1>0, <2>8 DEF CloseListener, history
  <2> QED BY <1>3, <2>1, <2>2, <2>3, <2>4, <2>5, <2>6, <2>7, <2>8 DEF Moves
<1>4. ASSUME NEW d \in Daemons, Terminate(d) PROVE PathHeld'
  BY <1>0, <1>4 DEF Terminate, process, clients, history
<1>5. CASE Comes
  BY <1>0, <1>5, ComesIsRun DEF Run, process, Working
<1>7. ASSUME NEW d \in Daemons, Supervise(d) PROVE PathHeld'
  BY <1>7 DEF Supervise, clients
<1>6. CASE UNCHANGED vars
  BY <1>6 DEF vars, process, clients, history
<1> QED BY <1>1, <1>2, <1>3, <1>4, <1>5, <1>6, <1>7, Cases

\* One process works: Run tells of a second.
LEMMA WorksKept ==
    ASSUME TypeOK, OneWorks, [Next]_vars
    PROVE  OneWorks'
<1> USE DaemonAssumption DEF OneWorks, Working, Stages, Taking
<1>0. stage \in [Daemons -> Stages] BY DEF TypeOK
<1>1. ASSUME NEW c \in Clients, Calm(c) PROVE OneWorks'
  BY <1>1, CalmIsCalm
<1>2. ASSUME NEW d \in Daemons, Falls(d) PROVE OneWorks'
  BY <1>2, FallIsEnd, FallSpares DEF Ended
<1>3. ASSUME NEW d \in Daemons, Moves(d) PROVE OneWorks'
  <2>1. CASE Boot(d)
    BY <1>0, <2>1 DEF Boot, history
  <2>2. CASE Stat(d)
    BY <1>0, <2>2 DEF Stat, Taking, Past, history
  <2>3. CASE Probe(d) /\ ~Answers(d)
    BY <1>0, <2>3 DEF Probe, Answers, history
  <2>4. CASE RemoveStale(d)
    BY <1>0, <2>4 DEF RemoveStale, Removed, history
  <2>5. CASE Bind(d) /\ path = Nobody
    BY <1>0, <2>5 DEF Bind, history
  <2>6. CASE Listen(d)
    BY <1>0, <2>6 DEF Listen, history
  <2>7. CASE Chmod(d) /\ path # Nobody
    BY <1>0, <2>7 DEF Chmod, history
  <2>8. CASE CloseListener(d)
    BY <1>0, <2>8 DEF CloseListener, history
  <2> QED BY <1>3, <2>1, <2>2, <2>3, <2>4, <2>5, <2>6, <2>7, <2>8 DEF Moves
<1>4. ASSUME NEW d \in Daemons, Terminate(d) PROVE OneWorks'
  BY <1>0, <1>4 DEF Terminate, process, clients, history
<1>5. CASE Comes
  <2>1. (\E d \in Daemons : Run(d)) \/ UNCHANGED <<process, second>> BY <1>5, ComesIsRun
  <2>2. CASE UNCHANGED <<process, second>> BY <2>2 DEF process
  <2>3. ASSUME NEW d \in Daemons, Run(d) PROVE OneWorks'
    <3>1. /\ \A e \in Daemons \ {d} : stage'[e] = stage[e]
          /\ ~second' => ~second /\ \A e \in Daemons \ {d} : ~Working(e)
      BY <1>0, <2>3 DEF Run
    <3> QED BY <3>1
  <2> QED BY <2>1, <2>2, <2>3
<1>7. ASSUME NEW d \in Daemons, Supervise(d) PROVE OneWorks'
  BY <1>7 DEF Supervise, clients
<1>6. CASE UNCHANGED vars
  BY <1>6 DEF vars, process, clients, history
<1> QED BY <1>1, <1>2, <1>3, <1>4, <1>5, <1>6, <1>7, Cases

\* Two that take the socket both work.
LEMMA RacedKept ==
    ASSUME TypeOK, OneWorks, RacedIsSecond, [Next]_vars
    PROVE  RacedIsSecond'
<1> USE DaemonAssumption DEF OneWorks, RacedIsSecond, Working, Taking
<1>0. stage \in [Daemons -> Stages] BY DEF TypeOK
<1>1. ASSUME NEW c \in Clients, Calm(c) PROVE RacedIsSecond'
  BY <1>1, CalmIsCalm
<1>2. ASSUME NEW d \in Daemons, Falls(d) PROVE RacedIsSecond'
  BY <1>2, FallIsEnd, FallSpares DEF Ended
<1>3. ASSUME NEW d \in Daemons, Moves(d) PROVE RacedIsSecond'
  <2>1. CASE Boot(d)
    BY <1>0, <2>1 DEF Boot, history
  <2>2. CASE Stat(d)
    BY <1>0, <2>2 DEF Stat, Taking, Past, history
  <2>3. CASE Probe(d) /\ ~Answers(d)
    <3>1. UNCHANGED <<raced, second>> BY <2>3 DEF Probe, history
    <3> QED BY <3>1
  <2>4. CASE RemoveStale(d)
    BY <1>0, <2>4 DEF RemoveStale, Removed, history
  <2>5. CASE Bind(d) /\ path = Nobody
    BY <1>0, <2>5 DEF Bind, history
  <2>6. CASE Listen(d)
    BY <1>0, <2>6 DEF Listen, history
  <2>7. CASE Chmod(d) /\ path # Nobody
    <3>1. UNCHANGED <<raced, second>> BY <2>7 DEF Chmod, history
    <3> QED BY <3>1
  <2>8. CASE CloseListener(d)
    BY <1>0, <2>8 DEF CloseListener, history
  <2> QED BY <1>3, <2>1, <2>2, <2>3, <2>4, <2>5, <2>6, <2>7, <2>8 DEF Moves
<1>4. ASSUME NEW d \in Daemons, Terminate(d) PROVE RacedIsSecond'
  BY <1>0, <1>4 DEF Terminate, process, clients, history
<1>5. CASE Comes
  BY <1>0, <1>5, ComesIsRun DEF Run, process, Working
<1>7. ASSUME NEW d \in Daemons, Supervise(d) PROVE RacedIsSecond'
  BY <1>7 DEF Supervise, clients
<1>6. CASE UNCHANGED vars
  BY <1>6 DEF vars, process, clients, history
<1> QED BY <1>1, <1>2, <1>3, <1>4, <1>5, <1>6, <1>7, Cases

\* A process on its way leaves the clients alone.
LEMMA MovesAlone ==
    ASSUME NEW d \in Daemons, Moves(d)
    PROVE  UNCHANGED <<installed, term, quit, at, to, handler, troubles, told, cut, left, unseen,
                     launched, late, second>>
<1> USE DEF clients, history
<1>1. CASE Boot(d) BY <1>1 DEF Boot
<1>2. CASE Stat(d) BY <1>2 DEF Stat
<1>3. CASE Probe(d) /\ ~Answers(d) BY <1>3 DEF Probe, Answers
<1>4. CASE RemoveStale(d) BY <1>4 DEF RemoveStale, Removed
<1>5. CASE Bind(d) /\ path = Nobody BY <1>5 DEF Bind
<1>6. CASE Listen(d) BY <1>6 DEF Listen
<1>7. CASE Chmod(d) /\ path # Nobody BY <1>7 DEF Chmod
<1>8. CASE CloseListener(d) BY <1>8 DEF CloseListener
<1> QED BY <1>1, <1>2, <1>3, <1>4, <1>5, <1>6, <1>7, <1>8 DEF Moves

\* It stays at work, and closes only when it has to stop.
LEMMA MovesOn ==
    ASSUME TypeOK, NEW d \in Daemons, Moves(d)
    PROVE  /\ stage' \in [Daemons -> Stages]
           /\ \A e \in Daemons \ {d} : stage'[e] = stage[e]
           /\ stage[d] \in {"serving", "closing"} =>
                 stage[d] = "serving" /\ Stopping(d) /\ stage'[d] = "closing"
           /\ stage'[d] \notin {"off", "failed", "boot"} /\ Working(d)
           /\ stage'[d] = "closing" => stage[d] = "serving" /\ Stopping(d)
           /\ stage[d] = "chmod" => stage'[d] = "serving"
           /\ path' \in {path, d, Nobody}
           /\ databases' \in {databases, "running"} /\ raced' \in BOOLEAN /\ (raced => raced')
           /\ stage[d] # "boot" => databases' = databases
<1>0. /\ stage \in [Daemons -> Stages] /\ raced \in BOOLEAN
      /\ databases \in {"running", "suspended"} BY DEF TypeOK
<1> USE <1>0 DEF Stages, Taking, Working, history
<1>1. CASE Boot(d)
  BY <1>1 DEF Boot
<1>2. CASE Stat(d)
  BY <1>2 DEF Stat
<1>3. CASE Probe(d) /\ ~Answers(d)
  BY <1>3 DEF Probe, Answers
<1>4. CASE RemoveStale(d)
  BY <1>4 DEF RemoveStale, Removed
<1>5. CASE Bind(d) /\ path = Nobody
  BY <1>5 DEF Bind
<1>6. CASE Listen(d)
  BY <1>6 DEF Listen
<1>7. CASE Chmod(d) /\ path # Nobody
  BY <1>7 DEF Chmod
<1>8. CASE CloseListener(d)
  BY <1>8 DEF CloseListener
<1> QED BY <1>1, <1>2, <1>3, <1>4, <1>5, <1>6, <1>7, <1>8 DEF Moves

\* Types.
LEMMA TypeKept ==
    ASSUME TypeOK, [Next]_vars
    PROVE  TypeOK'
<1> USE DaemonAssumption DEF TypeOK
<1>1. ASSUME NEW c \in Clients, Calm(c) PROVE TypeOK'
  <2>1. CASE Accept(c)
    BY <2>1 DEF Accept, QuitBefore, process, clients, history
  <2>2. CASE Suspend(c)
    <3>1. /\ UNCHANGED <<installed, stage, term, quit, path, at, to, told, cut,
                         launched, raced, late, second>>
          /\ handler[c] = "suspend" /\ to[c] \in Daemons /\ troubles' \in 0..Troubles
          /\ handler' \in [Clients -> {"none", "suspend", "reply", "admit", "done"}]
          /\ \A x \in Clients \ {c} : handler'[x] = handler[x]
          /\ left' \in {left, left \cup {to[c]}} /\ unseen' \in {unseen, TRUE, FALSE}
          /\ databases' \in {databases, "suspended"}
      BY <2>2, SuspendDoes
    <3>2. left' \subseteq Daemons /\ unseen' \in BOOLEAN /\ databases' \in {"running", "suspended"}
      BY <3>1
    <3>3. \A x \in Clients : handler'[x] # "none" => to[x] # Nobody /\ stage[to[x]] \in {"serving", "closing"}
      BY <3>1
    <3> QED BY <3>1, <3>2, <3>3
  <2>3. CASE Reply(c)
    <3>1. CASE at[c] = "asked"
      <4>1. told' = [told EXCEPT ![c] = Answer(c)] /\ Answer(c) \in Outcomes
        BY <2>3, <3>1, AnswerTyped DEF Reply
      <4> QED BY <2>3, <3>1, <4>1 DEF Reply
    <3>2. CASE at[c] # "asked"
      BY <2>3, <3>2 DEF Reply
    <3> QED BY <3>1, <3>2
  <2>4. CASE CloseQuit(c)
    BY <2>4 DEF CloseQuit, process, clients, history
  <2>5. CASE Poll(c)
    BY <2>5 DEF Poll, Found, Forget, Outcomes, process
  <2>6. CASE GiveUp(c)
    BY <2>6 DEF GiveUp, process, clients, history
  <2>7. CASE Launch(c)
    <3>1. CASE Found(c)
      BY <3>1 DEF Found, Forget, Outcomes, process
    <3>2. CASE ~Reachable
      <4>1. /\ at' = [at EXCEPT ![c] = "start"]
            /\ told' = [told EXCEPT ![c] = "nothing"] /\ cut' = cut \ {c}
            /\ UNCHANGED <<installed, stage, term, quit, path, databases, to, handler,
                           troubles, left, unseen, launched, raced, late, second>>
        BY <2>7, <3>2 DEF Launch, Forget, process
      <4>2. told' \in [Clients -> Outcomes] BY <4>1 DEF Outcomes
      <4>3. at' \in [Clients -> {"idle", "start", "poll", "asked"}] /\ cut' \subseteq Clients BY <4>1
      <4> QED BY <4>1, <4>2, <4>3
    <3> QED BY <2>7, <3>1, <3>2 DEF Launch
  <2>8. CASE AskShutdown(c)
    <3>1. troubles' \in 0..Troubles BY <2>8, Spent DEF AskShutdown
    <3>2. /\ launched' = FALSE /\ cut' \subseteq Clients
          /\ UNCHANGED <<installed, stage, term, quit, path, databases, handler,
                         left, unseen, raced, late, second>>
      BY <2>8 DEF AskShutdown, process
    <3>3. CASE Reachable
      <4>1. /\ at' = [at EXCEPT ![c] = "asked"] /\ to' = [to EXCEPT ![c] = path]
            /\ told' = [told EXCEPT ![c] = "nothing"] /\ to[c] = Nobody /\ path \in Daemons
        BY <2>8, <3>3 DEF AskShutdown, Free, Reachable, Listening
      <4>2. told' \in [Clients -> Outcomes] BY <4>1 DEF Outcomes
      <4>3. /\ at' \in [Clients -> {"idle", "start", "poll", "asked"}]
            /\ to' \in [Clients -> Daemons \cup {Nobody}]
        BY <4>1
      <4>4. \A x \in Clients : handler'[x] # "none" =>
               to'[x] # Nobody /\ stage'[to'[x]] \in {"serving", "closing"}
        BY <2>8, <3>2, AskingIsNew
      <4> QED BY <3>1, <3>2, <4>1, <4>2, <4>3, <4>4
    <3>4. CASE ~Reachable
      <4>1. told' = [told EXCEPT ![c] = "not running"] /\ UNCHANGED <<at, to>>
        BY <2>8, <3>4 DEF AskShutdown
      <4> QED BY <3>1, <3>2, <4>1 DEF Outcomes
    <3> QED BY <3>3, <3>4
  <2>9. CASE HangUp(c)
    BY <2>9 DEF HangUp, process, clients, history
  <2> QED BY <1>1, <2>1, <2>2, <2>3, <2>4, <2>5, <2>6, <2>7, <2>8, <2>9 DEF Calm
<1>2. ASSUME NEW d \in Daemons, Falls(d) PROVE TypeOK'
  BY <1>2, FallTyped
<1>3. ASSUME NEW d \in Daemons, Moves(d) PROVE TypeOK'
  BY <1>3, MovesAlone, MovesOn
<1>4. ASSUME NEW d \in Daemons, Terminate(d) PROVE TypeOK'
  <2>1. troubles' \in 0..Troubles BY <1>4, Spent DEF Terminate
  <2> QED BY <1>4, <2>1 DEF Terminate, Abandoned, clients
<1>5. CASE Comes
  <2>1. ASSUME NEW d \in Daemons, Run(d)
        PROVE  /\ stage' \in [Daemons -> Stages] /\ second' \in BOOLEAN
               /\ UNCHANGED <<term, quit, path, databases>>
               /\ \A e \in Daemons : stage[e] \in {"serving", "closing"} => stage'[e] = stage[e]
    BY <2>1 DEF Run, Working, Stages
  <2>2. ASSUME NEW d \in Daemons, ByHand(d) PROVE TypeOK'
    <3>1. troubles' \in 0..Troubles BY <2>2, Spent DEF ByHand
    <3>2. Run(d) BY <2>2 DEF ByHand
    <3> QED BY <2>1, <2>2, <3>1, <3>2 DEF ByHand, clients
  <2>3. ASSUME NEW c \in Clients, StartDaemon(c) PROVE TypeOK'
    <3>1. (\E d \in Daemons : Run(d)) \/ UNCHANGED <<process, second>>
      BY <2>3, DaemonAssumption DEF StartDaemon
    <3>2. CASE UNCHANGED <<process, second>>
      BY <2>3, <3>2 DEF StartDaemon, process
    <3>3. CASE \E d \in Daemons : Run(d)
      BY <2>1, <2>3, <3>3 DEF StartDaemon
    <3> QED BY <3>1, <3>2, <3>3
  <2>4. CASE Restart
    <3>1. Run(Unit) BY <2>4 DEF Restart
    <3> QED BY <2>1, <2>4, <3>1, DaemonAssumption DEF Restart, clients
  <2> QED BY <1>5, <2>2, <2>3, <2>4 DEF Comes
<1>7. ASSUME NEW d \in Daemons, Supervise(d) PROVE TypeOK'
  BY <1>7 DEF Supervise, clients
<1>6. CASE UNCHANGED vars
  BY <1>6 DEF vars, process, clients, history
<1> QED BY <1>1, <1>2, <1>3, <1>4, <1>5, <1>6, <1>7, Cases

\* Requests: a client reaches a process that listens, and whoever is signalled
\* later cuts short the clients it has.
LEMMA RequestsKept ==
    ASSUME TypeOK, Requests, [Next]_vars
    PROVE  Requests'
<1> USE DaemonAssumption DEF Requests, Stopping
<1>1. ASSUME NEW c \in Clients, Calm(c) PROVE Requests'
  <2>1. CASE Accept(c)
    BY <2>1 DEF Accept, QuitBefore, process, clients, history
  <2>2. CASE Suspend(c)
    <3>1. /\ UNCHANGED <<stage, term, quit, at, to, cut>> /\ handler'[c] # "done"
          /\ \A x \in Clients \ {c} : handler'[x] = handler[x]
      BY <2>2, SuspendDoes
    <3> QED BY <3>1
  <2>3. CASE Reply(c)
    <3>1. /\ UNCHANGED <<stage, term, to, cut>>
          /\ handler' = [handler EXCEPT ![c] = "done"] /\ to[c] \in Daemons
          /\ quit' = [quit EXCEPT ![to[c]] = IF quit[to[c]] = "no" THEN "soon" ELSE quit[to[c]]]
          /\ stage[to[c]] \in {"serving", "closing"}
      BY <2>3 DEF Reply, TypeOK
    <3>2. at'[c] # "asked" /\ \A x \in Clients \ {c} : at'[x] = at[x]
      BY <2>3 DEF Reply, TypeOK
    <3>3. /\ at \in [Clients -> {"idle", "start", "poll", "asked"}]
          /\ quit \in [Daemons -> {"no", "soon", "yes"}]
          /\ handler \in [Clients -> {"none", "suspend", "reply", "admit", "done"}] BY DEF TypeOK
    <3> QED BY <3>1, <3>2, <3>3
  <2>4. CASE CloseQuit(c)
    <3>1. /\ UNCHANGED <<stage, term, at, cut>> /\ handler[c] = "done"
          /\ handler' = [handler EXCEPT ![c] = "none"] /\ to' = [to EXCEPT ![c] = Nobody]
          /\ quit' = [quit EXCEPT ![to[c]] = "yes"]
      BY <2>4 DEF CloseQuit, history
    <3>2. at[c] # "asked" /\ to[c] \in Daemons /\ stage[to[c]] \in {"serving", "closing"}
      BY <3>1 DEF TypeOK
    <3>3. /\ quit \in [Daemons -> {"no", "soon", "yes"}] /\ to \in [Clients -> Daemons \cup {Nobody}]
          /\ handler \in [Clients -> {"none", "suspend", "reply", "admit", "done"}] BY DEF TypeOK
    <3> QED BY <3>1, <3>2, <3>3
  <2>5. CASE Poll(c)
    BY <2>5 DEF Poll, Found, Polled, Forget, process, clients, history
  <2>6. CASE GiveUp(c)
    BY <2>6 DEF GiveUp, process, clients, history
  <2>7. CASE Launch(c)
    <3>1. /\ UNCHANGED <<stage, term, quit, to, handler>> /\ cut' = cut \ {c}
          /\ at' = [at EXCEPT ![c] = "idle"] \/ at' = [at EXCEPT ![c] = "start"]
      BY <2>7 DEF Launch, Found, Forget, process
    <3>2. at \in [Clients -> {"idle", "start", "poll", "asked"}] BY DEF TypeOK
    <3> QED BY <3>1, <3>2
  <2>8. CASE AskShutdown(c)
    <3>1. /\ UNCHANGED <<stage, term, quit, handler>> /\ at[c] = "idle" /\ to[c] = Nobody
          /\ cut' = IF Reachable /\ term[path] THEN cut \cup {c} ELSE cut \ {c}
      BY <2>8 DEF AskShutdown, Free, process
    <3>2. handler[c] = "none" /\ at \in [Clients -> {"idle", "start", "poll", "asked"}]
          /\ to \in [Clients -> Daemons \cup {Nobody}] /\ term \in [Daemons -> BOOLEAN]
      BY <3>1 DEF TypeOK
    <3>3. CASE Reachable
      <4>1. /\ at' = [at EXCEPT ![c] = "asked"] /\ to' = [to EXCEPT ![c] = path]
            /\ path \in Daemons /\ stage[path] \in {"chmod", "serving"}
        BY <2>8, <3>3 DEF AskShutdown, Reachable, Listening
      <4> QED BY <3>1, <3>2, <3>3, <4>1
    <3>4. CASE ~Reachable
      <4>1. UNCHANGED <<at, to>> BY <2>8, <3>4 DEF AskShutdown
      <4> QED BY <3>1, <3>2, <3>4, <4>1
    <3> QED BY <3>3, <3>4
  <2>9. CASE HangUp(c)
    BY <2>9 DEF HangUp, process, clients, history
  <2> QED BY <1>1, <2>1, <2>2, <2>3, <2>4, <2>5, <2>6, <2>7, <2>8, <2>9 DEF Calm
<1>2. ASSUME NEW d \in Daemons, Falls(d) PROVE Requests'
  <2>1. UNCHANGED cut BY <1>2, FallIsEnd DEF Ended
  <2>2. \A e \in Daemons : quit'[e] # "no" \/ stage'[e] = "closing" =>
           stage'[e] = stage[e] /\ term'[e] = term[e] /\ quit'[e] = quit[e]
    BY <1>2, FallSpares
  <2>3. \A c \in Clients : at'[c] = "asked" \/ handler'[c] = "done" =>
           to[c] # d /\ to'[c] = to[c] /\ handler'[c] = handler[c] /\ at'[c] = at[c]
    BY <1>2, FallSpares
  <2>4. \A e \in Daemons \ {d} : stage'[e] = stage[e] /\ term'[e] = term[e]
    BY <1>2, FallSpares
  <2> QED BY <2>1, <2>2, <2>3, <2>4
<1>3. ASSUME NEW d \in Daemons, Moves(d) PROVE Requests'
  BY <1>3, MovesAlone, MovesOn
<1>4. ASSUME NEW d \in Daemons, Terminate(d) PROVE Requests'
  <2>1. /\ UNCHANGED <<stage, quit, at, to, handler>>
        /\ term' = [term EXCEPT ![d] = TRUE] /\ cut' = cut \cup {c \in Clients : to[c] = d}
    BY <1>4 DEF Terminate, Abandoned, clients
  <2>2. term \in [Daemons -> BOOLEAN] BY DEF TypeOK
  <2> QED BY <2>1, <2>2
<1>5. CASE Comes
  <2>1. /\ UNCHANGED <<term, quit, to, handler, cut>>
        /\ \A c \in Clients : at'[c] = "asked" <=> at[c] = "asked"
        /\ (\E d \in Daemons : Run(d)) \/ UNCHANGED <<process, second>>
    BY <1>5, ComesIsRun
  <2>2. \A d \in Daemons : stage'[d] # stage[d] => stage[d] \in {"off", "failed"} /\ stage'[d] = "boot"
    BY <2>1 DEF Run, process, Working, TypeOK
  <2> QED BY <2>1, <2>2
<1>7. ASSUME NEW d \in Daemons, Supervise(d) PROVE Requests'
  BY <1>7 DEF Supervise, clients
<1>6. CASE UNCHANGED vars
  BY <1>6 DEF vars, process, clients, history
<1> QED BY <1>1, <1>2, <1>3, <1>4, <1>5, <1>6, <1>7, Cases

\* What a shutdown could not stop it has reported, or will.
LEMMA AdmittedKept ==
    ASSUME TypeOK, Admitted, [Next]_vars
    PROVE  Admitted'
<1> USE DaemonAssumption DEF Admitted
<1>0. /\ to \in [Clients -> Daemons \cup {Nobody}]
      /\ handler \in [Clients -> {"none", "suspend", "reply", "admit", "done"}]
  BY DEF TypeOK
<1>1. ASSUME NEW c \in Clients, Calm(c) PROVE Admitted'
  <2>1. CASE Accept(c) BY <1>0, <2>1 DEF Accept, history
  <2>2. CASE Suspend(c) BY <2>2, SuspendDoes
  <2>3. CASE Reply(c) BY <1>0, <2>3 DEF Reply
  <2>4. CASE CloseQuit(c) BY <1>0, <2>4 DEF CloseQuit, history
  <2>5. CASE Poll(c) BY <2>5 DEF Poll, Found
  <2>6. CASE GiveUp(c) BY <2>6 DEF GiveUp, history
  <2>7. CASE Launch(c) BY <2>7 DEF Launch, Found
  <2>8. CASE AskShutdown(c)
    <3>1. /\ UNCHANGED <<handler, left>> /\ handler[c] = "none"
          /\ \A x \in Clients \ {c} : to'[x] = to[x]
      BY <2>8, AskingIsNew
    <3> QED BY <3>1
  <2>9. CASE HangUp(c) BY <2>9 DEF HangUp, history
  <2> QED BY <1>1, <2>1, <2>2, <2>3, <2>4, <2>5, <2>6, <2>7, <2>8, <2>9 DEF Calm
<1>2. ASSUME NEW d \in Daemons, Falls(d) PROVE Admitted'
  <2>1. left' = left \ {d} BY <1>2, FallSpares
  <2>2. \A c \in Clients : handler'[c] # "none" =>
           handler'[c] = handler[c] /\ to'[c] = to[c] /\ to[c] # d
    BY <1>2, FallSpares
  <2> QED BY <2>1, <2>2
<1>3. ASSUME NEW d \in Daemons, Moves(d) PROVE Admitted'
  BY <1>3, MovesAlone
<1>4. ASSUME NEW d \in Daemons, Terminate(d) PROVE Admitted'
  BY <1>4 DEF Terminate, clients
<1>5. CASE Comes
  BY <1>5, ComesIsRun
<1>6. ASSUME NEW d \in Daemons, Supervise(d) PROVE Admitted'
  BY <1>6 DEF Supervise, clients
<1>7. CASE UNCHANGED vars
  BY <1>7 DEF vars, clients, history
<1> QED BY <1>1, <1>2, <1>3, <1>4, <1>5, <1>6, <1>7, Cases

\* Databases stay stopped from the end of a Suspend on, but for what it left: to
\* start them again a process has to boot while another one works, or supervision
\* does and is remembered.
LEMMA SuspendedKept ==
    ASSUME TypeOK, Requests, OneWorks, Admitted, Suspended, [Next]_vars
    PROVE  Suspended'
<1> USE DaemonAssumption DEF Suspended, Stopped
<1>0. /\ quit \in [Daemons -> {"no", "soon", "yes"}] /\ to \in [Clients -> Daemons \cup {Nobody}]
      /\ handler \in [Clients -> {"none", "suspend", "reply", "admit", "done"}]
  BY DEF TypeOK
<1>h. \A c \in Clients : handler[c] # "none" =>
         to[c] \in Daemons /\ stage[to[c]] \in {"serving", "closing"}
  BY DEF TypeOK
<1>q. \A d \in Daemons : quit[d] # "no" => stage[d] \in {"serving", "closing"} BY DEF Requests
<1>1. ASSUME NEW c \in Clients, Calm(c) PROVE Suspended'
  <2>1. CASE Accept(c)
    BY <1>0, <2>1 DEF Accept, QuitBefore, history
  <2>2. CASE Suspend(c)
    <3>1. CASE databases' = "suspended" /\ left' = left
      BY <2>2, <3>1, SuspendDoes
    <3>2. CASE handler'[c] = "admit" /\ left \subseteq left' /\ UNCHANGED <<databases, unseen>>
      BY <2>2, <3>2, SuspendDoes
    <3>3. CASE unseen' = TRUE
      BY <3>3
    <3> QED BY <2>2, <3>1, <3>2, <3>3, SuspendDoes
  <2>3. CASE Reply(c)
    <3>1. /\ UNCHANGED <<databases, left, unseen, to, second>>
          /\ handler' = [handler EXCEPT ![c] = "done"] /\ to[c] \in Daemons
          /\ quit' = [quit EXCEPT ![to[c]] = IF quit[to[c]] = "no" THEN "soon" ELSE quit[to[c]]]
          /\ handler[c] \in {"reply", "admit"}
      BY <1>h, <2>3 DEF Reply
    <3>2. ASSUME ~second, ~unseen PROVE Stopped(to[c])
      <4>1. CASE handler[c] = "reply" BY <3>2, <4>1
      <4>2. CASE handler[c] = "admit" BY <4>2 DEF Admitted
      <4> QED BY <3>1, <4>1, <4>2
    <3> QED BY <1>0, <3>1, <3>2
  <2>4. CASE CloseQuit(c)
    BY <1>0, <1>h, <2>4 DEF CloseQuit, history
  <2>5. CASE Poll(c)
    BY <2>5 DEF Poll, Found, process
  <2>6. CASE GiveUp(c)
    BY <2>6 DEF GiveUp, process, history
  <2>7. CASE Launch(c)
    BY <2>7 DEF Launch, Found, process
  <2>8. CASE AskShutdown(c)
    <3>1. /\ UNCHANGED <<handler, quit, databases, left, unseen, second>> /\ handler[c] = "none"
          /\ \A x \in Clients \ {c} : to'[x] = to[x]
      BY <2>8, AskingIsNew
    <3> QED BY <3>1
  <2>9. CASE HangUp(c)
    BY <2>9 DEF HangUp, process, history
  <2> QED BY <1>1, <2>1, <2>2, <2>3, <2>4, <2>5, <2>6, <2>7, <2>8, <2>9 DEF Calm
<1>2. ASSUME NEW d \in Daemons, Falls(d) PROVE Suspended'
  <2>0. UNCHANGED second /\ Working(d) BY <1>2, FallIsEnd, FallWorks DEF Ended
  <2>1. /\ UNCHANGED second /\ quit'[d] = "no" /\ Working(d)
        /\ \A e \in Daemons \ {d} : stage'[e] = stage[e] /\ quit'[e] = quit[e]
    BY <1>2, <2>0, FallSpares
  <2>2. ASSUME ~second, NEW e \in Daemons \ {d}, stage[e] \in {"serving", "closing"} PROVE FALSE
    BY <2>1, <2>2 DEF OneWorks, Working
  <2>3. \A c \in Clients : handler'[c] # "none" => handler'[c] = handler[c] /\ to[c] # d
    BY <1>2, FallSpares
  <2>4. ~second => /\ \A c \in Clients : handler'[c] = "none"
                   /\ \A e \in Daemons : quit'[e] = "no"
    BY <1>h, <1>q, <2>1, <2>2, <2>3
  <2> QED BY <2>1, <2>4
<1>3. ASSUME NEW d \in Daemons, Moves(d) PROVE Suspended'
  <2>1. UNCHANGED <<quit, handler, to, left, unseen, second>> BY <1>3, MovesAlone
  <2>2. CASE stage[d] # "boot" BY <1>3, <2>1, <2>2, MovesOn
  <2>3. CASE stage[d] = "boot"
    <3>1. ASSUME ~second, NEW e \in Daemons, stage[e] \in {"serving", "closing"} PROVE FALSE
      BY <2>3, <3>1 DEF OneWorks, Working
    <3> QED BY <1>h, <1>q, <2>1, <3>1
  <2> QED BY <2>2, <2>3
<1>4. ASSUME NEW d \in Daemons, Terminate(d) PROVE Suspended'
  BY <1>4 DEF Terminate, clients
<1>5. CASE Comes
  <2>1. /\ UNCHANGED <<quit, databases, to, handler, left, unseen>>
        /\ (\E d \in Daemons : Run(d)) \/ UNCHANGED <<process, second>>
    BY <1>5, ComesIsRun
  <2>2. ~second' => ~second BY <2>1 DEF Run
  <2> QED BY <2>1, <2>2
<1>6. ASSUME NEW d \in Daemons, Supervise(d) PROVE Suspended'
  <2>1. unseen' = (unseen \/ Leaving) /\ UNCHANGED <<quit, handler, to, second>>
    BY <1>6 DEF Supervise, clients
  <2> QED BY <2>1 DEF Leaving
<1>7. CASE UNCHANGED vars
  BY <1>7 DEF vars, process, clients, history
<1> QED BY <1>1, <1>2, <1>3, <1>4, <1>5, <1>6, <1>7, Cases

\* Nobody takes the socket from a daemon that serves and has not to stop.
LEMMA MovesHold ==
    ASSUME TypeOK, PathHeld, ~raced, NEW d \in Daemons, Moves(d), Reachable, ~Stopping(path)
    PROVE  path' = path /\ Reachable'
<1>0. path \in Daemons /\ stage[path] \in {"chmod", "serving"} /\ stage \in [Daemons -> Stages]
  BY DEF Reachable, Listening, TypeOK
<1> USE <1>0, DaemonAssumption DEF Reachable, Listening
<1>1. CASE Boot(d) BY <1>1 DEF Boot
<1>2. CASE Stat(d) BY <1>2 DEF Stat
<1>3. CASE Probe(d) /\ ~Answers(d) BY <1>3 DEF Probe
<1>4. CASE RemoveStale(d) BY <1>4 DEF RemoveStale, PathHeld
<1>5. CASE Bind(d) /\ path = Nobody BY <1>5 DEF Bind
<1>6. CASE Listen(d) BY <1>6 DEF Listen
<1>7. CASE Chmod(d) /\ path # Nobody BY <1>7 DEF Chmod
<1>8. CASE CloseListener(d) BY <1>8 DEF CloseListener, PathHeld
<1> QED BY <1>1, <1>2, <1>3, <1>4, <1>5, <1>6, <1>7, <1>8 DEF Moves

\* A launch holds: what ends or closes is another process than the one behind
\* the socket, or what ended it was a trouble.
LEMMA LaunchKept ==
    ASSUME TypeOK, PathLeads, PathHeld, LaunchHolds, [Next]_vars
    PROVE  LaunchHolds'
<1> USE DaemonAssumption DEF LaunchHolds, Reachable, Listening, InShutdown, Stopping
<1>1. ASSUME NEW c \in Clients, Calm(c) PROVE LaunchHolds'
  <2>1. CASE Accept(c)
    BY <2>1 DEF Accept, QuitBefore, process, clients, history
  <2>2. CASE Suspend(c)
    BY <2>2 DEF Suspend, process, clients, history
  <2>3. CASE Reply(c)
    <3>0. /\ quit \in [Daemons -> {"no", "soon", "yes"}] /\ to \in [Clients -> Daemons \cup {Nobody}]
          /\ handler \in [Clients -> {"none", "suspend", "reply", "admit", "done"}]
          /\ at \in [Clients -> {"idle", "start", "poll", "asked"}] /\ told \in [Clients -> Outcomes]
      BY DEF TypeOK
    <3> QED BY <3>0, <2>3 DEF Reply, process, clients, history
  <2>4. CASE CloseQuit(c)
    <3>0. /\ quit \in [Daemons -> {"no", "soon", "yes"}] /\ to \in [Clients -> Daemons \cup {Nobody}]
          /\ handler \in [Clients -> {"none", "suspend", "reply", "admit", "done"}]
          /\ at \in [Clients -> {"idle", "start", "poll", "asked"}] /\ told \in [Clients -> Outcomes]
      BY DEF TypeOK
    <3> QED BY <3>0, <2>4 DEF CloseQuit, process, clients, history
  <2>5. CASE Poll(c)
    BY <2>5 DEF Poll, Found, Polled, Forget, process, clients, history
  <2>6. CASE GiveUp(c)
    BY <2>6 DEF GiveUp, process, clients, history
  <2>7. CASE Launch(c)
    BY <2>7 DEF Launch, Free, Found, Forget, process, clients, history
  <2>8. CASE AskShutdown(c)
    BY <2>8 DEF AskShutdown, Free, process, clients, history
  <2>9. CASE HangUp(c)
    BY <2>9 DEF HangUp, process, clients, history
  <2> QED BY <1>1, <2>1, <2>2, <2>3, <2>4, <2>5, <2>6, <2>7, <2>8, <2>9 DEF Calm
<1>2. ASSUME NEW d \in Daemons, Falls(d) PROVE LaunchHolds'
  <2>1. CASE path' # path BY <1>2, <2>1, FallIsEnd DEF Ended
  <2>2. CASE path' = path
    <3>1. path # d /\ launched' \in {launched, FALSE} /\ UNCHANGED <<late, raced>>
      BY <1>2, <2>2, FallIsEnd, FallLeaves DEF Ended
    <3>2. \A e \in Daemons \ {d} : stage'[e] = stage[e] /\ term'[e] = term[e] /\ quit'[e] = quit[e]
      BY <1>2, FallSpares
    <3>3. \A c \in Clients : to'[c] # Nobody => to'[c] = to[c] BY <1>2, FallSpares
    <3> QED BY <2>2, <3>1, <3>2, <3>3
  <2> QED BY <2>1, <2>2
<1>3. ASSUME NEW d \in Daemons, Moves(d) PROVE LaunchHolds'
  <2>1. UNCHANGED <<term, quit, to, launched, late>> BY <1>3, MovesAlone
  <2>2. ~raced' => ~raced BY <1>3, MovesOn
  <2>3. ASSUME launched, ~late, ~raced PROVE path' = path /\ Reachable' BY <1>3, <2>3, MovesHold
  <2> QED BY <2>1, <2>2, <2>3
<1>4. ASSUME NEW d \in Daemons, Terminate(d) PROVE LaunchHolds'
  BY <1>4 DEF Terminate, process, clients, history
<1>5. CASE Comes
  <2>1. /\ UNCHANGED <<term, quit, path, databases, to, handler, told, launched, raced, late>>
        /\ (\E d \in Daemons : Run(d)) \/ UNCHANGED <<process, second>>
    BY <1>5, ComesIsRun
  <2>2. /\ ~second' => ~second
        /\ \A d \in Daemons : stage'[d] # stage[d] => stage[d] \in {"off", "failed"}
    BY <2>1 DEF Run, process, Working, TypeOK
  <2> QED BY <2>1, <2>2
<1>7. ASSUME NEW d \in Daemons, Supervise(d) PROVE LaunchHolds'
  BY <1>7 DEF Supervise, clients
<1>6. CASE UNCHANGED vars
  BY <1>6 DEF vars, process, clients, history
<1> QED BY <1>1, <1>2, <1>3, <1>4, <1>5, <1>6, <1>7, Cases

\* A client that waits for its shutdown is dropped because its daemon was killed or
\* signalled, or because another client's shutdown ends the process.
LEMMA FallCuts ==
    ASSUME TypeOK, Requests, PathHeld, RacedIsSecond, Suspended, ~second,
           NEW d \in Daemons, Falls(d), NEW c \in Clients, to[c] = d, at[c] = "asked"
    PROVE  databases = "suspended" \/ c \in cut \/ Kill(d) \/ d \in left \/ unseen
<1>0. stage[d] \in {"chmod", "serving", "closing"} /\ (term[d] => c \in cut) BY DEF Requests
<1>1. CASE BootFails(d) BY <1>0, <1>1 DEF BootFails
<1>2. CASE Exit(d)
  <2>1. term[d] \/ quit[d] # "no" BY <1>2 DEF Exit, Requests, Stopping
  <2> QED BY <1>0, <2>1 DEF Suspended, Stopped
<1>3. CASE Kill(d) BY <1>3
<1>4. CASE Probe(d) /\ Answers(d) BY <1>0, <1>4 DEF Probe
<1>5. CASE Bind(d) /\ path # Nobody BY <1>0, <1>5 DEF Bind
<1>6. CASE Chmod(d) /\ path = Nobody
  <2>1. stage[d] = "chmod" BY <1>6 DEF Chmod
  <2> QED BY <1>6, <2>1, DaemonAssumption DEF RacedIsSecond, PathHeld
<1> QED BY <1>1, <1>2, <1>3, <1>4, <1>5, <1>6 DEF Falls

\* What a client is told of its shutdown, by the reply or by the dropped
\* connection, is true, or one of the histories says why not.
LEMMA ShutdownKept ==
    ASSUME TypeOK, Requests, PathHeld, RacedIsSecond, Suspended, ShutdownTrue, [Next]_vars
    PROVE  ShutdownTrue'
<1> USE DaemonAssumption DEF ShutdownTrue
<1>1. ASSUME NEW c \in Clients, Calm(c) PROVE ShutdownTrue'
  <2>1. CASE Accept(c)
    BY <2>1 DEF Accept, QuitBefore, process, clients, history
  <2>2. CASE Suspend(c)
    BY <2>2 DEF Suspend, process, clients, history
  <2>3. CASE Reply(c)
    <3>0. /\ quit \in [Daemons -> {"no", "soon", "yes"}] /\ to \in [Clients -> Daemons \cup {Nobody}]
          /\ handler \in [Clients -> {"none", "suspend", "reply", "admit", "done"}]
          /\ at \in [Clients -> {"idle", "start", "poll", "asked"}] /\ told \in [Clients -> Outcomes]
      BY DEF TypeOK
    <3>1. UNCHANGED second /\ (UNCHANGED told \/ told' = [told EXCEPT ![c] = Answer(c)])
      BY <2>3 DEF Reply
    <3>2. ASSUME ~second PROVE Answer(c) \notin {"stopped while up", "dropped while up"}
      <4>1. handler[c] = "admit" \/ databases = "suspended" \/ unseen
        BY <2>3, <3>2 DEF Reply, Suspended
      <4> QED BY <4>1 DEF Answer
    <3> QED BY <3>0, <3>1, <3>2
  <2>4. CASE CloseQuit(c)
    BY <2>4 DEF CloseQuit, process, clients, history
  <2>5. CASE Poll(c)
    <3>0. /\ quit \in [Daemons -> {"no", "soon", "yes"}] /\ to \in [Clients -> Daemons \cup {Nobody}]
          /\ handler \in [Clients -> {"none", "suspend", "reply", "admit", "done"}]
          /\ at \in [Clients -> {"idle", "start", "poll", "asked"}] /\ told \in [Clients -> Outcomes]
      BY DEF TypeOK
    <3> QED BY <3>0, <2>5 DEF Poll, Found, Forget, process, clients, history
  <2>6. CASE GiveUp(c)
    BY <2>6 DEF GiveUp, process, clients, history
  <2>7. CASE Launch(c)
    <3>0. /\ quit \in [Daemons -> {"no", "soon", "yes"}] /\ to \in [Clients -> Daemons \cup {Nobody}]
          /\ handler \in [Clients -> {"none", "suspend", "reply", "admit", "done"}]
          /\ at \in [Clients -> {"idle", "start", "poll", "asked"}] /\ told \in [Clients -> Outcomes]
      BY DEF TypeOK
    <3>1. UNCHANGED second /\ told' = [told EXCEPT ![c] = "nothing"] BY <2>7 DEF Launch, Found, Forget
    <3> QED BY <3>0, <3>1
  <2>8. CASE AskShutdown(c)
    <3>0. /\ quit \in [Daemons -> {"no", "soon", "yes"}] /\ to \in [Clients -> Daemons \cup {Nobody}]
          /\ handler \in [Clients -> {"none", "suspend", "reply", "admit", "done"}]
          /\ at \in [Clients -> {"idle", "start", "poll", "asked"}] /\ told \in [Clients -> Outcomes]
      BY DEF TypeOK
    <3> QED BY <3>0, <2>8 DEF AskShutdown, process, clients, history
  <2>9. CASE HangUp(c)
    BY <2>9 DEF HangUp, process, clients, history
  <2> QED BY <1>1, <2>1, <2>2, <2>3, <2>4, <2>5, <2>6, <2>7, <2>8, <2>9 DEF Calm
<1>2. ASSUME NEW d \in Daemons, Falls(d) PROVE ShutdownTrue'
  <2>1. UNCHANGED second BY <1>2, FallIsEnd DEF Ended
  <2>2. \E code : End(d, code) BY <1>2, FallIsEnd DEF Ended
  <2>3. ASSUME NEW c \in Clients, to[c] # d PROVE told'[c] = told[c] BY <2>2, <2>3 DEF End, Abandoned
  <2>4. ASSUME ~second, NEW c \in Clients, to[c] = d
        PROVE  told'[c] \notin {"stopped while up", "dropped while up"}
    <3>1. PICK code : End(d, code) BY <2>2
    <3>2. CASE at[c] # "asked" BY <2>4, <3>1, <3>2 DEF End, ShutdownTrue
    <3>3. CASE at[c] = "asked" /\ (databases = "suspended" \/ c \in cut \/ d \in left \/ unseen)
      BY <2>4, <3>1, <3>3 DEF End, Abandoned
    <3>4. CASE at[c] = "asked" /\ Kill(d)
      <4>1. End(d, "killed") BY <3>4 DEF Kill
      <4> QED BY <2>4, <3>4, <4>1 DEF End, Abandoned
    <3> QED BY <1>2, <2>4, <3>2, <3>3, <3>4, FallCuts
  <2> QED BY <2>1, <2>3, <2>4
<1>3. ASSUME NEW d \in Daemons, Moves(d) PROVE ShutdownTrue'
  BY <1>3, MovesAlone
<1>4. ASSUME NEW d \in Daemons, Terminate(d) PROVE ShutdownTrue'
  BY <1>4 DEF Terminate, process, clients, history
<1>5. CASE Comes
  <2>1. /\ UNCHANGED <<term, quit, path, databases, to, handler, told, launched, raced, late>>
        /\ (\E d \in Daemons : Run(d)) \/ UNCHANGED <<process, second>>
    BY <1>5, ComesIsRun
  <2>2. /\ ~second' => ~second
        /\ \A d \in Daemons : stage'[d] # stage[d] => stage[d] \in {"off", "failed"}
    BY <2>1 DEF Run, process, Working, TypeOK
  <2> QED BY <2>1, <2>2
<1>7. ASSUME NEW d \in Daemons, Supervise(d) PROVE ShutdownTrue'
  BY <1>7 DEF Supervise, clients
<1>6. CASE UNCHANGED vars
  BY <1>6 DEF vars, process, clients, history
<1> QED BY <1>1, <1>2, <1>3, <1>4, <1>5, <1>6, <1>7, Cases

-----------------------------------------------------------------------------
(***************************************************************************)
(* The invariant and what it gives                                         *)
(***************************************************************************)
\* Nothing runs and nobody has asked at the start, whatever socket was left.
LEMMA Start ==
    ASSUME Init
    PROVE  IInv
<1> USE DaemonAssumption DEF Init
<1>1. TypeOK
  <2>1. troubles \in 0..Troubles OBVIOUS
  <2>2. /\ stage \in [Daemons -> Stages] /\ told \in [Clients -> Outcomes]
        /\ installed \in BOOLEAN /\ path \in Daemons \cup {Nobody, "dead"}
        /\ databases \in {"running", "suspended"}
    BY DEF Stages, Outcomes
  <2>3. /\ term \in [Daemons -> BOOLEAN] /\ quit \in [Daemons -> {"no", "soon", "yes"}]
        /\ at \in [Clients -> {"idle", "start", "poll", "asked"}]
        /\ to \in [Clients -> Daemons \cup {Nobody}]
        /\ handler \in [Clients -> {"none", "suspend", "reply", "admit", "done"}]
    OBVIOUS
  <2>4. /\ \A c \in Clients : handler[c] = "none"
        /\ cut \subseteq Clients /\ left \subseteq Daemons
        /\ unseen \in BOOLEAN /\ launched \in BOOLEAN
        /\ raced \in BOOLEAN /\ late \in BOOLEAN /\ second \in BOOLEAN
    OBVIOUS
  <2> QED BY <2>1, <2>2, <2>3, <2>4 DEF TypeOK
<1>2. OneTakes /\ PathLeads /\ PathHeld BY DEF OneTakes, Past, PathLeads, PathHeld
<1>3. Requests /\ Admitted /\ Suspended BY DEF Requests, Admitted, Suspended
<1>4. OneWorks /\ RacedIsSecond BY DEF OneWorks, Working, RacedIsSecond
<1>5. LaunchHolds /\ ShutdownTrue BY DEF LaunchHolds, ShutdownTrue
<1> QED BY <1>1, <1>2, <1>3, <1>4, <1>5 DEF IInv

\* IInv is kept by every step.
THEOREM Invariance == Spec => []IInv
<1>1. ASSUME Init PROVE IInv BY <1>1, Start
<1>2. ASSUME IInv, [Next]_vars PROVE IInv'
  <2> USE <1>2 DEF IInv
  <2>1. TypeOK' BY TypeKept
  <2>2. OneTakes' /\ PathLeads' /\ PathHeld' BY TakesKept, LeadsKept, HeldKept
  <2>3. Requests' /\ Admitted' /\ Suspended' BY RequestsKept, AdmittedKept, SuspendedKept
  <2>4. OneWorks' /\ RacedIsSecond' BY WorksKept, RacedKept
  <2>5. LaunchHolds' /\ ShutdownTrue' BY LaunchKept, ShutdownKept
  <2> QED BY <2>1, <2>2, <2>3, <2>4, <2>5
<1> QED BY <1>1, <1>2, PTL DEF Spec

\* Every variable keeps its type, and every shutdown that is handled has the
\* process that handles it.
THEOREM TypeCorrect == Spec => []TypeOK
<1>1. IInv => TypeOK BY DEF IInv
<1> QED BY <1>1, Invariance, PTL

\* The socket leads to the daemon that serves, however many processes come and
\* go, unless two of them took it together (server.go:374-402).
THEOREM SocketOwned == Spec => []SocketIsItsOwn
<1>1. IInv => SocketIsItsOwn BY DEF IInv, PathHeld, SocketIsItsOwn
<1> QED BY <1>1, Invariance, PTL

\* A shutdown that was reported done, or whose connection a daemon dropped that
\* nobody signalled, has stopped the databases, however many clients ask at once
\* (client.go:225-228, server.go:342-364), but for the stops that failed in
\* another client's, and for what Suspend did not know of or supervision started.
THEOREM ShutdownsTrue == Spec => []ShutdownTrue
<1>1. IInv => ShutdownTrue BY DEF IInv
<1> QED BY <1>1, Invariance, PTL

\* A launch that went well leaves a daemon to talk to, until somebody shuts it
\* down or signals it (ensure.go:18-27).
THEOREM LaunchesHold == Spec => []LaunchHolds
<1>1. IInv => LaunchHolds BY DEF IInv
<1> QED BY <1>1, Invariance, PTL

=============================================================================
