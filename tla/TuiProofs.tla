----------------------------- MODULE TuiProofs -----------------------------
(***************************************************************************)
(* Proofs about the terminal interface, for every set of names and every   *)
(* session: whatever the keys, whatever happens elsewhere, however many    *)
(* commands are in flight and in whatever order their answers arrive.      *)
(*                                                                         *)
(* First what the operations on the bag of commands do to it (Traded),     *)
(* then the inductive invariant, one lemma per part of it, then the        *)
(* properties.                                                             *)
(***************************************************************************)
EXTENDS Tui, FiniteSetTheorems, TLAPS

-----------------------------------------------------------------------------
(* The inductive invariant                                                 *)

(* One command of the kinds T at most, once.                               *)
Single(T) == \A c \in InFlight(T) : flight[c] = 1 /\ \A d \in InFlight(T) : d = c

Creation == {"create", "createdMsg"}
Farewell == {"shutdown", "shutdownDoneMsg"}

(* The dialog of a destroy is about the row that was picked.               *)
Captured == destroy.id = picked /\ (view = "destroy" => picked \in Names)

(* A create in flight is that of the form on the screen, which waits.      *)
FormHeld == ~astray =>
    /\ Single(Creation)
    /\ \A c \in InFlight(Creation) :
         /\ c.of = "now" /\ form.step = "submitting" /\ view = "create"
         /\ c.tag = "create" => c.id = form.id

(* A form that is past the name has one.                                   *)
FormNamed == ~astray => (form.step \in {"port", "restart", "submitting"} => form.id \in Names)

(* A shutdown in flight is that of the quit screen, which waits.           *)
QuitHeld == ~astray =>
    /\ Single(Farewell)
    /\ Running(Farewell) => shutdown = "working" /\ view = "quit"
    /\ phase # "dead"

(* A password that counts as right is that of an instance there is.        *)
Current == \A i \in Names :
    passwords[i] = "right" \/ Password(i, "right") \in DOMAIN flight => world[i] # "none"

(* What is not listed has no password.                                     *)
Forgotten == \A i \in Names \ reborn : list[i] = "none" => passwords[i] = "none"

(* The form is about to create an instance under this name.                *)
Expected(i) ==
    /\ form.id = i /\ view = "create"
    /\ \/ form.step \in {"port", "restart"}
       \/ Running({"create"})
       \/ \E c \in InFlight({"createdMsg"}) : ~c.ok

(* An instance about to be created is not there, nor any password of it.   *)
Unborn == ~astray => \A i \in Names \ reborn :
    /\ passwords[i] = "stale" => world[i] = "none"
    /\ Expected(i) => world[i] = "none" /\ passwords[i] # "stale"

IInv == /\ TypeOK /\ Captured /\ FormHeld /\ FormNamed /\ QuitHeld /\ StreamsTended
        /\ Current /\ Forgotten /\ Unborn

-----------------------------------------------------------------------------
(* The bag of commands                                                     *)

(* Bag b becomes bag d: the commands out go, those of new come.  One that  *)
(* was there once and goes is there no more; of one there more than once a *)
(* copy may stay.                                                          *)
Traded(b, d, out, new) ==
    /\ DOMAIN d \subseteq DOMAIN b \cup new
    /\ new \subseteq DOMAIN d
    /\ DOMAIN b \ out \subseteq DOMAIN d
    /\ \A c \in DOMAIN b \ (out \cup new) : b[c] = 1 => d[c] = 1
    /\ \A c \in out \ new : b[c] = 1 => c \notin DOMAIN d
    /\ \A c \in new \ DOMAIN b : d[c] = 1

(* What starts beside the rest is traded for nothing.                      *)
LEMMA AddTrades ==
    ASSUME NEW b, NEW S
    PROVE  Traded(b, b (+) SetToBag(S), {}, S)
<1> DEFINE d == b (+) SetToBag(S)
<1>1. DOMAIN SetToBag(S) = S /\ \A e \in S : SetToBag(S)[e] = 1
  BY DEF SetToBag
<1>2. DOMAIN d = DOMAIN b \cup S
  BY <1>1 DEF (+)
<1>3. \A c \in DOMAIN b \cup S :
         d[c] = (IF c \in DOMAIN b THEN b[c] ELSE 0) + (IF c \in S THEN 1 ELSE 0)
  BY <1>1 DEF (+)
<1> HIDE DEF d
<1>4. \A c \in DOMAIN b \ S : b[c] = 1 => d[c] = 1
  BY <1>3
<1>5. \A c \in S \ DOMAIN b : d[c] = 1
  BY <1>3
<1>6. Traded(b, d, {}, S)
  BY <1>2, <1>4, <1>5 DEF Traded
<1> QED BY <1>6 DEF d

(* A command that goes is traded for those that come.                      *)
LEMMA SwapTrades ==
    ASSUME NEW b, NEW c \in DOMAIN b, NEW S
    PROVE  Traded(b, BagRemove(b, c) (+) SetToBag(S), {c}, S)
<1> DEFINE r == BagRemove(b, c)
           d == r (+) SetToBag(S)
<1>1. /\ DOMAIN r \subseteq DOMAIN b
      /\ DOMAIN b \ {c} \subseteq DOMAIN r
      /\ b[c] = 1 => c \notin DOMAIN r
      /\ \A e \in DOMAIN b \ {c} : r[e] = b[e]
  <2>1. CASE b[c] = 1
    <3>1. r = [e \in DOMAIN b \ {c} |-> b[e]]
      BY <2>1 DEF BagRemove
    <3> QED BY <3>1
  <2>2. CASE b[c] # 1
    <3>1. r = [e \in DOMAIN b |-> IF e = c THEN b[e] - 1 ELSE b[e]]
      BY <2>2 DEF BagRemove
    <3> QED BY <2>2, <3>1
  <2> QED BY <2>1, <2>2
<1>2. Traded(r, d, {}, S)
  BY AddTrades
<1> HIDE DEF r, d
<1>3. Traded(b, d, {c}, S)
  BY <1>1, <1>2 DEF Traded
<1> QED BY <1>3 DEF d, r

(* What the model lets go of is of the kinds T; the rest is untouched.     *)
Disowning(b, d, T) ==
    /\ \A c : c.tag \notin T => /\ c \in DOMAIN d <=> c \in DOMAIN b
                                /\ c \in DOMAIN b /\ b[c] = 1 => d[c] = 1
    /\ \A n \in DOMAIN d : n.tag \in T => \E c \in DOMAIN b : c.tag = n.tag
    /\ DOMAIN d \subseteq Asking \cup Answers

Ownable == {"create", "createdMsg", "logs", "pull"}

(* What a command carries, by its kind.                                    *)
LEMMA Kinds ==
    ASSUME NEW c \in Asking \cup Answers
    PROVE  /\ c.tag \in {"start", "stop", "restart", "password"} => c.id \in Names
           /\ c.tag = "remove" => c.id \in Names /\ c.typed \in Names \cup {0}
           /\ c.tag = "create" => c.id \in Names \cup {0}
           /\ c.tag = "passwordMsg" => /\ c.id \in Names /\ c.pw \in {"right", "stale", "error"}
                                       /\ c = Password(c.id, c.pw)
           /\ c.tag = "instancesMsg" => c.ok \in BOOLEAN /\ c.rows \in [Names -> Status]
           /\ c.tag = "createdMsg" => c.ok \in BOOLEAN
           /\ c.tag = "shutdownDoneMsg" => c.result \in {"ok", "unreachable", "error"}
           /\ c.tag \in Ownable => /\ c.of \in {"now", "past"}
                                   /\ LetGo(c) \in Asking \cup Answers
                                   /\ LetGo(c).tag = c.tag
<1>1. CASE c \in [tag : {"list", "shutdown", "conn", "update", "version", "tick", "spin"}]
  BY <1>1 DEF Ownable
<1>2. CASE c \in [tag : {"start", "stop", "restart", "password"}, id : Names]
  BY <1>2 DEF Ownable
<1>3. CASE c \in [tag : {"remove"}, id : Names, wipe : BOOLEAN, typed : Names \cup {0}]
  BY <1>3 DEF Ownable
<1>4. CASE c \in [tag : {"create"}, id : Names \cup {0}, of : {"now", "past"}]
  <2>1. LetGo(c) \in [tag : {"create"}, id : Names \cup {0}, of : {"now", "past"}]
    BY <1>4 DEF LetGo
  <2> QED BY <1>4, <2>1 DEF Ownable, Asking
<1>5. CASE c \in [tag : {"logs"}, of : {"now", "past"}]
  <2>1. LetGo(c) \in [tag : {"logs"}, of : {"now", "past"}]
    BY <1>5 DEF LetGo
  <2> QED BY <1>5, <2>1 DEF Ownable, Asking
<1>6. CASE c \in [tag : {"pull"}, of : {"now", "past"}]
  <2>1. LetGo(c) \in [tag : {"pull"}, of : {"now", "past"}]
    BY <1>6 DEF LetGo
  <2> QED BY <1>6, <2>1 DEF Ownable, Asking
<1>7. CASE c \in [tag : {"instancesMsg"}, ok : BOOLEAN, rows : [Names -> Status]]
  BY <1>7 DEF Ownable
<1>8. CASE c \in [tag : {"actionDoneMsg"}]
  BY <1>8 DEF Ownable
<1>9. CASE c \in [tag : {"passwordMsg"}, id : Names, pw : {"right", "stale", "error"}]
  BY <1>9 DEF Ownable, Password
<1>10. CASE c \in [tag : {"createdMsg"}, ok : BOOLEAN, of : {"now", "past"}]
  <2>1. LetGo(c) \in [tag : {"createdMsg"}, ok : BOOLEAN, of : {"now", "past"}]
    BY <1>10 DEF LetGo
  <2> QED BY <1>10, <2>1 DEF Ownable, Answers
<1>11. CASE c \in [tag : {"shutdownDoneMsg"}, result : {"ok", "unreachable", "error"}]
  BY <1>11 DEF Ownable
<1> QED BY <1>1, <1>2, <1>3, <1>4, <1>5, <1>6, <1>7, <1>8, <1>9, <1>10, <1>11
        DEF Asking, Answers

(* Disowned does that.                                                     *)
LEMMA DisownedBag ==
    ASSUME NEW T \in SUBSET Ownable, DOMAIN flight \subseteq Asking \cup Answers
    PROVE  Disowning(flight, Disowned(T), T)
<1> DEFINE Owned == {c \in InFlight(T) : c.of = "now"}
           kept  == Restrict(flight, DOMAIN flight \ Owned)
           past  == [n \in {LetGo(c) : c \in Owned} |-> flight[[n EXCEPT !.of = "now"]]]
           d     == kept (+) past
<1>1. Disowned(T) = d
  BY DEF Disowned
<1>2. \A c \in Owned : c \in DOMAIN flight /\ c.tag \in T /\ LetGo(c).tag = c.tag
                       /\ LetGo(c) \in Asking \cup Answers
  BY Kinds DEF InFlight
<1>3. DOMAIN kept = DOMAIN flight \ Owned /\ \A c \in DOMAIN kept : kept[c] = flight[c]
  BY DEF Restrict
<1>4. DOMAIN past = {LetGo(c) : c \in Owned}
  OBVIOUS
<1>5. /\ DOMAIN d = DOMAIN kept \cup DOMAIN past
      /\ \A c \in DOMAIN kept \ DOMAIN past : d[c] = kept[c] + 0
  BY DEF (+)
<1>6. \A c : c.tag \notin T => /\ c \in DOMAIN d <=> c \in DOMAIN flight
                               /\ c \in DOMAIN flight /\ flight[c] = 1 => d[c] = 1
  <2> TAKE c
  <2> HAVE c.tag \notin T
  <2>1. c \notin Owned /\ c \notin DOMAIN past
    BY <1>2, <1>4
  <2>2. c \in DOMAIN d <=> c \in DOMAIN flight
    BY <2>1, <1>3, <1>5
  <2>3. ASSUME c \in DOMAIN flight, flight[c] = 1 PROVE d[c] = 1
    <3>1. d[c] = kept[c] + 0 /\ kept[c] = 1
      BY <2>1, <2>3, <1>3, <1>5
    <3> QED BY <3>1
  <2> QED BY <2>2, <2>3
<1>7. \A n \in DOMAIN d : n.tag \in T => \E c \in DOMAIN flight : c.tag = n.tag
  BY <1>2, <1>3, <1>4, <1>5
<1>8. DOMAIN d \subseteq Asking \cup Answers
  <2>1. DOMAIN kept \subseteq Asking \cup Answers
    BY <1>3
  <2>2. DOMAIN past \subseteq Asking \cup Answers
    BY <1>2, <1>4
  <2> QED BY <2>1, <2>2, <1>5
<1> HIDE DEF d
<1> QED BY <1>1, <1>6, <1>7, <1>8 DEF Disowning

(* With its instance gone no copy of a password is right; the rest is      *)
(* untouched.                                                              *)
Outdating(b, d, i) ==
    /\ \A c : c.tag # "passwordMsg" => /\ c \in DOMAIN d <=> c \in DOMAIN b
                                       /\ c \in DOMAIN b /\ b[c] = 1 => d[c] = 1
    /\ DOMAIN d \subseteq DOMAIN b \cup {Password(i, "stale")}
    /\ Password(i, "right") \notin DOMAIN d

(* Gone does that.                                                         *)
LEMMA GoneBag ==
    ASSUME NEW b, NEW i
    PROVE  Outdating(b, Gone(i, b), i)
<1> DEFINE right == Password(i, "right")
           stale == Password(i, "stale")
<1>1. right.tag = "passwordMsg" /\ stale.tag = "passwordMsg" /\ right # stale
  <2>1. right.pw = "right" /\ stale.pw = "stale"
    BY DEF Password
  <2> QED BY <2>1 DEF Password
<1>2. CASE right \notin DOMAIN b
  <2>1. Gone(i, b) = b
    BY <1>2 DEF Gone
  <2> QED BY <1>2, <2>1 DEF Outdating
<1>3. CASE right \in DOMAIN b
  <2> DEFINE kept == Restrict(b, DOMAIN b \ {right})
             past == [c \in {stale} |-> b[right]]
             d == kept (+) past
  <2>1. Gone(i, b) = d
    BY <1>3 DEF Gone
  <2>2. DOMAIN kept = DOMAIN b \ {right} /\ \A c \in DOMAIN kept : kept[c] = b[c]
    BY DEF Restrict
  <2>3. DOMAIN past = {stale}
    OBVIOUS
  <2>4. /\ DOMAIN d = DOMAIN kept \cup DOMAIN past
        /\ \A c \in DOMAIN kept \ DOMAIN past : d[c] = kept[c] + 0
    BY DEF (+)
  <2> HIDE DEF kept, past, d, right, stale
  <2>5. \A c : c.tag # "passwordMsg" => /\ c \in DOMAIN d <=> c \in DOMAIN b
                                        /\ c \in DOMAIN b /\ b[c] = 1 => d[c] = 1
    <3> TAKE c
    <3> HAVE c.tag # "passwordMsg"
    <3>1. c # right /\ c # stale
      BY <1>1
    <3>2. c \in DOMAIN d <=> c \in DOMAIN b
      BY <3>1, <2>2, <2>3, <2>4
    <3>3. ASSUME c \in DOMAIN b, b[c] = 1 PROVE d[c] = 1
      <4>1. d[c] = kept[c] + 0 /\ kept[c] = 1
        BY <3>1, <3>3, <2>2, <2>3, <2>4
      <4> QED BY <4>1
    <3> QED BY <3>2, <3>3
  <2>6. DOMAIN d \subseteq DOMAIN b \cup {stale} /\ right \notin DOMAIN d
    BY <1>1, <2>2, <2>3, <2>4
  <2> QED BY <2>1, <2>5, <2>6 DEF Outdating, right, stale
<1> QED BY <1>2, <1>3

(* The same, of what the actions do.                                       *)
LEMMA LaunchTrades ==
    ASSUME NEW S, Launch(S)
    PROVE  Traded(flight, flight', {}, S)
  BY AddTrades DEF Launch

(* A message taken is traded for the commands it starts.                   *)
LEMMA TakeTrades ==
    ASSUME NEW c, NEW S, Take(c, S)
    PROVE  c \in DOMAIN flight /\ Traded(flight, flight', {c}, S)
<1>1. c \in DOMAIN flight /\ flight' = BagRemove(flight, c) (+) SetToBag(S)
  BY DEF Take
<1>2. Traded(flight, BagRemove(flight, c) (+) SetToBag(S), {c}, S)
  BY <1>1, SwapTrades
<1> QED BY <1>1, <1>2

(* A command carried out is traded for its answer.                         *)
LEMMA AnswerTrades ==
    ASSUME NEW c \in DOMAIN flight, NEW m
    PROVE  Traded(flight, Answered(c, m), {c}, {m})
  BY SwapTrades DEF Answered

Empty == DOMAIN EmptyBag = {}
(* With the process its commands end.                                      *)
LEMMA NothingLeft == Empty
  BY DEF Empty, EmptyBag, SetToBag

(* The commands that start.                                                *)
LEMMA Commands ==
    /\ {Fetch, Is("version"), Is("tick"), Is("update"), Is("conn"), Is("spin"),
        Is("shutdown"), Done} \subseteq Asking \cup Answers
    /\ \A i \in Names :
         /\ \A t \in {"start", "stop", "restart", "password"} :
               [tag |-> t, id |-> i] \in Asking \cup Answers
         /\ \A w \in BOOLEAN, n \in Names \cup {0} :
               [tag |-> "remove", id |-> i, wipe |-> w, typed |-> n] \in Asking \cup Answers
         /\ \A p \in {"right", "stale", "error"} : Password(i, p) \in Asking \cup Answers
    /\ \A i \in Names \cup {0} :
          [tag |-> "create", id |-> i, of |-> "now"] \in Asking \cup Answers
    /\ \A o \in {"now", "past"} :
         /\ [tag |-> "logs", of |-> o] \in Asking \cup Answers
         /\ [tag |-> "pull", of |-> o] \in Asking \cup Answers
         /\ \A ok \in BOOLEAN : [tag |-> "createdMsg", ok |-> ok, of |-> o] \in Asking \cup Answers
    /\ \A r \in {"ok", "unreachable", "error"} :
          [tag |-> "shutdownDoneMsg", result |-> r] \in Asking \cup Answers
    /\ \A ok \in BOOLEAN, l \in [Names -> Status] :
          [tag |-> "instancesMsg", ok |-> ok, rows |-> l] \in Asking \cup Answers
<1>1. {Fetch, Is("version"), Is("tick"), Is("update"), Is("conn"), Is("spin"), Is("shutdown")}
         \subseteq Asking
  BY DEF Fetch, Is, Asking
<1>2. Done \in Answers
  BY DEF Done, Is, Answers
<1>3. \A i \in Names :
         /\ \A t \in {"start", "stop", "restart", "password"} : [tag |-> t, id |-> i] \in Asking
         /\ \A w \in BOOLEAN, n \in Names \cup {0} :
               [tag |-> "remove", id |-> i, wipe |-> w, typed |-> n] \in Asking
  BY DEF Asking
<1>4. \A i \in Names : \A p \in {"right", "stale", "error"} : Password(i, p) \in Answers
  BY DEF Password, Answers
<1>5. /\ \A i \in Names \cup {0} : [tag |-> "create", id |-> i, of |-> "now"] \in Asking
      /\ \A o \in {"now", "past"} :
            [tag |-> "logs", of |-> o] \in Asking /\ [tag |-> "pull", of |-> o] \in Asking
  BY DEF Asking
<1>6. /\ \A o \in {"now", "past"}, ok \in BOOLEAN :
            [tag |-> "createdMsg", ok |-> ok, of |-> o] \in Answers
      /\ \A r \in {"ok", "unreachable", "error"} :
            [tag |-> "shutdownDoneMsg", result |-> r] \in Answers
  BY DEF Answers
<1>7. \A ok \in BOOLEAN, l \in [Names -> Status] :
         [tag |-> "instancesMsg", ok |-> ok, rows |-> l] \in Answers
  BY DEF Answers
<1> QED BY <1>1, <1>2, <1>3, <1>4, <1>5, <1>6, <1>7

(* What is traded for commands is commands.                                *)
LEMMA TradesCommands ==
    ASSUME NEW b, NEW d, NEW out, NEW new, Traded(b, d, out, new),
           DOMAIN b \subseteq Asking \cup Answers, new \subseteq Asking \cup Answers
    PROVE  DOMAIN d \subseteq Asking \cup Answers
  BY DEF Traded

-----------------------------------------------------------------------------
(* The rows of the list                                                    *)

LEMMA LastRowNat ==
    ASSUME NEW l
    PROVE  LastRow(l) \in Nat
<1> DEFINE R == Rows(l)
<1>1. IsFiniteSet(R)
  <2>1. R \in SUBSET Names
    BY DEF Rows
  <2>2. IsFiniteSet(Names)
    BY TuiAssumption
  <2> HIDE DEF R
  <2> QED BY <2>1, <2>2, FS_Subset
<1> HIDE DEF R
<1>2. Cardinality(R) \in Nat
  BY <1>1, FS_CardinalityType
<1>3. Cardinality(R) = 0 <=> R = {}
  BY <1>1, FS_EmptySet
<1>4. LastRow(l) = IF R = {} THEN 0 ELSE Cardinality(R) - 1
  BY DEF LastRow, R
<1> QED BY <1>2, <1>3, <1>4

(* The row under the cursor is one of the list.                            *)
LEMMA SelectedListed ==
    ASSUME Selectable
    PROVE  Selected \in Rows(list) /\ Selected \in Names
  BY DEF Selectable, Selected, Marked, Rows

Steps == {"engine", "version", "name", "port", "restart", "submitting"}

(* An instance that vanishes leaves every type as it was.                  *)
LEMMA VanishTypes ==
    ASSUME TypeOK, NEW i \in Names, NEW b, DOMAIN b \subseteq Asking \cup Answers, Vanish(i, b)
    PROVE  /\ world' \in [Names -> Status] /\ passwords' \in [Names -> {"none", "right", "stale"}]
           /\ DOMAIN flight' \subseteq Asking \cup Answers
<1>1. world' \in [Names -> Status]
  BY DEF Vanish, TypeOK, Status
<1>2. passwords' \in [Names -> {"none", "right", "stale"}]
  BY DEF Vanish, Outdated, TypeOK
<1>3. DOMAIN flight' \subseteq Asking \cup Answers
  <2>1. Outdating(b, flight', i)
    BY GoneBag DEF Vanish
  <2>2. Password(i, "stale") \in Asking \cup Answers
    BY Commands
  <2> QED BY <2>1, <2>2 DEF Outdating
<1> QED BY <1>1, <1>2, <1>3

(* Every step keeps the types.                                             *)
LEMMA TypesKept ==
    ASSUME IInv, Next PROVE TypeOK'
<1> USE DEF listVars, dialogs, outside, history
<1>0. TypeOK /\ (view = "destroy" => destroy.id \in Names)
  BY DEF IInv, Captured
<1>1. CASE AskQuit
  BY <1>1, <1>0
     DEF AskQuit, Key, TypeOK
<1>2. CASE StartUpdate
  BY <1>2, LaunchTrades, <1>0, Commands
     DEF StartUpdate, Key, Traded, TypeOK
<1>3. CASE MoveCursor
  BY <1>3, <1>0, LastRowNat
     DEF MoveCursor, Key, TypeOK
<1>4. CASE Refresh
  BY <1>4, LaunchTrades, <1>0, Commands
     DEF Refresh, Key, Traded, TypeOK
<1>5. CASE Toggle
  <2>1. PICK t \in {"start", "stop", "restart"} : Launch({[tag |-> t, id |-> Selected]})
    BY <1>5 DEF Toggle
  <2>2. [tag |-> t, id |-> Selected] \in Asking \cup Answers
    <3>1. Selected \in Names
      BY <1>5, SelectedListed DEF Toggle
    <3> QED BY <3>1, Commands
  <2>3. DOMAIN flight' \subseteq Asking \cup Answers
    <3>1. Traded(flight, flight', {}, {[tag |-> t, id |-> Selected]})
      BY <2>1, LaunchTrades
    <3> QED BY <1>0, <2>2, <3>1 DEF TypeOK, Traded
  <2> QED BY <1>5, <1>0, <2>3 DEF Toggle, TypeOK
<1>6. CASE AskConn
  BY <1>6, LaunchTrades, <1>0, Commands
     DEF AskConn, Key, Traded, TypeOK
<1>7. CASE OpenLogs
  <2>1. logs' \in [live : BOOLEAN, over : BOOLEAN, closed : BOOLEAN]
    BY <1>7, <1>0
       DEF TypeOK, OpenLogs, Stream, NoStream
  <2>2. DOMAIN flight' \subseteq Asking \cup Answers
    <3>1. Disowning(flight, Disowned({"logs"}), {"logs"})
      BY <1>0, DisownedBag DEF Ownable, TypeOK
    <3>2. Traded(Disowned({"logs"}), flight', {}, {[tag |-> "logs", of |-> "now"]})
      BY <1>7, AddTrades DEF OpenLogs
    <3>3. {[tag |-> "logs", of |-> "now"]} \subseteq Asking \cup Answers
      BY Commands
    <3> QED BY <3>1, <3>2, <3>3, TradesCommands DEF Disowning
  <2> QED
    BY <1>7, <1>0, <2>1, <2>2
       DEF OpenLogs, Key, TypeOK
<1>8. CASE OpenForm
  <2>1. form' \in [step : Steps, id : Names \cup {0}, ch : {"nil", "open", "closed"}]
    BY <1>8, <1>0
       DEF TypeOK, OpenForm, NewForm, Steps
  <2>2. DOMAIN flight' \subseteq Asking \cup Answers
    BY <1>8, <1>0, DisownedBag
       DEF TypeOK, OpenForm, Disowning, Ownable
  <2> QED
    BY <1>8, <1>0, <2>1, <2>2
       DEF OpenForm, Key, TypeOK, Steps
<1>9. CASE AskDestroy
  BY <1>9, <1>0, SelectedListed
     DEF AskDestroy, Key, TypeOK
<1>10. CASE CloseLogs
  <2>1. logs' \in [live : BOOLEAN, over : BOOLEAN, closed : BOOLEAN]
    BY <1>10, <1>0
       DEF TypeOK, CloseLogs
  <2>2. DOMAIN flight' \subseteq Asking \cup Answers
    BY <1>10, <1>0, LaunchTrades, Commands
       DEF TypeOK, CloseLogs, Traded
  <2> QED
    BY <1>10, <1>0, <2>1, <2>2
       DEF CloseLogs, Key, Back, TypeOK
<1>11. CASE CloseConn
  BY <1>11, <1>0
     DEF CloseConn, Key, Back, TypeOK
<1>12. CASE CloseUpdate
  BY <1>12, LaunchTrades, <1>0, Commands
     DEF CloseUpdate, Key, Back, Traded, TypeOK
<1>13. CASE LeaveForm
  BY <1>13, <1>0
     DEF LeaveForm, Key, Back, TypeOK
<1>14. CASE AdvanceForm
  <2>1. session.names \subseteq Names
    BY <1>0, TuiAssumption DEF TypeOK
  <2>2. form' \in [step : Steps, id : Names \cup {0}, ch : {"nil", "open", "closed"}]
    <3>1. form \in [step : Steps, id : Names \cup {0}, ch : {"nil", "open", "closed"}]
      BY <1>0 DEF TypeOK, Steps
    <3>2. \/ \E s \in Steps : form' = [form EXCEPT !.step = s]
          \/ \E i \in session.names : form' = [form EXCEPT !.id = i, !.step = "port"]
      BY <1>14 DEF AdvanceForm, Steps
    <3>3. "port" \in Steps
      BY DEF Steps
    <3> QED BY <2>1, <3>1, <3>2, <3>3
  <2>3. reborn' \subseteq Names
    <3>1. reborn' = reborn \/ \E i \in session.names : reborn' = reborn \cup ({i} \cap Rows(world))
      BY <1>14 DEF AdvanceForm
    <3> QED BY <1>0, <2>1, <3>1 DEF TypeOK
  <2>4. UNCHANGED <<session, phase, view, list, cursor, fetched, passwords, note, destroy, logs,
                    shutdown, update, flight, world, daemon, build, picked, leaked, astray>>
    BY <1>14 DEF AdvanceForm
  <2> QED BY <1>0, <2>2, <2>3, <2>4 DEF TypeOK, Steps
<1>15. CASE Submit
  <2>1. form' \in [step : Steps, id : Names \cup {0}, ch : {"nil", "open", "closed"}]
    BY <1>15, <1>0 DEF Submit, TypeOK, Steps
  <2>2. DOMAIN flight' \subseteq Asking \cup Answers
    <3> DEFINE S == {[tag |-> "create", id |-> form.id, of |-> "now"],
                     [tag |-> "pull", of |-> "now"], Is("spin")}
    <3>1. Disowning(flight, Disowned({"pull"}), {"pull"})
      BY <1>0, DisownedBag DEF Ownable, TypeOK
    <3>2. Traded(Disowned({"pull"}), flight', {}, S)
      BY <1>15, AddTrades DEF Submit
    <3>3. S \subseteq Asking \cup Answers
      <4>1. form.id \in Names \cup {0}
        BY <1>0 DEF TypeOK
      <4> QED BY <4>1, Commands
    <3> HIDE DEF S
    <3> QED BY <3>1, <3>2, <3>3, TradesCommands DEF Disowning
  <2>3. UNCHANGED <<session, phase, view, list, cursor, fetched, passwords, note, destroy, logs,
                    shutdown, update, world, daemon, build, picked, leaked, astray, reborn>>
    BY <1>15 DEF Submit
  <2> QED BY <1>0, <2>1, <2>2, <2>3 DEF TypeOK, Steps
<1>16. CASE ChooseDestroy
  <2>1. destroy' \in [id : Names \cup {0}, wipe : BOOLEAN, step : {"choose", "typeName", "working"}]
    BY <1>16, <1>0
       DEF TypeOK, ChooseDestroy
  <2> QED
    BY <1>16, <1>0, <2>1
       DEF ChooseDestroy, Key, TypeOK
<1>17. CASE LeaveDestroy
  <2>1. destroy' \in [id : Names \cup {0}, wipe : BOOLEAN, step : {"choose", "typeName", "working"}]
    BY <1>17, <1>0
       DEF TypeOK, LeaveDestroy
  <2> QED
    BY <1>17, <1>0, <2>1
       DEF LeaveDestroy, Key, Back, TypeOK
<1>18. CASE ConfirmDestroy
  <2>1. destroy' \in [id : Names \cup {0}, wipe : BOOLEAN, step : {"choose", "typeName", "working"}]
    BY <1>18, <1>0 DEF TypeOK, ConfirmDestroy, SubmitDestroy
  <2>2. DOMAIN flight' \subseteq Asking \cup Answers
    <3>1. CASE UNCHANGED flight
      BY <1>0, <3>1 DEF TypeOK
    <3>2. ASSUME NEW n \in Names \cup {0}, SubmitDestroy(n)
          PROVE  DOMAIN flight' \subseteq Asking \cup Answers
      <4>1. destroy.id \in Names /\ destroy.wipe \in BOOLEAN
        BY <1>18, <1>0 DEF TypeOK, ConfirmDestroy, Key
      <4> DEFINE c == [tag |-> "remove", id |-> destroy.id, wipe |-> destroy.wipe, typed |-> n]
      <4>2. c \in Asking \cup Answers
        BY <4>1, Commands
      <4>3. Traded(flight, flight', {}, {c})
        BY <3>2, LaunchTrades DEF SubmitDestroy, Doomed
      <4> QED BY <1>0, <4>2, <4>3 DEF TypeOK, Traded
    <3> QED BY <1>18, <3>1, <3>2 DEF ConfirmDestroy
  <2>3. view' \in {view, "list"}
    BY <1>18 DEF ConfirmDestroy, SubmitDestroy, Back
  <2>4. UNCHANGED <<session, phase, list, cursor, fetched, passwords, note, form, logs,
                    shutdown, update, world, daemon, build, picked, leaked, astray, reborn>>
    BY <1>18 DEF ConfirmDestroy
  <2> QED BY <1>0, <2>1, <2>2, <2>3, <2>4 DEF TypeOK
<1>19. CASE ConfirmQuit
  BY <1>19, LaunchTrades, <1>0, Commands
     DEF ConfirmQuit, Key, Traded, TypeOK
<1>20. CASE CancelQuit
  BY <1>20, <1>0
     DEF CancelQuit, Key, Back, TypeOK
<1>21. CASE CloseWindow
  <2>1. logs' \in [live : BOOLEAN, over : BOOLEAN, closed : BOOLEAN]
    BY <1>21, <1>0
       DEF TypeOK, CloseWindow, End
  <2>2. DOMAIN flight' \subseteq Asking \cup Answers
    BY <1>21, <1>0, NothingLeft
       DEF TypeOK, CloseWindow, End, Empty
  <2> QED
    BY <1>21, <1>0, <2>1, <2>2
       DEF CloseWindow, End, Key, TypeOK
<1>22. CASE TickMsg
  BY <1>22, TakeTrades, <1>0, Commands
     DEF TickMsg, Ticked, Traded, TypeOK
<1>23. CASE InstancesMsg
  <2> PICK m \in InFlight({"instancesMsg"}) :
         /\ fetched' = IF m.ok THEN "ok" ELSE "unreachable"
         /\ list' = IF m.ok THEN m.rows ELSE list
         /\ cursor' = Clamped(list', cursor)
         /\ passwords' = Listed(list', passwords)
         /\ Take(m, Missing(list', passwords))
    BY <1>23 DEF InstancesMsg
  <2>1. list' \in [Names -> Status]
    BY <1>0, Kinds DEF TypeOK, InFlight
  <2>2. cursor' \in 0..LastRow(list')
    <3>1. LastRow(list') \in Nat /\ LastRow(list) \in Nat
      BY LastRowNat
    <3> QED BY <1>0, <3>1 DEF TypeOK, Clamped
  <2>3. passwords' \in [Names -> {"none", "right", "stale"}]
    BY <1>0 DEF TypeOK, Listed
  <2>4. DOMAIN flight' \subseteq Asking \cup Answers
    <3>1. Missing(list', passwords) \subseteq Asking \cup Answers
      BY Commands DEF Missing
    <3> QED BY <1>0, <3>1, TakeTrades DEF TypeOK, Traded
  <2> QED BY <1>23, <1>0, <2>1, <2>2, <2>3, <2>4 DEF InstancesMsg, TypeOK
<1>24. CASE PasswordMsg
  <2>1. PICK m \in InFlight({"passwordMsg"}) :
           /\ passwords' = IF m.pw = "error" THEN passwords ELSE [passwords EXCEPT ![m.id] = m.pw]
           /\ reborn' \in {reborn, reborn \cup {m.id}}
           /\ Take(m, {})
    BY <1>24 DEF PasswordMsg
  <2>2. m.id \in Names /\ m.pw \in {"right", "stale", "error"}
    BY <1>0, Kinds DEF TypeOK, InFlight
  <2>3. passwords' \in [Names -> {"none", "right", "stale"}] /\ reborn' \subseteq Names
    BY <1>0, <2>1, <2>2 DEF TypeOK
  <2>4. DOMAIN flight' \subseteq Asking \cup Answers
    <3>1. Traded(flight, flight', {m}, {})
      BY <2>1, TakeTrades
    <3> QED BY <1>0, <3>1, TradesCommands DEF TypeOK
  <2>5. UNCHANGED <<session, phase, view, list, cursor, fetched, note, destroy, form, logs,
                    shutdown, update, world, daemon, build, picked, leaked, astray>>
    BY <1>24 DEF PasswordMsg
  <2> QED BY <1>0, <2>3, <2>4, <2>5 DEF TypeOK
<1>25. CASE ActionDoneMsg
  BY <1>25, TakeTrades, <1>0, Commands
     DEF ActionDoneMsg, Traded, TypeOK
<1>26. CASE ConnStringMsg
  BY <1>26, TakeTrades, <1>0, Commands
     DEF ConnStringMsg, Traded, TypeOK
<1>27. CASE PullMsg
  BY <1>27, TakeTrades, <1>0, Commands
     DEF PullMsg, NextReport, InFlight, Traded, TypeOK
<1>28. CASE SpinMsg
  BY <1>28, TakeTrades, <1>0, Commands
     DEF SpinMsg, Traded, TypeOK
<1>29. CASE CreatedMsg
  <2> PICK m \in InFlight({"createdMsg"}) :
         \/ m.ok /\ view' = "list" /\ UNCHANGED form /\ Take(m, {Fetch})
         \/ ~m.ok /\ form' = [form EXCEPT !.step = "restart"] /\ UNCHANGED view /\ Take(m, {})
    BY <1>29 DEF CreatedMsg
  <2>1. form' \in [step : Steps, id : Names \cup {0}, ch : {"nil", "open", "closed"}]
    BY <1>0 DEF TypeOK, Steps
  <2>2. DOMAIN flight' \subseteq Asking \cup Answers
    BY <1>0, TakeTrades, Commands DEF TypeOK, Traded
  <2>3. UNCHANGED <<session, phase, list, cursor, fetched, passwords, note, destroy, logs,
                    shutdown, update, world, daemon, build, picked, leaked, astray, reborn>>
    BY <1>29 DEF CreatedMsg
  <2> QED BY <1>0, <2>1, <2>2, <2>3 DEF TypeOK, Steps
<1>30. CASE LogMsg
  <2>1. logs' \in [live : BOOLEAN, over : BOOLEAN, closed : BOOLEAN]
    BY <1>30, <1>0
       DEF TypeOK, LogMsg, InFlight
  <2>2. DOMAIN flight' \subseteq Asking \cup Answers
    <3>1. PICK m \in InFlight({"logs"}), S \in {NextLine, {}} : Take(m, S)
      BY <1>30 DEF LogMsg
    <3>2. S \subseteq Asking \cup Answers
      BY Commands DEF NextLine
    <3>3. Traded(flight, flight', {m}, S)
      BY <3>1, TakeTrades
    <3> QED BY <1>0, <3>2, <3>3, TradesCommands DEF TypeOK
  <2> QED
    BY <1>30, <1>0, <2>1, <2>2
       DEF LogMsg, NextLine, InFlight, TypeOK
<1>31. CASE UpdateCheckedMsg
  BY <1>31, TakeTrades, <1>0, Commands
     DEF UpdateCheckedMsg, Traded, TypeOK
<1>32. CASE ShutdownDoneMsg
  <2> PICK m \in InFlight({"shutdownDoneMsg"}) :
             \/ m.result \in {"ok", "unreachable"} /\ End("quit") /\ UNCHANGED shutdown
             \/ m.result = "error" /\ shutdown # "nil" /\ shutdown' = "failed"
                /\ Take(m, {}) /\ UNCHANGED <<phase, logs>>
             \/ m.result = "error" /\ shutdown = "nil" /\ End("dead") /\ UNCHANGED shutdown
    BY <1>32 DEF ShutdownDoneMsg
  <2>1. logs' \in [live : BOOLEAN, over : BOOLEAN, closed : BOOLEAN]
    BY <1>32, <1>0
       DEF TypeOK, End
  <2>2. DOMAIN flight' \subseteq Asking \cup Answers
    BY <1>32, <1>0, TakeTrades, NothingLeft
       DEF TypeOK, End, Traded, Empty
  <2> QED
    BY <1>32, <1>0, <2>1, <2>2
       DEF ShutdownDoneMsg, InFlight, End, TypeOK
<1>33. CASE StaleMsg
  BY <1>33, TakeTrades, <1>0, Commands
     DEF StaleMsg, Traded, TypeOK
<1>34. CASE ServeList
  <2>1. DOMAIN flight' \subseteq Asking \cup Answers
    <3>1. \E ok \in BOOLEAN, l \in [Names -> Status] :
             flight' = Answered(Fetch, [tag |-> "instancesMsg", ok |-> ok, rows |-> l])
      <4>1. [i \in Names |-> "none"] \in [Names -> Status] /\ world \in [Names -> Status]
        BY <1>0 DEF TypeOK, Status
      <4> QED BY <1>34, <4>1 DEF ServeList
    <3>2. PICK m \in Asking \cup Answers : flight' = Answered(Fetch, m)
      BY <3>1, Commands
    <3>3. Traded(flight, flight', {Fetch}, {m})
      BY <1>34, <3>2, AnswerTrades DEF ServeList
    <3> QED BY <1>0, <3>3, TradesCommands DEF TypeOK
  <2> QED BY <1>34, <1>0, <2>1 DEF ServeList, TypeOK
<1>35. CASE ServePassword
  <2>1. DOMAIN flight' \subseteq Asking \cup Answers
    <3>1. PICK c \in InFlight({"password"}), p \in {"right", "error"} :
             flight' = Answered(c, Password(c.id, p))
      BY <1>35 DEF ServePassword
    <3>2. c \in DOMAIN flight /\ c.id \in Names
      BY <1>0, Kinds DEF TypeOK, InFlight
    <3>3. Password(c.id, p) \in Asking \cup Answers
      BY <3>2, Commands
    <3>4. Traded(flight, flight', {c}, {Password(c.id, p)})
      BY <3>1, <3>2, AnswerTrades
    <3> QED BY <1>0, <3>3, <3>4 DEF TypeOK, Traded
  <2> QED BY <1>35, <1>0, <2>1 DEF ServePassword, TypeOK
<1>36. CASE ServeAction
  <2>1. world' \in [Names -> Status]
    BY <1>36, <1>0, Kinds
       DEF TypeOK, ServeAction, InFlight, Status
  <2>2. DOMAIN flight' \subseteq Asking \cup Answers
    BY <1>36, <1>0, AnswerTrades, Commands
       DEF TypeOK, ServeAction, Traded, InFlight
  <2> QED
    BY <1>36, <1>0, <2>1, <2>2
       DEF ServeAction, InFlight, TypeOK
<1>37. CASE ServeRemove
  <2> PICK c \in InFlight({"remove"}) :
             \/ daemon = "up" /\ Vanish(c.id, Answered(c, Done))
             \/ flight' = Answered(c, Done) /\ UNCHANGED <<world, passwords>>
    BY <1>37 DEF ServeRemove
  <2>1. c.id \in Names /\ c \in DOMAIN flight
    BY <1>0, Kinds DEF TypeOK, InFlight
  <2>2. DOMAIN Answered(c, Done) \subseteq Asking \cup Answers
    BY <1>0, <2>1, AnswerTrades, Commands DEF TypeOK, Traded
  <2>3. CASE Vanish(c.id, Answered(c, Done))
    <3>1. /\ world' \in [Names -> Status] /\ passwords' \in [Names -> {"none", "right", "stale"}]
          /\ DOMAIN flight' \subseteq Asking \cup Answers
      BY <1>0, <2>1, <2>2, <2>3, VanishTypes
    <3> QED BY <1>37, <1>0, <3>1 DEF ServeRemove, TypeOK
  <2>4. CASE flight' = Answered(c, Done) /\ UNCHANGED <<world, passwords>>
    BY <1>37, <1>0, <2>2, <2>4 DEF ServeRemove, TypeOK
  <2> QED BY <2>3, <2>4
<1>38. CASE ServeCreate
  <2> PICK c \in InFlight({"create"}), ok \in BOOLEAN :
         /\ \/ UNCHANGED <<world, reborn>>
            \/ \E i \in Meant(c) :
                 /\ \E s \in Made(ok) : world' = [world EXCEPT ![i] = s]
                 /\ reborn' = IF ok THEN reborn ELSE reborn \cup {i}
         /\ flight' = Answered(c, [tag |-> "createdMsg", ok |-> ok, of |-> c.of])
         /\ form' = IF c.of = "now" THEN [form EXCEPT !.ch = "closed"] ELSE form
    BY <1>38 DEF ServeCreate
  <2>1. c \in DOMAIN flight /\ c.tag = "create" /\ c \in Asking \cup Answers
    BY <1>0 DEF InFlight, TypeOK
  <2>2. c.of \in {"now", "past"}
    BY <2>1, Kinds DEF Ownable
  <2>3. DOMAIN flight' \subseteq Asking \cup Answers
    <3>1. [tag |-> "createdMsg", ok |-> ok, of |-> c.of] \in Asking \cup Answers
      BY <2>2, Commands
    <3> QED BY <1>0, <2>1, <3>1, AnswerTrades DEF TypeOK, Traded
  <2>4. world' \in [Names -> Status] /\ reborn' \subseteq Names
    <3>1. Meant(c) \subseteq Names
      BY <1>0, <2>1, TuiAssumption DEF Meant, TypeOK, Asking, Answers
    <3> QED BY <1>0, <3>1 DEF TypeOK, Status, Made
  <2>5. form' \in [step : Steps, id : Names \cup {0}, ch : {"nil", "open", "closed"}]
    BY <1>0 DEF TypeOK, Steps
  <2>6. UNCHANGED <<session, phase, view, list, cursor, fetched, passwords, note, destroy, logs,
                    shutdown, update, daemon, build, picked, leaked, astray>>
    BY <1>38 DEF ServeCreate
  <2> QED BY <1>0, <2>3, <2>4, <2>5, <2>6 DEF TypeOK, Steps
<1>39. CASE ServeShutdown
  <2>1. Is("shutdown") \in DOMAIN flight
    BY <1>39, <1>0, Kinds
       DEF TypeOK, ServeShutdown, Running, InFlight, Is, Asking, Answers
  <2>2. world' \in [Names -> Status]
    <3>1. \/ UNCHANGED world
          \/ \E stopped \in SUBSET Names :
               world' = [i \in Names |-> IF i \in stopped /\ world[i] = "running" THEN "stopped"
                                        ELSE world[i]]
      BY <1>39 DEF ServeShutdown
    <3>2. world \in [Names -> Status] BY <1>0 DEF TypeOK
    <3> QED BY <3>1, <3>2 DEF Status
  <2>3. DOMAIN flight' \subseteq Asking \cup Answers
    <3>1. PICK r \in {"ok", "unreachable", "error"} :
             flight' = Answered(Is("shutdown"), [tag |-> "shutdownDoneMsg", result |-> r])
      BY <1>39 DEF ServeShutdown
    <3>2. [tag |-> "shutdownDoneMsg", result |-> r] \in Asking \cup Answers
      BY Commands
    <3> QED BY <1>0, <2>1, <3>1, <3>2, AnswerTrades DEF TypeOK, Traded
  <2> QED
    BY <1>39, <1>0, <2>1, <2>2, <2>3
       DEF ServeShutdown, InFlight, Running, TypeOK
<1>40. CASE Outside
  <2>1. session.names \subseteq Names
    BY <1>0, TuiAssumption DEF TypeOK
  <2>2. CASE \E i \in Names : Vanish(i, flight)
    <3>1. /\ world' \in [Names -> Status] /\ passwords' \in [Names -> {"none", "right", "stale"}]
          /\ DOMAIN flight' \subseteq Asking \cup Answers
      BY <1>0, <2>2, VanishTypes DEF TypeOK
    <3> QED BY <1>40, <1>0, <2>1, <3>1 DEF Outside, TypeOK
  <2>3. CASE UNCHANGED <<passwords, flight>>
    <3>1. world' \in [Names -> Status]
      BY <1>40, <1>0, <2>1, <2>3 DEF Outside, TypeOK, Status, Vanish
    <3> QED BY <1>40, <1>0, <2>1, <2>3, <3>1 DEF Outside, TypeOK
  <2> QED BY <1>40, <2>2, <2>3 DEF Outside
<1> QED
  BY <1>1, <1>2, <1>3, <1>4, <1>5, <1>6, <1>7, <1>8, <1>9, <1>10, <1>11, <1>12,
     <1>13, <1>14, <1>15, <1>16, <1>17, <1>18, <1>19, <1>20, <1>21, <1>22,
     <1>23, <1>24, <1>25, <1>26, <1>27, <1>28, <1>29, <1>30, <1>31, <1>32,
     <1>33, <1>34, <1>35, <1>36, <1>37, <1>38, <1>39, <1>40
     DEF Next, Keyboard, Update, Serve

-----------------------------------------------------------------------------
(* The dialogs                                                             *)

LEMMA CapturedKept ==
    ASSUME IInv, Next PROVE Captured'
<1> USE DEF listVars, dialogs, outside, history
<1>0. TypeOK /\ Captured
  BY DEF IInv
<1>1. CASE AskQuit
  BY <1>1, <1>0
     DEF AskQuit, Key, Captured
<1>2. CASE StartUpdate
  BY <1>2, <1>0
     DEF StartUpdate, Key, Captured
<1>3. CASE MoveCursor
  BY <1>3, <1>0
     DEF MoveCursor, Key, Captured
<1>4. CASE Refresh
  BY <1>4, <1>0
     DEF Refresh, Key, Captured
<1>5. CASE Toggle
  BY <1>5, <1>0
     DEF Toggle, Toggle, Key, Captured
<1>6. CASE AskConn
  BY <1>6, <1>0
     DEF AskConn, Key, Captured
<1>7. CASE OpenLogs
  BY <1>7, <1>0
     DEF OpenLogs, Key, Captured
<1>8. CASE OpenForm
  BY <1>8, <1>0
     DEF OpenForm, Key, Captured
<1>9. CASE AskDestroy
  BY <1>9, <1>0, SelectedListed
     DEF AskDestroy, Key, Captured
<1>10. CASE CloseLogs
  BY <1>10, <1>0
     DEF CloseLogs, Key, Back, Captured
<1>11. CASE CloseConn
  BY <1>11, <1>0
     DEF CloseConn, Key, Back, Captured
<1>12. CASE CloseUpdate
  BY <1>12, <1>0
     DEF CloseUpdate, Key, Back, Captured
<1>13. CASE LeaveForm
  BY <1>13, <1>0
     DEF LeaveForm, Key, Back, Captured
<1>14. CASE AdvanceForm
  BY <1>14, <1>0
     DEF AdvanceForm, Key, Captured
<1>15. CASE Submit
  BY <1>15, <1>0
     DEF Submit, Key, Captured
<1>16. CASE ChooseDestroy
  BY <1>16, <1>0
     DEF ChooseDestroy, Key, Captured, TypeOK
<1>17. CASE LeaveDestroy
  BY <1>17, <1>0
     DEF LeaveDestroy, Key, Back, Captured, TypeOK
<1>18. CASE ConfirmDestroy
  BY <1>18, <1>0
     DEF ConfirmDestroy, SubmitDestroy, Doomed, Key, Back, Captured, TypeOK
<1>19. CASE ConfirmQuit
  BY <1>19, <1>0
     DEF ConfirmQuit, Key, Captured
<1>20. CASE CancelQuit
  BY <1>20, <1>0
     DEF CancelQuit, Key, Back, Captured
<1>21. CASE CloseWindow
  BY <1>21, <1>0
     DEF CloseWindow, End, Key, Captured
<1>22. CASE TickMsg
  BY <1>22, <1>0
     DEF TickMsg, Captured
<1>23. CASE InstancesMsg
  BY <1>23, <1>0
     DEF InstancesMsg, Captured
<1>24. CASE PasswordMsg
  BY <1>24, <1>0
     DEF PasswordMsg, Captured
<1>25. CASE ActionDoneMsg
  BY <1>25, <1>0
     DEF ActionDoneMsg, Captured
<1>26. CASE ConnStringMsg
  BY <1>26, <1>0
     DEF ConnStringMsg, Captured
<1>27. CASE PullMsg
  BY <1>27, <1>0
     DEF PullMsg, Captured
<1>28. CASE SpinMsg
  BY <1>28, <1>0
     DEF SpinMsg, Captured
<1>29. CASE CreatedMsg
  BY <1>29, <1>0
     DEF CreatedMsg, Captured
<1>30. CASE LogMsg
  BY <1>30, <1>0
     DEF LogMsg, Captured
<1>31. CASE UpdateCheckedMsg
  BY <1>31, <1>0
     DEF UpdateCheckedMsg, Captured
<1>32. CASE ShutdownDoneMsg
  BY <1>32, <1>0
     DEF ShutdownDoneMsg, End, Captured
<1>33. CASE StaleMsg
  BY <1>33, <1>0
     DEF StaleMsg, Captured
<1>34. CASE ServeList
  BY <1>34, <1>0
     DEF ServeList, Captured
<1>35. CASE ServePassword
  BY <1>35, <1>0
     DEF ServePassword, Captured
<1>36. CASE ServeAction
  BY <1>36, <1>0
     DEF ServeAction, Captured
<1>37. CASE ServeRemove
  BY <1>37, <1>0
     DEF ServeRemove, Captured
<1>38. CASE ServeCreate
  BY <1>38, <1>0
     DEF ServeCreate, Captured
<1>39. CASE ServeShutdown
  BY <1>39, <1>0
     DEF ServeShutdown, Running, Captured
<1>40. CASE Outside
  BY <1>40, <1>0
     DEF Outside, Captured
<1> QED
  BY <1>1, <1>2, <1>3, <1>4, <1>5, <1>6, <1>7, <1>8, <1>9, <1>10, <1>11, <1>12,
     <1>13, <1>14, <1>15, <1>16, <1>17, <1>18, <1>19, <1>20, <1>21, <1>22,
     <1>23, <1>24, <1>25, <1>26, <1>27, <1>28, <1>29, <1>30, <1>31, <1>32,
     <1>33, <1>34, <1>35, <1>36, <1>37, <1>38, <1>39, <1>40
     DEF Next, Keyboard, Update, Serve

(* Every step keeps the name of the form.                                  *)
LEMMA FormNamedKept ==
    ASSUME IInv, Next PROVE FormNamed'
<1> USE DEF listVars, dialogs, outside, history
<1>0. TypeOK /\ FormNamed /\ FormHeld
  BY DEF IInv
<1>1. CASE AskQuit
  BY <1>1, <1>0
     DEF AskQuit, Key, FormNamed
<1>2. CASE StartUpdate
  BY <1>2, <1>0
     DEF StartUpdate, Key, FormNamed
<1>3. CASE MoveCursor
  BY <1>3, <1>0
     DEF MoveCursor, Key, FormNamed
<1>4. CASE Refresh
  BY <1>4, <1>0
     DEF Refresh, Key, FormNamed
<1>5. CASE Toggle
  BY <1>5, <1>0
     DEF Toggle, Toggle, Key, FormNamed
<1>6. CASE AskConn
  BY <1>6, <1>0
     DEF AskConn, Key, FormNamed
<1>7. CASE OpenLogs
  BY <1>7, <1>0
     DEF OpenLogs, Key, FormNamed
<1>8. CASE OpenForm
  BY <1>8, <1>0
     DEF OpenForm, Key, FormNamed, NewForm
<1>9. CASE AskDestroy
  BY <1>9, <1>0
     DEF AskDestroy, Key, FormNamed
<1>10. CASE CloseLogs
  BY <1>10, <1>0
     DEF CloseLogs, Key, Back, FormNamed
<1>11. CASE CloseConn
  BY <1>11, <1>0
     DEF CloseConn, Key, Back, FormNamed
<1>12. CASE CloseUpdate
  BY <1>12, <1>0
     DEF CloseUpdate, Key, Back, FormNamed
<1>13. CASE LeaveForm
  BY <1>13, <1>0
     DEF LeaveForm, Key, Back, FormNamed
<1>14. CASE AdvanceForm
  <2>1. session.names \subseteq Names
    BY <1>0, TuiAssumption DEF TypeOK
  <2>2. \/ form'.step \in {"version", "name"}
        \/ form'.step = "port" /\ form'.id \in Names
        \/ form.step = "port" /\ form'.step = "restart" /\ form'.id = form.id
    <3>1. form \in [step : Steps, id : Names \cup {0}, ch : {"nil", "open", "closed"}]
      BY <1>0 DEF TypeOK, Steps
    <3>2. \/ \E s \in {"version", "name"} : form' = [form EXCEPT !.step = s]
          \/ \E i \in session.names : form' = [form EXCEPT !.id = i, !.step = "port"]
          \/ form.step = "port" /\ form' = [form EXCEPT !.step = "restart"]
      BY <1>14 DEF AdvanceForm
    <3> QED BY <2>1, <3>1, <3>2
  <2> QED BY <1>14, <1>0, <2>2 DEF AdvanceForm, FormNamed
<1>15. CASE Submit
  BY <1>15, <1>0
     DEF Submit, Key, FormNamed, TypeOK
<1>16. CASE ChooseDestroy
  BY <1>16, <1>0
     DEF ChooseDestroy, Key, FormNamed
<1>17. CASE LeaveDestroy
  BY <1>17, <1>0
     DEF LeaveDestroy, Key, Back, FormNamed
<1>18. CASE ConfirmDestroy
  BY <1>18, <1>0
     DEF ConfirmDestroy, SubmitDestroy, Doomed, Key, Back, FormNamed
<1>19. CASE ConfirmQuit
  BY <1>19, <1>0
     DEF ConfirmQuit, Key, FormNamed
<1>20. CASE CancelQuit
  BY <1>20, <1>0
     DEF CancelQuit, Key, Back, FormNamed
<1>21. CASE CloseWindow
  BY <1>21, <1>0
     DEF CloseWindow, End, Key, FormNamed
<1>22. CASE TickMsg
  BY <1>22, <1>0
     DEF TickMsg, FormNamed
<1>23. CASE InstancesMsg
  BY <1>23, <1>0
     DEF InstancesMsg, FormNamed
<1>24. CASE PasswordMsg
  BY <1>24, <1>0
     DEF PasswordMsg, FormNamed
<1>25. CASE ActionDoneMsg
  BY <1>25, <1>0
     DEF ActionDoneMsg, FormNamed
<1>26. CASE ConnStringMsg
  BY <1>26, <1>0
     DEF ConnStringMsg, FormNamed
<1>27. CASE PullMsg
  BY <1>27, <1>0
     DEF PullMsg, FormNamed
<1>28. CASE SpinMsg
  BY <1>28, <1>0
     DEF SpinMsg, FormNamed
<1>29. CASE CreatedMsg
  <2> PICK m \in InFlight({"createdMsg"}) :
         form' = form \/ form' = [form EXCEPT !.step = "restart"]
    BY <1>29 DEF CreatedMsg
  <2>1. form'.id = form.id
    BY <1>0 DEF TypeOK
  <2>2. ~astray => form.step = "submitting"
    BY <1>0 DEF FormHeld, InFlight, Creation
  <2> QED BY <1>29, <1>0, <2>1, <2>2 DEF CreatedMsg, FormNamed
<1>30. CASE LogMsg
  BY <1>30, <1>0
     DEF LogMsg, FormNamed
<1>31. CASE UpdateCheckedMsg
  BY <1>31, <1>0
     DEF UpdateCheckedMsg, FormNamed
<1>32. CASE ShutdownDoneMsg
  BY <1>32, <1>0
     DEF ShutdownDoneMsg, End, FormNamed
<1>33. CASE StaleMsg
  BY <1>33, <1>0
     DEF StaleMsg, FormNamed
<1>34. CASE ServeList
  BY <1>34, <1>0
     DEF ServeList, FormNamed
<1>35. CASE ServePassword
  BY <1>35, <1>0
     DEF ServePassword, FormNamed
<1>36. CASE ServeAction
  BY <1>36, <1>0
     DEF ServeAction, FormNamed
<1>37. CASE ServeRemove
  BY <1>37, <1>0
     DEF ServeRemove, FormNamed
<1>38. CASE ServeCreate
  BY <1>38, <1>0
     DEF ServeCreate, FormNamed, TypeOK
<1>39. CASE ServeShutdown
  BY <1>39, <1>0
     DEF ServeShutdown, Running, FormNamed
<1>40. CASE Outside
  BY <1>40, <1>0
     DEF Outside, FormNamed
<1> QED
  BY <1>1, <1>2, <1>3, <1>4, <1>5, <1>6, <1>7, <1>8, <1>9, <1>10, <1>11, <1>12,
     <1>13, <1>14, <1>15, <1>16, <1>17, <1>18, <1>19, <1>20, <1>21, <1>22,
     <1>23, <1>24, <1>25, <1>26, <1>27, <1>28, <1>29, <1>30, <1>31, <1>32,
     <1>33, <1>34, <1>35, <1>36, <1>37, <1>38, <1>39, <1>40
     DEF Next, Keyboard, Update, Serve

-----------------------------------------------------------------------------
(* Creates, shutdowns, passwords and removals in flight                    *)

Held == Creation \cup Farewell \cup {"passwordMsg", "remove"}

(* Of the commands of the kinds X none is added, and one that was there    *)
(* once still is, or is gone.                                              *)
Keeps(X, b, d) == \A c : c.tag \in X /\ c \in DOMAIN d =>
                            c \in DOMAIN b /\ (b[c] = 1 => d[c] = 1)

(* A trade for commands of other kinds adds none of these.                 *)
LEMMA TradedKeeps ==
    ASSUME NEW b, NEW d, NEW out, NEW new, NEW X, Traded(b, d, out, new),
           \A n \in new : n.tag \notin X
    PROVE  Keeps(X, b, d)
<1> SUFFICES ASSUME NEW c, c.tag \in X, c \in DOMAIN d
             PROVE  c \in DOMAIN b /\ (b[c] = 1 => d[c] = 1)
  BY DEF Keeps
<1>1. c \in DOMAIN b \ new
  BY DEF Traded
<1>2. ASSUME b[c] = 1 PROVE d[c] = 1
  <2>1. c \notin out
    BY <1>1, <1>2 DEF Traded
  <2> QED BY <1>1, <1>2, <2>1 DEF Traded
<1> QED BY <1>1, <1>2

(* The same, of commands that start,                                       *)
LEMMA LaunchKeeps ==
    ASSUME NEW S, Launch(S), \A n \in S : n.tag \notin Held
    PROVE  Keeps(Held, flight, flight')
  BY LaunchTrades, TradedKeeps

(* of a message that is taken,                                             *)
LEMMA TakeKeeps ==
    ASSUME NEW c, NEW S, Take(c, S), \A n \in S : n.tag \notin Held
    PROVE  Keeps(Held, flight, flight')
<1>1. Traded(flight, flight', {c}, S)
  BY TakeTrades
<1> QED BY <1>1, TradedKeeps

(* of a command that is answered,                                          *)
LEMMA AnswerKeeps ==
    ASSUME NEW c \in DOMAIN flight, NEW m, m.tag \notin Held
    PROVE  Keeps(Held, flight, Answered(c, m))
<1>1. Traded(flight, Answered(c, m), {c}, {m})
  BY AnswerTrades
<1> QED BY <1>1, TradedKeeps

(* and of an instance that vanishes.                                       *)
LEMMA VanishKeeps ==
    ASSUME NEW i, NEW b, Vanish(i, b)
    PROVE  Keeps(Creation \cup Farewell \cup {"remove"}, b, flight')
<1>1. Outdating(b, flight', i)
  BY GoneBag DEF Vanish
<1> QED BY <1>1 DEF Outdating, Keeps, Creation, Farewell

(* What it says of a kind of which there is one at most.                   *)
LEMMA SingleKept ==
    ASSUME NEW T, Single(T), Keeps(T, flight, flight')
    PROVE  Single(T)' /\ \A c \in InFlight(T)' : c \in InFlight(T)
<1>1. \A c \in InFlight(T)' : c \in InFlight(T) /\ (flight[c] = 1 => flight'[c] = 1)
  BY DEF InFlight, Keeps
<1> QED BY <1>1 DEF Single

(* And when the one there may be goes and another comes.                   *)
LEMMA SingleTraded ==
    ASSUME NEW T, Single(T), NEW out, NEW new, NEW m, Traded(flight, flight', out, new),
           InFlight(T) \subseteq out, m \notin out,
           {n \in new : n.tag \in T} \subseteq {m}
    PROVE  Single(T)' /\ \A c \in InFlight(T)' : c = m
<1>1. ASSUME NEW c \in InFlight(T)' PROVE c = m /\ flight'[c] = 1
  <2>1. c \in DOMAIN flight' /\ c.tag \in T
    BY DEF InFlight
  <2>2. c \in new
    <3>1. SUFFICES ASSUME c \notin new PROVE FALSE
      OBVIOUS
    <3>2. c \in InFlight(T)
      BY <2>1, <3>1 DEF Traded, InFlight
    <3>3. flight[c] = 1 /\ c \in out
      BY <3>2 DEF Single
    <3> QED BY <2>1, <3>1, <3>3 DEF Traded
  <2>3. c = m
    BY <2>1, <2>2
  <2>4. c \notin DOMAIN flight
    BY <2>1, <2>3 DEF InFlight
  <2> QED BY <2>2, <2>3, <2>4 DEF Traded
<1> QED BY <1>1 DEF Single

(* There is one command that shuts the daemon down.                        *)
LEMMA ShutdownIs ==
    ASSUME DOMAIN flight \subseteq Asking \cup Answers, NEW c \in InFlight({"shutdown"})
    PROVE  c = Is("shutdown")
<1>1. c \in Asking \cup Answers /\ c.tag = "shutdown"
  BY DEF InFlight
<1>2. c \in [tag : {"list", "shutdown", "conn", "update", "version", "tick", "spin"}]
  BY <1>1 DEF Asking, Answers
<1> QED BY <1>1, <1>2 DEF Is

(* All but these nine leave the creates, the shutdowns, the passwords and  *)
(* the removals in flight alone, or let them go.                           *)
LEMMA OthersKeep ==
    ASSUME IInv, Next
    PROVE  \/ Keeps(Held, flight, flight')
           \/ OpenForm \/ Submit \/ ConfirmDestroy \/ ConfirmQuit
           \/ ServeCreate \/ ServeShutdown \/ ServePassword \/ ServeRemove \/ Outside
<1>0. DOMAIN flight \subseteq Asking \cup Answers
  BY DEF IInv, TypeOK
<1> USE DEF Held, Creation, Farewell
<1>1. CASE AskQuit
  BY <1>1
     DEF AskQuit, Keeps
<1>2. CASE StartUpdate
  BY <1>2, LaunchKeeps
     DEF StartUpdate, Is
<1>3. CASE MoveCursor
  BY <1>3
     DEF MoveCursor, Keeps
<1>4. CASE Refresh
  BY <1>4, LaunchKeeps
     DEF Refresh, Is, Fetch
<1>5. CASE Toggle
  BY <1>5, LaunchKeeps
     DEF Toggle
<1>6. CASE AskConn
  BY <1>6, LaunchKeeps
     DEF AskConn, Is
<1>7. CASE OpenLogs
  <2>1. Disowning(flight, Disowned({"logs"}), {"logs"})
    BY <1>0, DisownedBag DEF Ownable
  <2>2. Traded(Disowned({"logs"}), flight', {}, {[tag |-> "logs", of |-> "now"]})
    BY <1>7, AddTrades DEF OpenLogs
  <2>3. Keeps(Held, Disowned({"logs"}), flight')
    BY <2>2, TradedKeeps
  <2> QED BY <2>1, <2>3 DEF Disowning, Keeps
<1>8. CASE AskDestroy
  BY <1>8
     DEF AskDestroy, Keeps
<1>9. CASE CloseLogs
  BY <1>9, LaunchKeeps
     DEF CloseLogs, Is, Fetch
<1>10. CASE CloseConn
  BY <1>10
     DEF CloseConn, Keeps
<1>11. CASE CloseUpdate
  BY <1>11, LaunchKeeps
     DEF CloseUpdate, Is, Fetch, Keeps
<1>12. CASE LeaveForm
  BY <1>12
     DEF LeaveForm, Keeps
<1>13. CASE AdvanceForm
  BY <1>13
     DEF AdvanceForm, Keeps
<1>14. CASE ChooseDestroy
  BY <1>14
     DEF ChooseDestroy, Keeps
<1>15. CASE LeaveDestroy
  BY <1>15
     DEF LeaveDestroy, Keeps
<1>16. CASE CancelQuit
  BY <1>16
     DEF CancelQuit, Keeps
<1>17. CASE CloseWindow
  BY <1>17, NothingLeft
     DEF CloseWindow, End, Keeps, Empty
<1>18. CASE TickMsg
  BY <1>18, TakeKeeps
     DEF TickMsg, Ticked, Is, Fetch
<1>19. CASE InstancesMsg
  BY <1>19, TakeKeeps
     DEF InstancesMsg, Missing
<1>20. CASE PasswordMsg
  BY <1>20, TakeKeeps
     DEF PasswordMsg
<1>21. CASE ActionDoneMsg
  BY <1>21, TakeKeeps
     DEF ActionDoneMsg, Is, Fetch
<1>22. CASE ConnStringMsg
  BY <1>22, TakeKeeps
     DEF ConnStringMsg
<1>23. CASE PullMsg
  BY <1>23, TakeKeeps
     DEF PullMsg, NextReport
<1>24. CASE SpinMsg
  BY <1>24, TakeKeeps
     DEF SpinMsg, Is
<1>25. CASE CreatedMsg
  BY <1>25, TakeKeeps
     DEF CreatedMsg, Is, Fetch
<1>26. CASE LogMsg
  BY <1>26, TakeKeeps
     DEF LogMsg, NextLine
<1>27. CASE UpdateCheckedMsg
  BY <1>27, TakeKeeps
     DEF UpdateCheckedMsg
<1>28. CASE ShutdownDoneMsg
  BY <1>28, TakeKeeps, NothingLeft
     DEF ShutdownDoneMsg, End, Keeps, Empty
<1>29. CASE StaleMsg
  BY <1>29, TakeKeeps
     DEF StaleMsg
<1>30. CASE ServeList
  BY <1>30, AnswerKeeps
     DEF ServeList
<1>31. CASE ServeAction
  BY <1>31, AnswerKeeps
     DEF ServeAction, InFlight, Done, Is
<1> QED
  BY <1>0, <1>1, <1>2, <1>3, <1>4, <1>5, <1>6, <1>7, <1>8, <1>9, <1>10, <1>11,
     <1>12, <1>13, <1>14, <1>15, <1>16, <1>17, <1>18, <1>19, <1>20, <1>21,
     <1>22, <1>23, <1>24, <1>25, <1>26, <1>27, <1>28, <1>29, <1>30, <1>31
     DEF Next, Keyboard, Update, Serve

(* Passwords and instances that go leave the other kinds alone.            *)
LEMMA RemovalKeeps ==
    ASSUME ServePassword \/ ServeRemove \/ Outside
    PROVE  Keeps(Creation \cup Farewell \cup {"remove"}, flight, flight')
<1>1. CASE ServePassword
  <2> PICK c \in InFlight({"password"}) : \E p : flight' = Answered(c, Password(c.id, p))
    BY <1>1 DEF ServePassword
  <2>1. PICK p : flight' = Answered(c, Password(c.id, p))
    OBVIOUS
  <2>2. Traded(flight, flight', {c}, {Password(c.id, p)})
    BY <2>1, AnswerTrades DEF InFlight
  <2> QED BY <2>2, TradedKeeps DEF Password, Creation, Farewell
<1>2. CASE ServeRemove
  <2> PICK c \in InFlight({"remove"}) :
             Vanish(c.id, Answered(c, Done)) \/ flight' = Answered(c, Done)
    BY <1>2 DEF ServeRemove
  <2>1. Traded(flight, Answered(c, Done), {c}, {Done})
    BY AnswerTrades DEF InFlight
  <2>2. Keeps(Creation \cup Farewell \cup {"remove"}, flight, Answered(c, Done))
    BY <2>1, TradedKeeps DEF Done, Is, Creation, Farewell
  <2>3. CASE Vanish(c.id, Answered(c, Done))
    BY <2>2, <2>3, VanishKeeps DEF Keeps
  <2> QED BY <2>2, <2>3
<1>3. CASE Outside
  <2>1. UNCHANGED flight \/ \E i \in Names : Vanish(i, flight)
    BY <1>3 DEF Outside
  <2> QED BY <2>1, VanishKeeps DEF Keeps
<1> QED BY <1>1, <1>2, <1>3

(* The answer to a create, and to a shutdown, and what they are traded for. *)
LEMMA CreateTraded ==
    ASSUME ServeCreate
    PROVE  \E c \in InFlight({"create"}), ok \in BOOLEAN :
             Traded(flight, flight', {c}, {[tag |-> "createdMsg", ok |-> ok, of |-> c.of]})
<1> PICK c \in InFlight({"create"}), ok \in BOOLEAN :
         flight' = Answered(c, [tag |-> "createdMsg", ok |-> ok, of |-> c.of])
  BY DEF ServeCreate
<1> QED BY AnswerTrades DEF InFlight

(* The same of a shutdown.                                                 *)
LEMMA ShutdownTraded ==
    ASSUME IInv, ServeShutdown
    PROVE  /\ Is("shutdown") \in InFlight({"shutdown"})
           /\ \E r : Traded(flight, flight', {Is("shutdown")},
                            {[tag |-> "shutdownDoneMsg", result |-> r]})
<1>1. Is("shutdown") \in InFlight({"shutdown"})
  BY ShutdownIs DEF ServeShutdown, IInv, TypeOK, Running
<1>2. PICK r : flight' = Answered(Is("shutdown"), [tag |-> "shutdownDoneMsg", result |-> r])
  BY DEF ServeShutdown
<1> QED BY <1>1, <1>2, AnswerTrades DEF InFlight

(* Letting go and sending a form touch nothing else.                       *)
LEMMA FormsKeep ==
    ASSUME IInv, OpenForm \/ Submit
    PROVE  Keeps(Farewell \cup {"passwordMsg", "remove"}, flight, flight')
<1>0. DOMAIN flight \subseteq Asking \cup Answers
  BY DEF IInv, TypeOK
<1>1. CASE OpenForm
  <2>1. Disowning(flight, flight', {"create", "createdMsg", "pull"})
    BY <1>0, <1>1, DisownedBag DEF OpenForm, Ownable
  <2> QED BY <2>1 DEF Disowning, Keeps, Farewell
<1>2. CASE Submit
  <2> DEFINE X == Farewell \cup {"passwordMsg", "remove"}
  <2>1. Disowning(flight, Disowned({"pull"}), {"pull"})
    BY <1>0, DisownedBag DEF Ownable
  <2>2. Keeps(X, flight, Disowned({"pull"}))
    BY <2>1 DEF Disowning, Keeps, Farewell
  <2>3. Keeps(X, Disowned({"pull"}), flight')
    BY <1>2, AddTrades, TradedKeeps DEF Submit, Farewell, Is
  <2> QED BY <2>2, <2>3 DEF Keeps
<1> QED BY <1>1, <1>2

(* A removal is one of Doomed.                                             *)
LEMMA DestroyTrades ==
    ASSUME ConfirmDestroy
    PROVE  \/ UNCHANGED flight
           \/ \E n \in Names \cup {0} :
                /\ destroy.wipe => n = Doomed
                /\ Traded(flight, flight', {}, {[tag |-> "remove", id |-> Doomed,
                                                wipe |-> destroy.wipe, typed |-> n]})
<1>1. \/ UNCHANGED flight
      \/ \E n \in Names \cup {0} : SubmitDestroy(n) /\ (destroy.wipe => n = Doomed)
  BY DEF ConfirmDestroy, Doomed
<1> QED BY <1>1, LaunchTrades DEF SubmitDestroy

(* The dialog of a destroy touches nothing else.                           *)
LEMMA DestroyKeeps ==
    ASSUME ConfirmDestroy
    PROVE  Keeps(Creation \cup Farewell \cup {"passwordMsg"}, flight, flight')
<1>1. CASE UNCHANGED flight
  BY <1>1 DEF Keeps
<1>2. ASSUME NEW n, Traded(flight, flight', {}, {[tag |-> "remove", id |-> Doomed,
                                                 wipe |-> destroy.wipe, typed |-> n]})
      PROVE  Keeps(Creation \cup Farewell \cup {"passwordMsg"}, flight, flight')
  BY <1>2, TradedKeeps DEF Creation, Farewell
<1> QED BY <1>1, <1>2, DestroyTrades

(* Only the form and the daemon touch the creates in flight.               *)
LEMMA CreatesKeep ==
    ASSUME IInv, Next
    PROVE  Keeps(Creation, flight, flight') \/ OpenForm \/ Submit \/ ServeCreate
<1>1. CASE Keeps(Held, flight, flight')
  BY <1>1 DEF Keeps, Held
<1>2. CASE ConfirmQuit
  BY <1>2, LaunchTrades, TradedKeeps DEF ConfirmQuit, Creation, Is
<1>3. CASE ServeShutdown
  <2>1. PICK r : Traded(flight, flight', {Is("shutdown")},
                        {[tag |-> "shutdownDoneMsg", result |-> r]})
    BY <1>3, ShutdownTraded
  <2> QED BY <2>1, TradedKeeps DEF Creation
<1>4. CASE ServePassword \/ ServeRemove \/ Outside
  BY <1>4, RemovalKeeps DEF Keeps
<1>5. CASE ConfirmDestroy
  BY <1>5, DestroyKeeps DEF Keeps
<1> QED BY <1>1, <1>2, <1>3, <1>4, <1>5, OthersKeep

(* Only the quit screen and the daemon touch the shutdowns in flight.      *)
LEMMA FarewellsKeep ==
    ASSUME IInv, Next
    PROVE  Keeps(Farewell, flight, flight') \/ ConfirmQuit \/ ServeShutdown
<1>1. CASE Keeps(Held, flight, flight')
  BY <1>1 DEF Keeps, Held
<1>2. CASE OpenForm \/ Submit
  BY <1>2, FormsKeep DEF Keeps
<1>3. CASE ServeCreate
  <2>1. PICK c \in InFlight({"create"}), ok \in BOOLEAN :
           Traded(flight, flight', {c}, {[tag |-> "createdMsg", ok |-> ok, of |-> c.of]})
    BY <1>3, CreateTraded
  <2> QED BY <2>1, TradedKeeps DEF Farewell
<1>4. CASE ServePassword \/ ServeRemove \/ Outside
  BY <1>4, RemovalKeeps DEF Keeps
<1>5. CASE ConfirmDestroy
  BY <1>5, DestroyKeeps DEF Keeps
<1> QED BY <1>1, <1>2, <1>3, <1>4, <1>5, OthersKeep

(* None but the dialog of a destroy sends a removal.                       *)
LEMMA RemovalsKeep ==
    ASSUME IInv, Next
    PROVE  Keeps({"remove"}, flight, flight') \/ ConfirmDestroy
<1>1. CASE Keeps(Held, flight, flight')
  BY <1>1 DEF Keeps, Held
<1>2. CASE OpenForm \/ Submit
  BY <1>2, FormsKeep DEF Keeps
<1>3. CASE ServeCreate
  <2>1. PICK c \in InFlight({"create"}), ok \in BOOLEAN :
           Traded(flight, flight', {c}, {[tag |-> "createdMsg", ok |-> ok, of |-> c.of]})
    BY <1>3, CreateTraded
  <2> QED BY <2>1, TradedKeeps
<1>4. CASE ConfirmQuit
  BY <1>4, LaunchTrades, TradedKeeps DEF ConfirmQuit, Is
<1>5. CASE ServeShutdown
  <2>1. PICK r : Traded(flight, flight', {Is("shutdown")},
                        {[tag |-> "shutdownDoneMsg", result |-> r]})
    BY <1>5, ShutdownTraded
  <2> QED BY <2>1, TradedKeeps
<1>6. CASE ServePassword \/ ServeRemove \/ Outside
  BY <1>6, RemovalKeeps DEF Keeps
<1> QED BY <1>1, <1>2, <1>3, <1>4, <1>5, <1>6, OthersKeep

(* A string that has strayed in is not forgotten.                          *)
LEMMA AstrayStays ==
    ASSUME Next
    PROVE  astray => astray'
<1> USE DEF history
<1>1. CASE Keyboard
  BY <1>1 DEF Keyboard, AskQuit, StartUpdate, MoveCursor, Refresh, Toggle, AskConn, OpenLogs,
              OpenForm, AskDestroy, CloseLogs, CloseConn, CloseUpdate, LeaveForm, AdvanceForm,
              Submit, ChooseDestroy, LeaveDestroy, ConfirmDestroy, ConfirmQuit, CancelQuit,
              CloseWindow
<1>2. CASE Update
  BY <1>2 DEF Update, TickMsg, InstancesMsg, PasswordMsg, ActionDoneMsg, ConnStringMsg, PullMsg,
              SpinMsg, CreatedMsg, LogMsg, UpdateCheckedMsg, ShutdownDoneMsg, StaleMsg
<1>3. CASE Serve
  BY <1>3 DEF Serve, ServeList, ServePassword, ServeAction, ServeRemove, ServeCreate,
              ServeShutdown
<1>4. CASE Outside
  BY <1>4 DEF Outside
<1> QED BY <1>1, <1>2, <1>3, <1>4 DEF Next

(* While a create is in flight its form stays on the screen and waits.     *)
LEMMA FormWaits ==
    ASSUME IInv, Next, ~astray', NEW c \in InFlight(Creation), c \in DOMAIN flight'
    PROVE  view' = "create" /\ form'.step = "submitting" /\ form'.id = form.id
<1> USE DEF dialogs
<1>1. /\ ~astray
      /\ view = "create" /\ form.step = "submitting"
      /\ flight[c] = 1 /\ \A d \in InFlight(Creation) : d = c
  BY AstrayStays DEF IInv, FormHeld, Single
<1>2. CASE \/ AskQuit \/ StartUpdate \/ MoveCursor \/ Refresh \/ Toggle \/ AskConn
           \/ OpenLogs \/ OpenForm \/ AskDestroy
  BY <1>1, <1>2 DEF AskQuit, StartUpdate, MoveCursor, Refresh, Toggle, AskConn, OpenLogs,
                    OpenForm, AskDestroy, Key
<1>3. CASE \/ CloseLogs \/ CloseConn \/ CloseUpdate \/ ChooseDestroy \/ LeaveDestroy
           \/ ConfirmDestroy \/ ConfirmQuit \/ CancelQuit
  BY <1>1, <1>3 DEF CloseLogs, CloseConn, CloseUpdate, ChooseDestroy, LeaveDestroy,
                    ConfirmDestroy, ConfirmQuit, CancelQuit, Key
<1>4. CASE LeaveForm \/ AdvanceForm \/ Submit
  BY <1>1, <1>4 DEF LeaveForm, AdvanceForm, Submit
<1>5. CASE \/ CloseWindow \/ TickMsg \/ InstancesMsg \/ PasswordMsg \/ ActionDoneMsg \/ PullMsg
           \/ SpinMsg \/ LogMsg \/ UpdateCheckedMsg \/ ShutdownDoneMsg \/ StaleMsg
  BY <1>1, <1>5 DEF CloseWindow, TickMsg, InstancesMsg, PasswordMsg, ActionDoneMsg, PullMsg,
                    SpinMsg, LogMsg, UpdateCheckedMsg, ShutdownDoneMsg, StaleMsg
<1>6. CASE ServeList \/ ServePassword \/ ServeAction \/ ServeRemove \/ ServeShutdown \/ Outside
  BY <1>1, <1>6 DEF ServeList, ServePassword, ServeAction, ServeRemove, ServeShutdown, Outside
<1>7. CASE ConnStringMsg
  BY <1>1, <1>7 DEF ConnStringMsg
<1>8. CASE CreatedMsg
  <2>1. PICK m \in InFlight({"createdMsg"}), S \in {{Fetch}, {}} : Take(m, S)
    BY <1>8 DEF CreatedMsg
  <2>2. m = c
    BY <1>1 DEF InFlight, Creation
  <2>3. c \notin S
    BY DEF InFlight, Creation, Fetch, Is
  <2> QED BY <1>1, <2>1, <2>2, <2>3, TakeTrades DEF Traded
<1>9. CASE ServeCreate
  <2>1. form'.step = form.step /\ form'.id = form.id /\ view' = view
    BY <1>9 DEF ServeCreate, IInv, TypeOK
  <2> QED BY <1>1, <2>1
<1> QED BY <1>2, <1>3, <1>4, <1>5, <1>6, <1>7, <1>8, <1>9
        DEF Next, Keyboard, Update, Serve

(* Every step keeps the create in flight with its form.                    *)
LEMMA FormHeldKept ==
    ASSUME IInv, Next
    PROVE  FormHeld'
<1> DEFINE OfForm(c) == /\ c.of = "now" /\ form.step = "submitting" /\ view = "create"
                        /\ c.tag = "create" => c.id = form.id
<1> SUFFICES ASSUME ~astray'
             PROVE  Single(Creation)' /\ \A c \in InFlight(Creation)' : OfForm(c)'
  BY DEF FormHeld
<1>0. /\ ~astray /\ Single(Creation) /\ \A c \in InFlight(Creation) : OfForm(c)
      /\ TypeOK
  BY AstrayStays DEF IInv, FormHeld
<1>1. CASE Keeps(Creation, flight, flight')
  <2>1. Single(Creation)' /\ \A c \in InFlight(Creation)' : c \in InFlight(Creation)
    BY <1>0, <1>1, SingleKept
  <2> SUFFICES ASSUME NEW c \in InFlight(Creation)' PROVE OfForm(c)'
    BY <2>1
  <2>2. c \in InFlight(Creation) /\ c \in DOMAIN flight'
    BY <2>1 DEF InFlight
  <2>3. view' = "create" /\ form'.step = "submitting" /\ form'.id = form.id
    BY <2>2, FormWaits
  <2> QED BY <1>0, <2>2, <2>3
<1>2. CASE OpenForm
  <2>1. InFlight(Creation) = {}
    BY <1>0, <1>2 DEF OpenForm, Key
  <2>2. Disowning(flight, flight', {"create", "createdMsg", "pull"})
    BY <1>0, <1>2, DisownedBag DEF OpenForm, Ownable, TypeOK
  <2>3. InFlight(Creation)' = {}
    BY <2>1, <2>2 DEF Disowning, InFlight, Creation
  <2> QED BY <2>3 DEF Single
<1>3. CASE Submit
  <2> DEFINE c == [tag |-> "create", id |-> form.id, of |-> "now"]
             S == {c, [tag |-> "pull", of |-> "now"], Is("spin")}
             D == Disowned({"pull"})
  <2>1. InFlight(Creation) = {}
    BY <1>0, <1>3 DEF Submit
  <2>2. \A n \in DOMAIN D : n.tag \notin Creation
    <3>1. Disowning(flight, D, {"pull"})
      BY <1>0, DisownedBag DEF Ownable, TypeOK
    <3> QED BY <2>1, <3>1 DEF Disowning, InFlight, Creation
  <2>3. Traded(D, flight', {}, S)
    BY <1>3, AddTrades DEF Submit
  <2>4. \A n \in S : n.tag \in Creation <=> n = c
    BY DEF Creation, Is
  <2> HIDE DEF S, D, c
  <2>5. InFlight(Creation)' = {c} /\ flight'[c] = 1
    <3>1. c \in S /\ c.tag \in Creation
      BY DEF S, c, Creation
    <3> QED BY <2>2, <2>3, <2>4, <3>1 DEF Traded, InFlight
  <2>6. form'.step = "submitting" /\ form'.id = form.id /\ view' = "create"
    BY <1>0, <1>3 DEF Submit, Key, TypeOK
  <2> QED BY <2>5, <2>6 DEF Single, c
<1>4. CASE ServeCreate
  <2> PICK c \in InFlight({"create"}), ok \in BOOLEAN :
         flight' = Answered(c, [tag |-> "createdMsg", ok |-> ok, of |-> c.of])
    BY <1>4 DEF ServeCreate
  <2> DEFINE m == [tag |-> "createdMsg", ok |-> ok, of |-> c.of]
  <2>1. c \in InFlight(Creation) /\ c.tag = "create" /\ c \in DOMAIN flight /\ c.of = "now"
    BY <1>0 DEF InFlight, Creation
  <2>2. Traded(flight, flight', {c}, {m})
    BY <2>1, AnswerTrades
  <2>3. InFlight(Creation) \subseteq {c}
    BY <1>0, <2>1 DEF Single
  <2>4. m \notin {c}
    BY <2>1
  <2> HIDE DEF m
  <2>5. Single(Creation)' /\ \A n \in InFlight(Creation)' : n = m
    <3>1. {n \in {m} : n.tag \in Creation} \subseteq {m}
      OBVIOUS
    <3> QED BY <1>0, <2>2, <2>3, <2>4, <3>1, SingleTraded
  <2>6. view' = "create" /\ form'.step = "submitting"
    <3>1. form'.step = form.step /\ view' = view
      BY <1>0, <1>4 DEF ServeCreate, TypeOK
    <3> QED BY <1>0, <2>1, <3>1
  <2> QED BY <2>1, <2>5, <2>6 DEF m
<1> QED BY <1>1, <1>2, <1>3, <1>4, CreatesKeep

(* While a shutdown is in flight the quit screen stays and waits.          *)
LEMMA QuitWaits ==
    ASSUME IInv, Next, ~astray', Running(Farewell), Running(Farewell)'
    PROVE  shutdown' = "working" /\ view' = "quit"
<1> USE DEF dialogs
<1>1. /\ ~astray
      /\ view = "quit" /\ shutdown = "working"
      /\ InFlight({"createdMsg"}) = {}
  BY AstrayStays DEF IInv, QuitHeld, FormHeld, InFlight, Creation
<1>2. CASE \/ AskQuit \/ StartUpdate \/ MoveCursor \/ Refresh \/ Toggle \/ AskConn
           \/ OpenLogs \/ OpenForm \/ AskDestroy
  BY <1>1, <1>2 DEF AskQuit, StartUpdate, MoveCursor, Refresh, Toggle, AskConn, OpenLogs,
                    OpenForm, AskDestroy, Key
<1>3. CASE \/ CloseLogs \/ CloseConn \/ CloseUpdate \/ LeaveForm \/ AdvanceForm \/ Submit
           \/ ChooseDestroy \/ LeaveDestroy \/ ConfirmDestroy
  BY <1>1, <1>3 DEF CloseLogs, CloseConn, CloseUpdate, LeaveForm, AdvanceForm, Submit,
                    ChooseDestroy, LeaveDestroy, ConfirmDestroy, Key
<1>4. CASE ConfirmQuit \/ CancelQuit
  BY <1>1, <1>4 DEF ConfirmQuit, CancelQuit
<1>5. CASE CloseWindow
  BY <1>5, NothingLeft DEF CloseWindow, End, Empty, Running, InFlight
<1>6. CASE \/ TickMsg \/ InstancesMsg \/ PasswordMsg \/ ActionDoneMsg \/ PullMsg
           \/ SpinMsg \/ LogMsg \/ UpdateCheckedMsg \/ StaleMsg
  BY <1>1, <1>6 DEF TickMsg, InstancesMsg, PasswordMsg, ActionDoneMsg, PullMsg,
                    SpinMsg, LogMsg, UpdateCheckedMsg, StaleMsg
<1>7. CASE Serve \/ Outside
  BY <1>1, <1>7 DEF Serve, ServeList, ServePassword, ServeAction, ServeRemove, ServeCreate,
                    ServeShutdown, Outside
<1>8. CASE ConnStringMsg
  BY <1>1, <1>8 DEF ConnStringMsg
<1>9. CASE CreatedMsg
  BY <1>1, <1>9 DEF CreatedMsg
<1>10. CASE ShutdownDoneMsg
  <2>1. CASE flight' = EmptyBag
    BY <2>1, NothingLeft DEF Empty, Running, InFlight
  <2>2. CASE \E m \in InFlight({"shutdownDoneMsg"}) : Take(m, {})
    <3> PICK m \in InFlight({"shutdownDoneMsg"}) : Take(m, {})
      BY <2>2
    <3>1. m \in InFlight(Farewell) /\ Single(Farewell)
      BY <1>1 DEF InFlight, Farewell, IInv, QuitHeld
    <3>2. Traded(flight, flight', {m}, {})
      BY TakeTrades
    <3>3. \A c \in InFlight(Farewell)' : c \in InFlight(Farewell) /\ c # m
      BY <3>1, <3>2 DEF Traded, InFlight, Single
    <3> QED BY <3>1, <3>3 DEF Running, Single
  <2> QED BY <1>10, <2>1, <2>2 DEF ShutdownDoneMsg, End
<1> QED BY <1>2, <1>3, <1>4, <1>5, <1>6, <1>7, <1>8, <1>9, <1>10
        DEF Next, Keyboard, Update

(* The program does not die of the answer to a shutdown.                   *)
LEMMA Survives ==
    ASSUME IInv, Next, ~astray'
    PROVE  phase' # "dead"
<1>1. /\ ~astray /\ phase # "dead"
      /\ Running(Farewell) => shutdown = "working"
  BY AstrayStays DEF IInv, QuitHeld
<1>2. CASE ShutdownDoneMsg
  <2>1. Running(Farewell)
    BY <1>2 DEF ShutdownDoneMsg, Running, InFlight, Farewell
  <2> QED BY <1>1, <1>2, <2>1 DEF ShutdownDoneMsg, End
<1>3. CASE Keyboard
  BY <1>1, <1>3 DEF Keyboard, AskQuit, StartUpdate, MoveCursor, Refresh, Toggle, AskConn,
       OpenLogs, OpenForm, AskDestroy, CloseLogs, CloseConn, CloseUpdate, LeaveForm,
       AdvanceForm, Submit, ChooseDestroy, LeaveDestroy, ConfirmDestroy, ConfirmQuit,
       CancelQuit, CloseWindow, End
<1>4. CASE Update /\ ~ShutdownDoneMsg
  BY <1>1, <1>4 DEF Update, TickMsg, InstancesMsg, PasswordMsg, ActionDoneMsg, ConnStringMsg,
       PullMsg, SpinMsg, CreatedMsg, LogMsg, UpdateCheckedMsg, StaleMsg
<1>5. CASE Serve \/ Outside
  BY <1>1, <1>5 DEF Serve, ServeList, ServePassword, ServeAction, ServeRemove, ServeCreate,
       ServeShutdown, Outside
<1> QED BY <1>2, <1>3, <1>4, <1>5 DEF Next

(* Every step keeps the shutdown in flight with its quit screen.           *)
LEMMA QuitHeldKept ==
    ASSUME IInv, Next
    PROVE  QuitHeld'
<1> SUFFICES ASSUME ~astray'
             PROVE  /\ Single(Farewell)'
                    /\ Running(Farewell)' => shutdown' = "working" /\ view' = "quit"
  BY Survives DEF QuitHeld
<1>0. ~astray /\ Single(Farewell) /\ TypeOK
  BY AstrayStays DEF IInv, QuitHeld
<1>1. CASE Keeps(Farewell, flight, flight')
  <2>1. Single(Farewell)' /\ \A c \in InFlight(Farewell)' : c \in InFlight(Farewell)
    BY <1>0, <1>1, SingleKept
  <2>2. Running(Farewell)' => Running(Farewell)
    BY <2>1 DEF Running
  <2> QED BY <2>1, <2>2, QuitWaits
<1>2. CASE ConfirmQuit
  <2> DEFINE c == Is("shutdown")
  <2>1. InFlight(Farewell) = {}
    BY <1>0, <1>2 DEF ConfirmQuit, IInv, QuitHeld, Running
  <2>2. Traded(flight, flight', {}, {c})
    BY <1>2, LaunchTrades DEF ConfirmQuit
  <2> HIDE DEF c
  <2>3. Single(Farewell)'
    <3>1. {n \in {c} : n.tag \in Farewell} \subseteq {c}
      OBVIOUS
    <3> QED BY <1>0, <2>1, <2>2, <3>1, SingleTraded
  <2>4. shutdown' = "working" /\ view' = "quit"
    BY <1>2 DEF ConfirmQuit, Key
  <2> QED BY <2>3, <2>4
<1>3. CASE ServeShutdown
  <2> PICK r : /\ Running({"shutdown"})
               /\ flight' = Answered(Is("shutdown"), [tag |-> "shutdownDoneMsg", result |-> r])
    BY <1>3 DEF ServeShutdown
  <2> DEFINE c == Is("shutdown")
             m == [tag |-> "shutdownDoneMsg", result |-> r]
  <2>1. c \in InFlight(Farewell) /\ c \in DOMAIN flight
    BY <1>0, ShutdownIs DEF TypeOK, Running, InFlight, Farewell
  <2>2. Traded(flight, flight', {c}, {m})
    BY <2>1, AnswerTrades
  <2>3. InFlight(Farewell) \subseteq {c}
    BY <1>0, <2>1 DEF Single
  <2>4. m \notin {c}
    BY DEF Is
  <2>5. Running(Farewell)
    BY <2>1 DEF Running
  <2> HIDE DEF c, m
  <2>6. Single(Farewell)'
    <3>1. {n \in {m} : n.tag \in Farewell} \subseteq {m}
      OBVIOUS
    <3> QED BY <1>0, <2>2, <2>3, <2>4, <3>1, SingleTraded
  <2> QED BY <2>5, <2>6, QuitWaits
<1> QED BY <1>1, <1>2, <1>3, FarewellsKeep

-----------------------------------------------------------------------------
(* Log streams                                                             *)

Reader == [tag |-> "logs", of |-> "now"]

(* A stream that is open and not over has a reader, also afterwards.       *)
LEMMA ReaderStays ==
    ASSUME IInv, Next, logs'.live, ~logs'.over
    PROVE  Reader \in DOMAIN flight'
<1> USE DEF dialogs
<1>0. /\ TypeOK /\ DOMAIN flight \subseteq Asking \cup Answers
      /\ logs.live /\ ~logs.over => Reader \in DOMAIN flight
  BY DEF IInv, TypeOK, StreamsTended, Reader
<1>1. CASE OpenLogs
  <2>1. Traded(Disowned({"logs"}), flight', {}, {Reader})
    BY <1>1, AddTrades DEF OpenLogs, Reader
  <2> QED BY <2>1 DEF Traded
<1>2. CASE CloseLogs
  <2>1. logs'.live = FALSE
    BY <1>0, <1>2 DEF CloseLogs, TypeOK
  <2> QED BY <2>1
<1>3. CASE LogMsg
  <2>1. PICK m \in InFlight({"logs"}) :
           \/ Take(m, {Reader})
           \/ /\ Take(m, {})
              /\ logs' = [logs EXCEPT !.over = logs.over \/ m.of = "now", !.closed = TRUE]
    BY <1>3 DEF LogMsg, NextLine, Reader
  <2>2. CASE Take(m, {Reader})
    <3>1. Traded(flight, flight', {m}, {Reader})
      BY <2>2, TakeTrades
    <3> QED BY <3>1 DEF Traded
  <2>3. CASE /\ Take(m, {})
             /\ logs' = [logs EXCEPT !.over = logs.over \/ m.of = "now", !.closed = TRUE]
    <3>1. m.of # "now" /\ logs'.live = logs.live /\ logs'.over = logs.over
      BY <1>0, <2>3 DEF TypeOK
    <3>2. Reader # m
      BY <3>1 DEF Reader
    <3>3. Traded(flight, flight', {m}, {})
      BY <2>3, TakeTrades
    <3> QED BY <1>0, <3>1, <3>2, <3>3 DEF Traded
  <2> QED BY <2>1, <2>2, <2>3
<1>4. CASE OpenForm
  <2>1. Disowning(flight, flight', {"create", "createdMsg", "pull"})
    BY <1>0, <1>4, DisownedBag DEF OpenForm, Ownable
  <2> QED BY <1>0, <1>4, <2>1 DEF Disowning, Reader, OpenForm
<1>5. CASE Submit
  <2>1. Disowning(flight, Disowned({"pull"}), {"pull"})
    BY <1>0, DisownedBag DEF Ownable
  <2>2. \E S : Traded(Disowned({"pull"}), flight', {}, S)
    BY <1>5, AddTrades DEF Submit
  <2>3. logs' = logs
    BY <1>5 DEF Submit
  <2> QED BY <1>0, <2>1, <2>2, <2>3 DEF Disowning, Reader, Traded
<1>6. CASE CloseWindow
  <2>1. logs'.live = FALSE
    BY <1>0, <1>6 DEF CloseWindow, End, TypeOK
  <2> QED BY <2>1
<1>7. CASE /\ logs' = logs
           /\ UNCHANGED flight \/ \E S : Launch(S)
  BY <1>0, <1>7, LaunchTrades DEF Traded
<1>8. CASE /\ logs' = logs
           /\ \E c, S : Take(c, S) /\ c # Reader
  BY <1>0, <1>8, TakeTrades DEF Traded
<1>9. CASE /\ logs' = logs
           /\ \E c \in DOMAIN flight : \E m : flight' = Answered(c, m) /\ c # Reader
  BY <1>0, <1>9, AnswerTrades DEF Traded
<1>10. CASE \/ AskQuit \/ StartUpdate \/ MoveCursor \/ Refresh \/ Toggle \/ AskConn \/ AskDestroy
            \/ CloseConn \/ CloseUpdate \/ LeaveForm \/ AdvanceForm
            \/ ChooseDestroy \/ LeaveDestroy \/ ConfirmDestroy \/ ConfirmQuit \/ CancelQuit
  BY <1>7, <1>10 DEF AskQuit, StartUpdate, MoveCursor, Refresh, Toggle, AskConn, AskDestroy,
                    CloseConn, CloseUpdate, LeaveForm, AdvanceForm,
                    ChooseDestroy, LeaveDestroy, ConfirmDestroy, SubmitDestroy, ConfirmQuit,
                    CancelQuit
<1>11. CASE TickMsg \/ ActionDoneMsg \/ ConnStringMsg \/ SpinMsg \/ UpdateCheckedMsg \/ StaleMsg
  BY <1>8, <1>11 DEF TickMsg, ActionDoneMsg, ConnStringMsg, SpinMsg, UpdateCheckedMsg, StaleMsg,
                    Reader, Is
<1>12. CASE InstancesMsg \/ PasswordMsg \/ PullMsg \/ CreatedMsg
  BY <1>8, <1>12 DEF InstancesMsg, PasswordMsg, PullMsg, CreatedMsg, Reader, InFlight
<1>13. CASE ShutdownDoneMsg
  <2>1. CASE End("quit") \/ End("dead")
    <3>1. logs'.live = FALSE
      BY <1>0, <2>1 DEF End, TypeOK
    <3> QED BY <3>1
  <2> QED BY <1>8, <1>13, <2>1 DEF ShutdownDoneMsg, Reader, InFlight
<1>14. CASE ServeList \/ ServePassword \/ ServeAction \/ ServeCreate
  <2>1. CASE ServeList
    BY <1>9, <2>1 DEF ServeList, Reader, Fetch, Is
  <2>2. CASE ServePassword
    BY <1>9, <2>2 DEF ServePassword, Reader, InFlight
  <2>3. CASE ServeAction
    BY <1>9, <2>3 DEF ServeAction, Reader, InFlight
  <2>4. CASE ServeCreate
    BY <1>9, <2>4 DEF ServeCreate, Reader, InFlight
  <2> QED BY <1>14, <2>1, <2>2, <2>3, <2>4
<1>15. CASE ServeShutdown
  <2>1. Is("shutdown") \in DOMAIN flight /\ Is("shutdown") # Reader
    BY <1>0, <1>15, ShutdownIs DEF ServeShutdown, Running, InFlight, Is, Reader
  <2> QED BY <1>9, <1>15, <2>1 DEF ServeShutdown
<1>16. ASSUME NEW i, NEW b, Vanish(i, b), Reader \in DOMAIN b
       PROVE  Reader \in DOMAIN flight'
  BY <1>16, GoneBag DEF Vanish, Outdating, Reader
<1>17. CASE ServeRemove
  <2>1. logs' = logs
    BY <1>17 DEF ServeRemove
  <2>2. PICK c \in InFlight({"remove"}) :
             Vanish(c.id, Answered(c, Done)) \/ flight' = Answered(c, Done)
    BY <1>17 DEF ServeRemove
  <2>3. c # Reader /\ c \in DOMAIN flight
    BY DEF InFlight, Reader
  <2>4. Reader \in DOMAIN Answered(c, Done)
    BY <1>0, <2>1, <2>3, AnswerTrades DEF Traded
  <2> QED BY <1>16, <2>2, <2>4
<1>18. CASE Outside
  <2>1. logs' = logs /\ (UNCHANGED flight \/ \E i \in Names : Vanish(i, flight))
    BY <1>18 DEF Outside
  <2> QED BY <1>0, <1>16, <2>1
<1> QED BY <1>1, <1>2, <1>3, <1>4, <1>5, <1>6, <1>10, <1>11, <1>12, <1>13, <1>14, <1>15, <1>17,
           <1>18 DEF Next, Keyboard, Update, Serve

(* A stream is on the screen as long as it is open, and none is lost.      *)
LEMMA StreamShown ==
    ASSUME IInv, Next, ~astray'
    PROVE  ~leaked' /\ (logs'.live => view' = "logs")
<1> USE DEF dialogs, history
<1>0. /\ TypeOK /\ ~astray /\ ~leaked /\ (logs.live => view = "logs")
      /\ Running({"createdMsg"}) => view = "create"
  BY AstrayStays DEF IInv, StreamsTended, FormHeld, Running, InFlight, Creation
<1>1. CASE OpenLogs
  BY <1>0, <1>1 DEF OpenLogs, Key
<1>2. CASE CloseLogs
  <2>1. logs'.live = FALSE
    BY <1>0, <1>2 DEF CloseLogs, TypeOK
  <2> QED BY <1>0, <1>2, <2>1 DEF CloseLogs
<1>3. CASE AskQuit \/ StartUpdate \/ OpenForm \/ AskDestroy
  BY <1>0, <1>3 DEF AskQuit, StartUpdate, OpenForm, AskDestroy, Key
<1>4. CASE \/ CloseConn \/ CloseUpdate \/ LeaveForm \/ LeaveDestroy \/ ConfirmDestroy \/ CancelQuit
  BY <1>0, <1>4 DEF CloseConn, CloseUpdate, LeaveForm, LeaveDestroy, ConfirmDestroy, SubmitDestroy,
                    CancelQuit, Key
<1>5. CASE \/ MoveCursor \/ Refresh \/ Toggle \/ AskConn \/ AdvanceForm \/ Submit
           \/ ChooseDestroy \/ ConfirmQuit
  <2>1. UNCHANGED <<logs, view, leaked>>
    BY <1>5 DEF MoveCursor, Refresh, Toggle, AskConn, AdvanceForm, Submit, ChooseDestroy,
                ConfirmQuit
  <2> QED BY <1>0, <2>1
<1>6. CASE CloseWindow \/ ShutdownDoneMsg
  <2>1. logs' = logs \/ logs' = [logs EXCEPT !.live = FALSE]
    BY <1>6 DEF CloseWindow, ShutdownDoneMsg, End
  <2>2. logs'.live => logs.live
    BY <1>0, <2>1 DEF TypeOK
  <2> QED BY <1>0, <1>6, <2>2 DEF CloseWindow, ShutdownDoneMsg
<1>7. CASE \/ TickMsg \/ InstancesMsg \/ PasswordMsg \/ ActionDoneMsg \/ PullMsg
           \/ SpinMsg \/ UpdateCheckedMsg \/ StaleMsg
  BY <1>0, <1>7 DEF TickMsg, InstancesMsg, PasswordMsg, ActionDoneMsg, PullMsg, SpinMsg,
                    UpdateCheckedMsg, StaleMsg
<1>8. CASE Serve \/ Outside
  BY <1>0, <1>8 DEF Serve, ServeList, ServePassword, ServeAction, ServeRemove, ServeCreate,
                    ServeShutdown, Outside
<1>9. CASE ConnStringMsg
  BY <1>0, <1>9 DEF ConnStringMsg
<1>10. CASE CreatedMsg
  BY <1>0, <1>10 DEF CreatedMsg, Running
<1>11. CASE LogMsg
  <2>1. logs' = logs \/ \E m : logs' = [logs EXCEPT !.over = logs.over \/ m.of = "now", !.closed = TRUE]
    BY <1>11 DEF LogMsg
  <2>2. logs'.live = logs.live
    BY <1>0, <2>1 DEF TypeOK
  <2> QED BY <1>0, <1>11, <2>2 DEF LogMsg
<1> QED BY <1>1, <1>2, <1>3, <1>4, <1>5, <1>6, <1>7, <1>8, <1>9, <1>10, <1>11
        DEF Next, Keyboard, Update

(* Every step keeps the streams tended.                                    *)
LEMMA StreamsTendedKept ==
    ASSUME IInv, Next
    PROVE  StreamsTended'
  BY ReaderStays, StreamShown DEF StreamsTended, Reader

-----------------------------------------------------------------------------
(* Passwords                                                               *)

(* Who is there, what is listed and what passwords are known stays so.     *)
Calm == /\ \A i \in Names : world'[i] = "none" <=> world[i] = "none"
        /\ UNCHANGED <<list, passwords>>
        /\ reborn \subseteq reborn'

Elsewhere == \E i \in session.names : /\ world' = [world EXCEPT ![i] = "running"]
                                      /\ reborn' = reborn \cup {i}
                                      /\ UNCHANGED <<list, passwords, flight>>

(* Instance i goes, after a command of this window or none was answered.   *)
Goes(i) == \E b : /\ Keeps({"passwordMsg"}, flight, b)
                  /\ Vanish(i, b)
                  /\ UNCHANGED <<list, reborn>>

(* What a removal, here or elsewhere, and the rest outside come to.        *)
LEMMA RemovalSteps ==
    ASSUME IInv, ServeRemove \/ Outside
    PROVE  \/ \E i \in Names : Goes(i)
           \/ Keeps({"passwordMsg"}, flight, flight') /\ (Calm \/ Elsewhere)
<1>0. TypeOK
  BY DEF IInv
<1>1. CASE ServeRemove
  <2> PICK c \in InFlight({"remove"}) :
             \/ daemon = "up" /\ Vanish(c.id, Answered(c, Done))
             \/ flight' = Answered(c, Done) /\ UNCHANGED <<world, passwords>>
    BY <1>1 DEF ServeRemove
  <2>1. c \in DOMAIN flight /\ c.id \in Names
    BY <1>0, Kinds DEF TypeOK, InFlight
  <2>2. Keeps({"passwordMsg"}, flight, Answered(c, Done))
    <3>1. Traded(flight, Answered(c, Done), {c}, {Done})
      BY <2>1, AnswerTrades
    <3> QED BY <3>1, TradedKeeps DEF Done, Is
  <2>3. UNCHANGED <<list, reborn>>
    BY <1>1 DEF ServeRemove, history
  <2>4. CASE Vanish(c.id, Answered(c, Done))
    BY <2>1, <2>2, <2>3, <2>4 DEF Goes
  <2>5. CASE flight' = Answered(c, Done) /\ UNCHANGED <<world, passwords>>
    BY <2>2, <2>3, <2>5 DEF Calm
  <2> QED BY <2>4, <2>5
<1>2. CASE Outside
  <2>0. list' = list
    BY <1>2 DEF Outside
  <2>1. CASE \E i \in Names : Vanish(i, flight) /\ UNCHANGED reborn
    BY <2>0, <2>1 DEF Goes, Keeps
  <2>2. CASE /\ \E i \in Names : /\ world[i] # "none"
                                /\ world' = [world EXCEPT ![i] =
                                        IF @ = "running" THEN "stopped" ELSE "running"]
             /\ UNCHANGED <<flight, passwords, reborn>>
    <3>1. \A i \in Names : world'[i] = "none" <=> world[i] = "none"
      BY <1>0, <2>2 DEF TypeOK
    <3> QED BY <2>0, <2>2, <3>1 DEF Calm, Keeps
  <2>3. CASE UNCHANGED <<world, flight, passwords, reborn>>
    BY <2>0, <2>3 DEF Calm, Keeps
  <2>4. CASE Elsewhere
    BY <2>4 DEF Elsewhere, Keeps
  <2> QED BY <1>2, <2>1, <2>2, <2>3, <2>4 DEF Outside, Elsewhere
<1> QED BY <1>1, <1>2

(* Only the daemon hands out passwords, and only a removal outdates one.   *)
LEMMA PasswordsKeep ==
    ASSUME IInv, Next
    PROVE  \/ Keeps({"passwordMsg"}, flight, flight') \/ ServePassword
           \/ \E i \in Names : Goes(i)
<1>1. CASE Keeps(Held, flight, flight')
  BY <1>1 DEF Keeps, Held
<1>2. CASE OpenForm \/ Submit
  BY <1>2, FormsKeep DEF Keeps
<1>3. CASE ServeCreate
  <2>1. PICK c \in InFlight({"create"}), ok \in BOOLEAN :
           Traded(flight, flight', {c}, {[tag |-> "createdMsg", ok |-> ok, of |-> c.of]})
    BY <1>3, CreateTraded
  <2> QED BY <2>1, TradedKeeps
<1>4. CASE ConfirmQuit
  BY <1>4, LaunchTrades, TradedKeeps DEF ConfirmQuit, Is
<1>5. CASE ServeShutdown
  <2>1. PICK r : Traded(flight, flight', {Is("shutdown")},
                        {[tag |-> "shutdownDoneMsg", result |-> r]})
    BY <1>5, ShutdownTraded
  <2> QED BY <2>1, TradedKeeps
<1>6. CASE ServeRemove \/ Outside
  BY <1>6, RemovalSteps
<1>7. CASE ConfirmDestroy
  BY <1>7, DestroyKeeps DEF Keeps
<1> QED BY <1>1, <1>2, <1>3, <1>4, <1>5, <1>6, <1>7, OthersKeep

(* A create has gone well.                                                 *)
Creates == \E c \in InFlight({"create"}) :
    /\ \E i \in Meant(c) : world' = [world EXCEPT ![i] = "running"]
    /\ flight' = Answered(c, [tag |-> "createdMsg", ok |-> TRUE, of |-> c.of])

(* One that fails leaves nothing, or an instance that is remembered.       *)
LEMMA CreateEnds ==
    ASSUME TypeOK, ServeCreate
    PROVE  /\ UNCHANGED <<list, passwords>> /\ reborn \subseteq reborn'
           /\ \/ UNCHANGED world
              \/ Creates
              \/ \E j \in Names : /\ \E s : s # "none" /\ world' = [world EXCEPT ![j] = s]
                                 /\ j \in reborn'
<1>1. PICK c \in InFlight({"create"}), ok \in BOOLEAN :
         /\ \/ UNCHANGED <<world, reborn>>
            \/ \E i \in Meant(c) :
                 /\ \E s \in Made(ok) : world' = [world EXCEPT ![i] = s]
                 /\ reborn' = IF ok THEN reborn ELSE reborn \cup {i}
         /\ flight' = Answered(c, [tag |-> "createdMsg", ok |-> ok, of |-> c.of])
  BY DEF ServeCreate
<1>2. UNCHANGED <<list, passwords>>
  BY DEF ServeCreate, listVars
<1>3. CASE UNCHANGED <<world, reborn>>
  BY <1>2, <1>3
<1>4. ASSUME NEW i \in Meant(c), NEW s \in Made(ok), world' = [world EXCEPT ![i] = s],
             reborn' = IF ok THEN reborn ELSE reborn \cup {i}
      PROVE  \/ UNCHANGED reborn /\ Creates
             \/ /\ i \in Names /\ s # "none" /\ reborn \subseteq reborn' /\ i \in reborn'
  <2>1. CASE ok
    BY <1>1, <1>4, <2>1 DEF Creates, Made
  <2>2. CASE ~ok
    <3>1. c \in Asking \cup Answers /\ c.tag = "create"
      BY DEF InFlight, TypeOK
    <3>2. i \in Names
      BY <1>4, <3>1, TuiAssumption DEF Meant, TypeOK, Asking, Answers
    <3> QED BY <1>4, <2>2, <3>2 DEF Made
  <2> QED BY <2>1, <2>2
<1> QED BY <1>1, <1>2, <1>3, <1>4

(* Every step is one of these, as far as passwords go.                     *)
LEMMA PasswordSteps ==
    ASSUME IInv, Next
    PROVE  \/ Calm \/ InstancesMsg \/ PasswordMsg \/ ServeCreate
           \/ Elsewhere \/ \E i \in Names : Goes(i)
<1> USE DEF listVars, outside, history
<1>0. TypeOK
  BY DEF IInv
<1>1. CASE Keyboard
  <2>1. UNCHANGED <<world, list, passwords>> /\ reborn \subseteq reborn'
    BY <1>1 DEF Keyboard, AskQuit, StartUpdate, MoveCursor, Refresh, Toggle, AskConn, OpenLogs,
              OpenForm, AskDestroy, CloseLogs, CloseConn, CloseUpdate, LeaveForm, AdvanceForm,
              Submit, ChooseDestroy, LeaveDestroy, ConfirmDestroy, ConfirmQuit, CancelQuit,
              CloseWindow
  <2> QED BY <2>1 DEF Calm
<1>2. CASE Update
  BY <1>2 DEF Update, TickMsg, ActionDoneMsg, ConnStringMsg, PullMsg, SpinMsg, CreatedMsg,
              LogMsg, UpdateCheckedMsg, ShutdownDoneMsg, StaleMsg, Calm
<1>3. CASE ServeList \/ ServePassword
  BY <1>3 DEF ServeList, ServePassword, Calm
<1>4. CASE ServeAction
  <2>1. \A i \in Names : world'[i] = "none" <=> world[i] = "none"
    BY <1>0, <1>4 DEF ServeAction, TypeOK
  <2> QED BY <1>4, <2>1 DEF ServeAction, Calm
<1>5. CASE ServeRemove \/ Outside
  BY <1>5, RemovalSteps
<1>6. CASE ServeShutdown
  <2>1. \A i \in Names : world'[i] = "none" <=> world[i] = "none"
    BY <1>0, <1>6 DEF ServeShutdown, TypeOK
  <2> QED BY <1>6, <2>1 DEF ServeShutdown, Calm
<1> QED BY <1>1, <1>2, <1>3, <1>4, <1>5, <1>6 DEF Next, Serve

(* A password message is its instance and what it says.                    *)
LEMMA PasswordsDiffer ==
    ASSUME NEW i, NEW j, NEW p, NEW q, Password(i, p) = Password(j, q)
    PROVE  i = j /\ p = q
<1>1. Password(i, p).id = i /\ Password(i, p).pw = p
  BY DEF Password
<1>2. Password(j, q).id = j /\ Password(j, q).pw = q
  BY DEF Password
<1> QED BY <1>1, <1>2

(* An instance that goes takes its password with it.                       *)
LEMMA GoesLeaves ==
    ASSUME IInv, NEW i \in Names, NEW j \in Names, Goes(j),
           passwords'[i] = "right" \/ Password(i, "right") \in DOMAIN flight'
    PROVE  world'[i] # "none"
<1>0. /\ TypeOK
      /\ passwords[i] = "right" \/ Password(i, "right") \in DOMAIN flight => world[i] # "none"
  BY DEF IInv, Current
<1> PICK b : Keeps({"passwordMsg"}, flight, b) /\ Vanish(j, b)
  BY DEF Goes
<1>1. CASE passwords'[i] = "right"
  <2>1. i # j /\ passwords[i] = "right"
    BY <1>0, <1>1 DEF Vanish, Outdated, TypeOK
  <2> QED BY <1>0, <2>1 DEF Vanish, TypeOK
<1>2. CASE Password(i, "right") \in DOMAIN flight'
  <2>1. Outdating(b, flight', j)
    BY GoneBag DEF Vanish
  <2>2. Password(i, "right") # Password(j, "stale")
    BY PasswordsDiffer
  <2>3. i # j /\ Password(i, "right") \in DOMAIN b
    BY <1>2, <2>1, <2>2 DEF Outdating
  <2>4. Password(i, "right") \in DOMAIN flight
    BY <2>3 DEF Keeps, Password
  <2> QED BY <1>0, <2>3, <2>4 DEF Vanish, TypeOK
<1> QED BY <1>1, <1>2

(* Every step keeps a right password that of an instance there is.         *)
LEMMA CurrentKept ==
    ASSUME IInv, Next
    PROVE  Current'
<1> SUFFICES ASSUME NEW i \in Names,
                    passwords'[i] = "right" \/ Password(i, "right") \in DOMAIN flight'
             PROVE  world'[i] # "none"
  BY DEF Current
<1>0. /\ TypeOK
      /\ passwords[i] = "right" \/ Password(i, "right") \in DOMAIN flight => world[i] # "none"
      /\ Password(i, "right").tag = "passwordMsg"
  BY DEF IInv, Current, Password
<1>1. CASE Keeps({"passwordMsg"}, flight, flight')
  <2>1. Password(i, "right") \in DOMAIN flight' => world[i] # "none"
    BY <1>0, <1>1 DEF Keeps
  <2>2. CASE Calm
    BY <1>0, <2>1, <2>2 DEF Calm
  <2>3. CASE InstancesMsg
    <3>1. passwords'[i] = "right" => passwords[i] = "right"
      BY <2>3 DEF InstancesMsg, Listed
    <3>2. world' = world
      BY <2>3 DEF InstancesMsg, outside
    <3> QED BY <1>0, <2>1, <3>1, <3>2
  <2>4. CASE PasswordMsg
    <3>1. PICK m \in InFlight({"passwordMsg"}) :
             passwords' = IF m.pw = "error" THEN passwords ELSE [passwords EXCEPT ![m.id] = m.pw]
      BY <2>4 DEF PasswordMsg
    <3>2. m = Password(m.id, m.pw) /\ m \in DOMAIN flight
      BY <1>0, Kinds DEF TypeOK, InFlight
    <3>3. passwords'[i] = "right" => passwords[i] = "right" \/ (m.id = i /\ m.pw = "right")
      BY <1>0, <3>1 DEF TypeOK
    <3>4. world' = world
      BY <2>4 DEF PasswordMsg, outside
    <3> QED BY <1>0, <2>1, <3>2, <3>3, <3>4
  <2>5. CASE ServeCreate
    <3>1. UNCHANGED passwords /\ (world[i] # "none" => world'[i] # "none")
      <4>1. UNCHANGED world \/ \E j, s : s # "none" /\ world' = [world EXCEPT ![j] = s]
        BY <2>5, <1>0, CreateEnds DEF Creates
      <4> QED BY <1>0, <2>5, <4>1, CreateEnds DEF TypeOK
    <3> QED BY <1>0, <2>1, <3>1
  <2>6. CASE Elsewhere
    <3>1. UNCHANGED passwords /\ (world[i] # "none" => world'[i] # "none")
      BY <1>0, <2>6 DEF Elsewhere, TypeOK
    <3> QED BY <1>0, <2>1, <3>1
  <2>7. CASE \E j \in Names : Goes(j)
    BY <2>7, GoesLeaves
  <2> QED BY <2>2, <2>3, <2>4, <2>5, <2>6, <2>7, PasswordSteps
<1>2. CASE ServePassword
  <2>1. UNCHANGED <<world, passwords>>
    BY <1>2 DEF ServePassword, listVars, outside
  <2> PICK c \in InFlight({"password"}) :
         flight' = Answered(c, Password(c.id,
                     IF daemon = "up" /\ world[c.id] # "none" THEN "right" ELSE "error"))
    BY <1>2 DEF ServePassword
  <2> DEFINE m == Password(c.id, IF daemon = "up" /\ world[c.id] # "none" THEN "right" ELSE "error")
  <2>2. Traded(flight, flight', {c}, {m})
    BY AnswerTrades DEF InFlight
  <2>3. CASE Password(i, "right") = m
    BY <2>1, <2>3, PasswordsDiffer
  <2>4. CASE Password(i, "right") # m
    <3>1. Password(i, "right") \in DOMAIN flight' => Password(i, "right") \in DOMAIN flight
      BY <2>2, <2>4 DEF Traded
    <3> QED BY <1>0, <2>1, <3>1
  <2> QED BY <2>3, <2>4
<1>3. CASE \E j \in Names : Goes(j)
  BY <1>3, GoesLeaves
<1> QED BY <1>1, <1>2, <1>3, PasswordsKeep

(* What is not listed stays without a password.                            *)
LEMMA ForgottenKept ==
    ASSUME IInv, Next
    PROVE  Forgotten'
<1>0. TypeOK /\ Forgotten
  BY DEF IInv
<1>1. CASE Calm
  BY <1>0, <1>1 DEF Forgotten, Calm
<1>2. CASE InstancesMsg
  <2>1. passwords' = Listed(list', passwords)
    BY <1>2 DEF InstancesMsg
  <2> QED BY <2>1 DEF Forgotten, Listed
<1>3. CASE PasswordMsg
  <2>1. PICK m \in InFlight({"passwordMsg"}) :
           /\ passwords' = IF m.pw = "error" THEN passwords ELSE [passwords EXCEPT ![m.id] = m.pw]
           /\ reborn' = IF m.pw = "stale" \/ (m.pw = "right" /\ list[m.id] = "none")
                        THEN reborn \cup {m.id} ELSE reborn
    BY <1>3 DEF PasswordMsg
  <2>2. m.id \in Names /\ m.pw \in {"right", "stale", "error"}
    BY <1>0, Kinds DEF TypeOK, InFlight
  <2>3. list' = list
    BY <1>3 DEF PasswordMsg
  <2> SUFFICES ASSUME NEW i \in Names, i \notin reborn', list[i] = "none"
               PROVE  passwords'[i] = "none"
    BY <2>3 DEF Forgotten
  <2>4. passwords[i] = "none"
    BY <1>0, <2>1 DEF Forgotten
  <2>5. m.id # i \/ m.pw = "error"
    BY <2>1, <2>2
  <2> QED BY <1>0, <2>1, <2>4, <2>5 DEF TypeOK
<1>4. CASE ServeCreate
  BY <1>0, <1>4, CreateEnds DEF Forgotten
<1>5. CASE Elsewhere
  BY <1>0, <1>5 DEF Elsewhere, Forgotten
<1>6. CASE \E j \in Names : Goes(j)
  <2> PICK j \in Names : Goes(j)
    BY <1>6
  <2>1. /\ passwords' = [passwords EXCEPT ![j] = Outdated(j, passwords[j])]
        /\ UNCHANGED <<list, reborn>>
    BY DEF Goes, Vanish
  <2>2. \A i \in Names : passwords[i] = "none" => passwords'[i] = "none"
    BY <1>0, <2>1 DEF Outdated, TypeOK
  <2> QED BY <1>0, <2>1, <2>2 DEF Forgotten
<1> QED BY <1>1, <1>2, <1>3, <1>4, <1>5, <1>6, PasswordSteps

(* A name is chosen in the form.                                           *)
Chosen(i) == /\ list[i] = "none"
             /\ world[i] = "none" \/ i \in reborn'
             /\ UNCHANGED <<world, list, passwords>>

(* The form keeps the name it is about to use, and otherwise it has just   *)
(* been chosen.                                                            *)
LEMMA ExpectedStays ==
    ASSUME IInv, Next, ~astray', NEW i \in Names, Expected(i)'
    PROVE  Expected(i) \/ Chosen(i)
<1> USE DEF dialogs, outside, listVars
<1>0. /\ TypeOK /\ ~astray
      /\ view # "create" => InFlight(Creation) = {}
  BY AstrayStays DEF IInv, FormHeld
<1>1. /\ form'.id = i /\ view' = "create"
      /\ \/ form'.step \in {"port", "restart"}
         \/ \E c \in InFlight({"create"})' : TRUE
         \/ \E c \in InFlight({"createdMsg"})' : ~c.ok
  BY DEF Expected, Running
<1>2. CASE OpenForm
  <2>1. InFlight(Creation) = {}
    BY <1>0, <1>2 DEF OpenForm, Key
  <2>2. Disowning(flight, flight', {"create", "createdMsg", "pull"})
    BY <1>0, <1>2, DisownedBag DEF OpenForm, Ownable, TypeOK
  <2>3. InFlight({"create"})' = {} /\ InFlight({"createdMsg"})' = {}
    BY <2>1, <2>2 DEF Disowning, InFlight, Creation
  <2>4. form'.step = "engine"
    BY <1>2 DEF OpenForm, NewForm
  <2> QED BY <1>1, <2>3, <2>4
<1>3. CASE Submit
  <2>1. form.step = "restart" /\ form'.id = form.id /\ view = "create"
    BY <1>0, <1>3 DEF Submit, Key, TypeOK
  <2> QED BY <1>1, <2>1 DEF Expected
<1>4. CASE ServeCreate
  <2>1. form'.id = form.id /\ view' = view /\ Running({"create"})
    BY <1>0, <1>4 DEF ServeCreate, TypeOK, Running
  <2> QED BY <1>1, <2>1 DEF Expected
<1>5. CASE CreatedMsg
  <2> PICK m \in InFlight({"createdMsg"}) :
         \/ view' = "list"
         \/ ~m.ok /\ form' = [form EXCEPT !.step = "restart"] /\ view' = view
    BY <1>5 DEF CreatedMsg
  <2>1. form'.id = form.id /\ view = "create" /\ ~m.ok
    BY <1>0, <1>1 DEF TypeOK
  <2> QED BY <1>1, <2>1 DEF Expected
<1>6. ASSUME Keeps(Creation, flight, flight')
      PROVE  /\ InFlight({"create"})' \subseteq InFlight({"create"})
             /\ InFlight({"createdMsg"})' \subseteq InFlight({"createdMsg"})
  BY <1>6 DEF Keeps, InFlight, Creation
<1>7. CASE AdvanceForm
  <2>1. UNCHANGED <<flight, view, world, list, passwords>> /\ view = "create"
    BY <1>7 DEF AdvanceForm, Key
  <2>2. CASE form.step \in {"engine", "version"} /\ form'.id = form.id
                /\ form'.step \in {"version", "name"}
    BY <1>1, <2>1, <2>2 DEF Expected, InFlight, Running
  <2>3. CASE \E j \in session.names :
                /\ list[j] = "none"
                /\ form' = [form EXCEPT !.id = j, !.step = "port"]
                /\ reborn' = reborn \cup ({j} \cap Rows(world))
    <3> PICK j \in session.names :
                /\ list[j] = "none"
                /\ form' = [form EXCEPT !.id = j, !.step = "port"]
                /\ reborn' = reborn \cup ({j} \cap Rows(world))
      BY <2>3
    <3>1. j = i
      BY <1>0, <1>1 DEF TypeOK
    <3>2. world[i] = "none" \/ i \in reborn'
      BY <3>1 DEF Rows
    <3> QED BY <2>1, <3>1, <3>2 DEF Chosen
  <2>4. CASE form.step = "port" /\ form'.id = form.id
    BY <1>1, <2>1, <2>4 DEF Expected
  <2>5. \/ /\ form.step \in {"engine", "version"} /\ form'.id = form.id
           /\ form'.step \in {"version", "name"}
        \/ \E j \in session.names :
                /\ list[j] = "none"
                /\ form' = [form EXCEPT !.id = j, !.step = "port"]
                /\ reborn' = reborn \cup ({j} \cap Rows(world))
        \/ form.step = "port" /\ form'.id = form.id
    BY <1>0, <1>7 DEF AdvanceForm, TypeOK
  <2> QED BY <2>2, <2>3, <2>4, <2>5
<1>8. CASE UNCHANGED form /\ view = "create" /\ Keeps(Creation, flight, flight')
  BY <1>1, <1>6, <1>8 DEF Expected, Running
<1>9. CASE Keyboard /\ ~OpenForm /\ ~AdvanceForm /\ ~Submit
  <2>1. UNCHANGED form /\ view = "create"
    BY <1>1, <1>9 DEF Keyboard, AskQuit, StartUpdate, MoveCursor, Refresh, Toggle, AskConn,
       OpenLogs, AskDestroy, CloseLogs, CloseConn, CloseUpdate, LeaveForm, ChooseDestroy,
       LeaveDestroy, ConfirmDestroy, SubmitDestroy, ConfirmQuit, CancelQuit, CloseWindow, Key, Back
  <2> QED BY <1>8, <1>9, <2>1, CreatesKeep, <1>4
<1>10. CASE Update /\ ~CreatedMsg
  <2>1. UNCHANGED form /\ view = "create"
    BY <1>1, <1>10 DEF Update, TickMsg, InstancesMsg, PasswordMsg, ActionDoneMsg, ConnStringMsg,
       PullMsg, SpinMsg, LogMsg, UpdateCheckedMsg, ShutdownDoneMsg, StaleMsg
  <2> QED BY <1>2, <1>3, <1>4, <1>8, <2>1, CreatesKeep
<1>11. CASE (Serve /\ ~ServeCreate) \/ Outside
  <2>1. UNCHANGED form /\ view = "create"
    BY <1>1, <1>11 DEF Serve, ServeList, ServePassword, ServeAction, ServeRemove, ServeShutdown,
       Outside
  <2> QED BY <1>2, <1>3, <1>4, <1>8, <2>1, CreatesKeep
<1> QED BY <1>2, <1>3, <1>4, <1>5, <1>7, <1>9, <1>10, <1>11 DEF Next

(* Once the instance is there the form is about to create no other.        *)
LEMMA CreatedOnce ==
    ASSUME IInv, ServeCreate, ~astray, Creates
    PROVE  /\ form.id \in Names /\ Expected(form.id)
           /\ world' = [world EXCEPT ![form.id] = "running"]
           /\ \A i \in Names : ~Expected(i)'
<1>0. TypeOK /\ FormHeld /\ FormNamed /\ Single(Creation)
  BY DEF IInv, FormHeld
<1>1. PICK c \in InFlight({"create"}) :
         /\ \E i \in Meant(c) : world' = [world EXCEPT ![i] = "running"]
         /\ flight' = Answered(c, [tag |-> "createdMsg", ok |-> TRUE, of |-> c.of])
  BY DEF Creates
<1>2. c \in InFlight(Creation) /\ c.tag = "create" /\ c \in DOMAIN flight
  BY DEF InFlight, Creation
<1>3. c.id = form.id /\ form.step = "submitting" /\ view = "create"
  BY <1>0, <1>2 DEF FormHeld
<1>4. form.id \in Names
  BY <1>0, <1>3 DEF FormNamed
<1>5. Meant(c) = {form.id}
  BY <1>3, <1>4, TuiAssumption DEF Meant
<1>6. Expected(form.id)
  BY <1>2, <1>3 DEF Expected, Running, InFlight
<1> DEFINE m == [tag |-> "createdMsg", ok |-> TRUE, of |-> c.of]
<1>7. \A n \in InFlight(Creation)' : n = m
  <2>1. Traded(flight, flight', {c}, {m})
    BY <1>1, <1>2, AnswerTrades
  <2>2. InFlight(Creation) \subseteq {c}
    BY <1>0, <1>2 DEF Single
  <2>3. m \notin {c}
    BY <1>2
  <2> HIDE DEF m
  <2>4. {n \in {m} : n.tag \in Creation} \subseteq {m}
    OBVIOUS
  <2> QED BY <1>0, <2>1, <2>2, <2>3, <2>4, SingleTraded
<1>8. InFlight({"create"})' = {} /\ \A n \in InFlight({"createdMsg"})' : n.ok
  BY <1>7 DEF InFlight, Creation
<1>9. form'.step = "submitting"
  BY <1>0, <1>3 DEF ServeCreate, TypeOK
<1> QED BY <1>1, <1>4, <1>5, <1>6, <1>8, <1>9 DEF Expected, Running

(* Every step keeps an instance about to be created without a past.        *)
LEMMA UnbornKept ==
    ASSUME IInv, Next
    PROVE  Unborn'
<1> SUFFICES ASSUME ~astray', NEW i \in Names, i \notin reborn'
             PROVE  /\ passwords'[i] = "stale" => world'[i] = "none"
                    /\ Expected(i)' => world'[i] = "none" /\ passwords'[i] # "stale"
  BY DEF Unborn
<1>0. /\ TypeOK /\ ~astray
      /\ i \notin reborn => /\ passwords[i] = "stale" => world[i] = "none"
                            /\ Expected(i) => world[i] = "none" /\ passwords[i] # "stale"
      /\ \A j \in Names \ reborn : Expected(j) => passwords[j] # "stale"
      /\ i \notin reborn /\ list[i] = "none" => passwords[i] = "none"
  BY AstrayStays DEF IInv, Unborn, Forgotten
<1>1. Expected(i)' => Expected(i) \/ Chosen(i)
  BY ExpectedStays
<1>2. CASE Calm
  <2>1. i \notin reborn
    BY <1>2 DEF Calm
  <2> QED BY <1>0, <1>1, <1>2, <2>1 DEF Calm, Chosen
<1>3. CASE InstancesMsg
  <2>1. UNCHANGED <<world, reborn>> /\ passwords' = Listed(list', passwords)
    BY <1>3 DEF InstancesMsg, outside, history
  <2>2. passwords'[i] \in {"none", passwords[i]}
    BY <2>1 DEF Listed
  <2> QED BY <1>0, <1>1, <2>1, <2>2 DEF Chosen
<1>4. CASE PasswordMsg
  <2>1. PICK m \in InFlight({"passwordMsg"}) :
           /\ passwords' = IF m.pw = "error" THEN passwords ELSE [passwords EXCEPT ![m.id] = m.pw]
           /\ reborn' = IF m.pw = "stale" \/ (m.pw = "right" /\ list[m.id] = "none")
                        THEN reborn \cup {m.id} ELSE reborn
    BY <1>4 DEF PasswordMsg
  <2>2. m.id \in Names /\ m.pw \in {"right", "stale", "error"}
    BY <1>0, Kinds DEF TypeOK, InFlight
  <2>3. i \notin reborn /\ (passwords'[i] = "stale" => passwords[i] = "stale")
    BY <1>0, <2>1, <2>2 DEF TypeOK
  <2>4. world' = world
    BY <1>4 DEF PasswordMsg, outside
  <2> QED BY <1>0, <1>1, <2>3, <2>4 DEF Chosen
<1>5. CASE ServeCreate
  <2>1. UNCHANGED passwords /\ i \notin reborn
    BY <1>0, <1>5, CreateEnds
  <2>2. CASE world' = world
    BY <1>0, <1>1, <2>1, <2>2 DEF Chosen
  <2>4. CASE \E j \in Names : /\ \E s : s # "none" /\ world' = [world EXCEPT ![j] = s]
                             /\ j \in reborn'
    <3>1. world'[i] = world[i]
      BY <1>0, <2>4 DEF TypeOK
    <3> QED BY <1>0, <1>1, <2>1, <3>1 DEF Chosen
  <2>3. CASE Creates
    <3>1. /\ form.id \in Names /\ Expected(form.id)
          /\ world' = [world EXCEPT ![form.id] = "running"] /\ ~Expected(i)'
      BY <1>0, <1>5, <2>3, CreatedOnce
    <3>2. CASE i = form.id
      BY <1>0, <2>1, <3>1, <3>2
    <3>3. CASE i # form.id
      BY <1>0, <2>1, <3>1, <3>3 DEF TypeOK
    <3> QED BY <3>2, <3>3
  <2> QED BY <1>0, <1>5, <2>2, <2>3, <2>4, CreateEnds
<1>6. CASE Elsewhere
  <2>1. i \notin reborn /\ world'[i] = world[i] /\ UNCHANGED passwords
    BY <1>0, <1>6 DEF Elsewhere, TypeOK
  <2> QED BY <1>0, <1>1, <2>1 DEF Chosen
<1>7. CASE \E j \in Names : Goes(j)
  <2> PICK j \in Names : Goes(j)
    BY <1>7
  <2>1. /\ world[j] # "none"
        /\ world' = [world EXCEPT ![j] = "none"]
        /\ passwords' = [passwords EXCEPT ![j] = Outdated(j, passwords[j])]
        /\ UNCHANGED <<list, reborn>>
    BY DEF Goes, Vanish
  <2>2. CASE i = j
    <3>1. world'[i] = "none"
      BY <1>0, <2>1, <2>2 DEF TypeOK
    <3>2. ~Expected(i)'
      BY <1>0, <1>1, <2>1, <2>2, <3>1 DEF Chosen
    <3> QED BY <3>1, <3>2
  <2>3. CASE i # j
    <3>1. world'[i] = world[i] /\ passwords'[i] = passwords[i]
      BY <1>0, <2>1, <2>3 DEF TypeOK
    <3> QED BY <1>0, <1>1, <2>1, <3>1 DEF Chosen
  <2> QED BY <2>2, <2>3
<1> QED BY <1>2, <1>3, <1>4, <1>5, <1>6, <1>7, PasswordSteps

-----------------------------------------------------------------------------
(* The beginning                                                           *)

LEMMA InitTypes ==
    ASSUME Init
    PROVE  TypeOK
<1>1. session \in Sessions /\ world \in [Names -> Status]
  BY TuiAssumption DEF Init, Status
<1>2. list \in [Names -> Status] /\ passwords \in [Names -> {"none", "right", "stale"}]
  BY DEF Init, Status
<1>3. cursor \in 0..LastRow(list)
  BY LastRowNat DEF Init
<1>4. DOMAIN flight \subseteq Asking \cup Answers
  <2>1. DOMAIN flight = {Fetch, Is("version"), Is("tick")}
    BY DEF Init, SetToBag
  <2> QED BY <2>1, Commands
<1> QED BY <1>1, <1>2, <1>3, <1>4 DEF Init, TypeOK, NoDialog, NewForm, NoStream

(* At first nothing is in flight that the invariant speaks of.             *)
LEMMA Begun ==
    ASSUME Init
    PROVE  IInv
<1>1. \A c \in DOMAIN flight : c.tag \in {"list", "version", "tick"}
  <2>1. DOMAIN flight = {Fetch, Is("version"), Is("tick")}
    BY DEF Init, SetToBag
  <2> QED BY <2>1 DEF Fetch, Is
<1>2. InFlight(Creation) = {} /\ InFlight(Farewell) = {}
  BY <1>1 DEF InFlight, Creation, Farewell
<1>3. Captured /\ FormHeld /\ FormNamed /\ QuitHeld
  BY <1>2 DEF Init, NoDialog, NewForm, Captured, FormHeld, FormNamed, QuitHeld, Single, Running
<1>4. StreamsTended
  BY DEF Init, NoStream, StreamsTended
<1>5. Current /\ Forgotten
  BY <1>1 DEF Init, Current, Forgotten, Password
<1>6. Unborn
  BY DEF Init, Unborn, Expected
<1> QED BY <1>3, <1>4, <1>5, <1>6, InitTypes DEF IInv

(* What changes nothing keeps the invariant.                               *)
LEMMA NothingHappens ==
    ASSUME IInv, UNCHANGED vars
    PROVE  IInv'
<1> USE DEF vars, listVars, dialogs, outside, history
<1>1. TypeOK'
  BY DEF IInv, TypeOK
<1>2. Captured' /\ FormNamed' /\ Forgotten'
  BY DEF IInv, Captured, FormNamed, Forgotten
<1>3. FormHeld' /\ QuitHeld'
  BY DEF IInv, FormHeld, QuitHeld, Single, InFlight, Running
<1>4. StreamsTended' /\ Current'
  BY DEF IInv, StreamsTended, Current
<1>5. Unborn'
  BY DEF IInv, Unborn, Expected, Running, InFlight
<1> QED BY <1>1, <1>2, <1>3, <1>4, <1>5 DEF IInv

-----------------------------------------------------------------------------
(* The theorems                                                            *)

(* The inductive invariant holds in every state of every session.          *)
THEOREM TuiInvariance == Spec => []IInv
<1>1. IInv /\ [Next]_vars => IInv'
  <2> SUFFICES ASSUME IInv, [Next]_vars PROVE IInv'
    OBVIOUS
  <2>1. CASE Next
    <3>1. TypeOK' /\ Captured' /\ FormNamed' /\ StreamsTended'
      BY <2>1, TypesKept, CapturedKept, FormNamedKept, StreamsTendedKept
    <3>2. FormHeld' /\ QuitHeld'
      BY <2>1, FormHeldKept, QuitHeldKept
    <3>3. Current' /\ Forgotten' /\ Unborn'
      BY <2>1, CurrentKept, ForgottenKept, UnbornKept
    <3> QED BY <3>1, <3>2, <3>3 DEF IInv
  <2>2. CASE UNCHANGED vars
    BY <2>2, NothingHappens
  <2> QED BY <2>1, <2>2
<1> QED BY <1>1, Begun, PTL DEF Spec

(* Every variable of the window keeps to its values, the cursor to the rows *)
(* of the list, whatever is typed and in whatever order answers arrive.    *)
THEOREM TypeCorrect == Spec => []TypeOK
<1>1. IInv => TypeOK
  BY DEF IInv
<1> QED BY <1>1, TuiInvariance, PTL

(* There is at most one create in flight, and its form is on the screen and *)
(* waits for the answer (create.go:171-172, model.go:335-345).             *)
THEOREM CreatesShown == Spec => []CreateOnScreen
<1>1. IInv => CreateOnScreen
  <2> SUFFICES ASSUME IInv, ~astray
               PROVE  /\ \A c \in InFlight(Creation) :
                           c.of = "now" /\ form.step = "submitting" /\ view = "create" /\ flight[c] = 1
                      /\ Cardinality(InFlight(Creation)) <= 1
    BY DEF CreateOnScreen, Creation
  <2>1. FormHeld
    BY DEF IInv
  <2>2. Single(Creation)
    BY <2>1 DEF FormHeld
  <2>3. CASE InFlight(Creation) = {}
    <3>1. Cardinality(InFlight(Creation)) = 0
      BY <2>3, FS_EmptySet
    <3> QED BY <2>3, <3>1
  <2>4. CASE InFlight(Creation) # {}
    <3>1. PICK c : InFlight(Creation) = {c}
      BY <2>2, <2>4 DEF Single
    <3>2. Cardinality(InFlight(Creation)) = 1
      BY <3>1, FS_Singleton
    <3> QED BY <2>1, <2>2, <3>2 DEF FormHeld, Single
  <2> QED BY <2>3, <2>4
<1> QED BY <1>1, TuiInvariance, PTL

(* The answer to a shutdown finds the quit screen that asked for it, and    *)
(* the program does not die of a nil state (model.go:315-329).             *)
THEOREM ShutdownsAnswered == Spec => []ShutdownAnswered
<1>1. IInv => ShutdownAnswered
  BY DEF IInv, QuitHeld, ShutdownAnswered, Farewell
<1> QED BY <1>1, TuiInvariance, PTL

(* An open stream of logs is on the screen, and until its end somebody      *)
(* waits for the next line (logs.go:27-31, 145, model.go:347-353).         *)
THEOREM StreamsAreTended == Spec => []StreamsTended
<1>1. IInv => StreamsTended
  BY DEF IInv
<1> QED BY <1>1, TuiInvariance, PTL

(* The password shown is that of the instance there is, except of ids that  *)
(* the history names (model.go:180-210).                                   *)
THEOREM PasswordsRight == Spec => []PasswordRight
<1>1. IInv => PasswordRight
  BY DEF IInv, Unborn, PasswordRight
<1> QED BY <1>1, TuiInvariance, PTL

(* A removal is of the row that was picked, and wipes data only of a name   *)
(* that was typed (destroy.go:14-26, 46-49).                               *)
THEOREM RemovalsPicked == Spec => RemovesWhatWasPicked
<1> DEFINE Picked(c) == c.tag = "remove" => c.id = picked /\ (c.wipe => c.typed = picked)
<1>1. IInv /\ [Next]_vars => [\A c \in DOMAIN flight' \ DOMAIN flight : Picked(c)]_vars
  <2> SUFFICES ASSUME IInv, Next, NEW c \in DOMAIN flight' \ DOMAIN flight, c.tag = "remove"
               PROVE  c.id = picked /\ (c.wipe => c.typed = picked)
    OBVIOUS
  <2>1. ~Keeps({"remove"}, flight, flight')
    BY DEF Keeps
  <2>2. ConfirmDestroy
    BY <2>1, RemovalsKeep
  <2>3. PICK n \in Names \cup {0} :
          /\ destroy.wipe => n = Doomed
          /\ Traded(flight, flight', {}, {[tag |-> "remove", id |-> Doomed,
                                          wipe |-> destroy.wipe, typed |-> n]})
    BY <2>2, DestroyTrades
  <2>4. c = [tag |-> "remove", id |-> Doomed, wipe |-> destroy.wipe, typed |-> n]
    BY <2>3 DEF Traded
  <2>5. Doomed = picked
    BY DEF Doomed, IInv, Captured
  <2> QED BY <2>3, <2>4, <2>5
<1> QED BY <1>1, TuiInvariance, PTL DEF Spec, RemovesWhatWasPicked
=============================================================================
