---------------------------- MODULE ClientProofs ----------------------------
(***************************************************************************)
(* What the app makes of its matches, for any number of matches and any    *)
(* order of commands, answers, drops and restarts.                         *)
(*                                                                         *)
(* First the steps of either side, each by what it changes; then the       *)
(* numbers and types (Sane); then the results, which are counted or on     *)
(* their way (CountInv); then every call's one trace (OneTrace), and that  *)
(* app and server agree once all is quiet (AgreeInv).                      *)
(***************************************************************************)
EXTENDS ClientSession, SequenceTheorems, TLAPS

USE ClientAssumption, NoneAssumption

(* Types *)

Numbers == 0 .. MaxGames
Outcomes == {None, "win", "loss", "none"}
Counts == {None, "win", "loss"}
Activities == {"none", "matchmaking", "game"}
Calls == {"join", "again", "cancel", "leave"} \cup Repeats
Codes == {"ok", "not_found", "refused", "network_error"}

Servers == [known : BOOLEAN, activity : Activities, game : Numbers, last : Numbers, dealt : Numbers,
            truth : [Games -> Outcomes], removed : SUBSET Games, since : Numbers]
Apps == [connected : BOOLEAN, activity : Activities, game : Numbers, over : Numbers,
         calls : SUBSET Calls, left : Numbers, cancelPending : BOOLEAN, leavePending : Numbers,
         counted : [Games -> Counts]]
Commands == [type : Calls, game : Numbers]
States == [type : {"state"}, activity : Activities, game : Numbers, last : Numbers, outcome : Outcomes]
Replies == [type : {"reply"}, to : Calls, code : Codes]
Overs == [type : {"over"}, game : Games, removed : BOOLEAN, outcome : Outcomes]
Messages == States \cup Replies \cup Overs

Typed == server \in Servers /\ up \in Seq(Commands) /\ down \in Seq(Messages) /\ app \in Apps

-----------------------------------------------------------------------------
(* Queues *)

In(q) == {q[i] : i \in DOMAIN q}

LEMMA InTail ==
    ASSUME NEW S, NEW q \in Seq(S), q # <<>>
    PROVE  /\ Tail(q) \in Seq(S) /\ Head(q) \in In(q) /\ In(Tail(q)) \subseteq In(q)
           /\ In(q) \subseteq S /\ Head(q) = q[1] /\ 1 \in DOMAIN q
<1>1. Len(q) \in Nat /\ Len(q) >= 1 /\ DOMAIN q = 1 .. Len(q) /\ Head(q) = q[1]
  OBVIOUS
<1>2. /\ Tail(q) \in Seq(S) /\ DOMAIN Tail(q) = 1 .. Len(q) - 1
      /\ \A i \in 1 .. Len(q) - 1 : Tail(q)[i] = q[i + 1]
  BY <1>1, HeadTailProperties
<1>3. \A i \in 1 .. Len(q) - 1 : i + 1 \in 1 .. Len(q)
  BY <1>1
<1>4. In(Tail(q)) \subseteq In(q)
  BY <1>1, <1>2, <1>3 DEF In
<1> QED BY <1>1, <1>2, <1>4 DEF In

LEMMA InConcat ==
    ASSUME NEW S, NEW q \in Seq(S), NEW r \in Seq(S)
    PROVE  /\ q \o r \in Seq(S) /\ In(q \o r) = In(q) \cup In(r)
           /\ DOMAIN q \subseteq DOMAIN (q \o r) /\ \A i \in DOMAIN q : (q \o r)[i] = q[i]
           /\ \A j \in DOMAIN r : Len(q) + j \in DOMAIN (q \o r) /\ (q \o r)[Len(q) + j] = r[j]
<1> DEFINE s == q \o r
<1>1. Len(q) \in Nat /\ Len(r) \in Nat /\ DOMAIN q = 1 .. Len(q) /\ DOMAIN r = 1 .. Len(r)
  OBVIOUS
<1>2. /\ s \in Seq(S) /\ DOMAIN s = 1 .. Len(q) + Len(r)
      /\ \A i \in 1 .. Len(q) + Len(r) : s[i] = IF i <= Len(q) THEN q[i] ELSE r[i - Len(q)]
  BY <1>1, ConcatProperties
<1> HIDE DEF s
<1>3. \A i \in 1 .. Len(q) : i \in 1 .. Len(q) + Len(r) /\ s[i] = q[i]
  BY <1>1, <1>2
<1>4. ASSUME NEW j \in 1 .. Len(r) PROVE Len(q) + j \in 1 .. Len(q) + Len(r) /\ s[Len(q) + j] = r[j]
  <2>1. Len(q) + j \in 1 .. Len(q) + Len(r) /\ ~(Len(q) + j <= Len(q)) /\ (Len(q) + j) - Len(q) = j
    BY <1>1
  <2> QED BY <1>2, <2>1
<1>5. ASSUME NEW i \in 1 .. Len(q) + Len(r) PROVE s[i] \in In(q) \cup In(r)
  <2>1. CASE i <= Len(q)
    <3>1. i \in DOMAIN q /\ s[i] = q[i]
      BY <1>1, <1>2, <2>1
    <3> QED BY <3>1 DEF In
  <2>2. CASE ~(i <= Len(q))
    <3>1. i - Len(q) \in 1 .. Len(r)
      BY <1>1, <2>2
    <3>2. i - Len(q) \in DOMAIN r /\ s[i] = r[i - Len(q)]
      BY <1>1, <1>2, <2>2, <3>1
    <3> QED BY <3>2 DEF In
  <2> QED BY <2>1, <2>2
<1>6. In(s) = In(q) \cup In(r)
  BY <1>1, <1>2, <1>3, <1>4, <1>5 DEF In
<1> QED BY <1>1, <1>2, <1>3, <1>4, <1>6 DEF s

LEMMA InPrefix ==
    ASSUME NEW S, NEW q \in Seq(S), NEW n \in 0 .. Len(q)
    PROVE  SubSeq(q, 1, n) \in Seq(S) /\ In(SubSeq(q, 1, n)) \subseteq In(q)
<1>1. Len(q) \in Nat /\ DOMAIN q = 1 .. Len(q) /\ n \in Int /\ \A i \in 1 .. n : i \in 1 .. Len(q) /\ q[i] \in S
  OBVIOUS
<1>2. /\ SubSeq(q, 1, n) \in Seq(S) /\ Len(SubSeq(q, 1, n)) = IF 1 <= n THEN n - 1 + 1 ELSE 0
      /\ \A i \in 1 .. n - 1 + 1 : SubSeq(q, 1, n)[i] = q[1 + i - 1]
  BY <1>1, SubSeqProperties
<1>3. DOMAIN SubSeq(q, 1, n) \subseteq 1 .. n
  BY <1>1, <1>2
<1>4. \A i \in 1 .. n : SubSeq(q, 1, n)[i] = q[i]
  BY <1>1, <1>2
<1> QED BY <1>1, <1>2, <1>3, <1>4 DEF In

LEMMA InFew == /\ In(<<>>) = {} /\ \A a : In(<<a>>) = {a}
               /\ \A a, b : In(<<a, b>>) = {a, b}
<1>1. \A a, b : DOMAIN <<a, b>> = {1, 2} /\ DOMAIN <<a>> = {1}
  OBVIOUS
<1> QED BY <1>1 DEF In

LEMMA InAppend ==
    ASSUME NEW S, NEW q \in Seq(S), NEW e \in S
    PROVE  Append(q, e) \in Seq(S) /\ In(Append(q, e)) = In(q) \cup {e}
<1> DEFINE r == <<e>>
<1>1. Append(q, e) = q \o r /\ r \in Seq(S)
  BY AppendIsConcat
<1>2. In(r) = {e}
  BY InFew
<1> HIDE DEF r
<1>3. q \o r \in Seq(S) /\ In(q \o r) = In(q) \cup In(r)
  BY <1>1, InConcat
<1> QED BY <1>1, <1>2, <1>3

-----------------------------------------------------------------------------
(* Every match has its number, and is known by it *)

\* A message speaks of matches that were dealt.
Dealt(m, dealt) ==
    /\ m.type = "state" => /\ m.game \in 0 .. dealt /\ m.last \in 0 .. dealt
                           /\ m.game # NoGame <=> m.activity = "game"
    /\ m.type = "over" => m.game \in 1 .. dealt

ServerNumbered ==
    /\ server.game # NoGame <=> server.activity = "game"
    /\ server.game \in 0 .. server.dealt /\ server.last \in 0 .. server.dealt
    /\ server.game # NoGame => server.last < server.game
    /\ server.last # NoGame => server.truth[server.last] # None
    /\ \A g \in Games : g > server.dealt => server.truth[g] = None /\ g \notin server.removed

AppNumbered ==
    /\ app.game \in 0 .. server.dealt /\ app.over \in 0 .. server.dealt /\ app.leavePending \in 0 .. server.dealt
    /\ app.activity = "game" => app.game # NoGame
    /\ ~app.connected => app.calls = {} /\ down = <<>>

QueuesNumbered ==
    /\ \A c \in In(up) : c.game \in 0 .. server.dealt /\ (c.type \in {"leave", "leave again", "again"} => c.game # NoGame)
    /\ \A m \in In(down) : Dealt(m, server.dealt)

Sane == Typed /\ ServerNumbered /\ AppNumbered /\ QueuesNumbered

LEMMA NumbersFit == NoGame \in Numbers /\ Games \subseteq Numbers /\ Numbers \subseteq Nat
BY DEF NoGame, Numbers, Games

LEMMA ServerFields ==
    ASSUME NEW s \in Servers
    PROVE  /\ s.known \in BOOLEAN /\ s.activity \in Activities /\ s.game \in Numbers /\ s.last \in Numbers
           /\ s.dealt \in Numbers /\ s.truth \in [Games -> Outcomes] /\ s.removed \subseteq Games /\ s.since \in Numbers
BY DEF Servers

LEMMA AppFields ==
    ASSUME NEW a \in Apps
    PROVE  /\ a.connected \in BOOLEAN /\ a.activity \in Activities /\ a.game \in Numbers /\ a.over \in Numbers
           /\ a.calls \subseteq Calls /\ a.left \in Numbers /\ a.cancelPending \in BOOLEAN
           /\ a.leavePending \in Numbers /\ a.counted \in [Games -> Counts]
BY DEF Apps

LEMMA MessageFields ==
    ASSUME NEW m \in Messages
    PROVE  /\ m.type \in {"state", "reply", "over"}
           /\ m.type = "state" => /\ m \in States /\ m.activity \in Activities /\ m.game \in Numbers
                                  /\ m.last \in Numbers /\ m.outcome \in Outcomes
           /\ m.type = "reply" => m \in Replies /\ m.to \in Calls /\ m.code \in Codes
           /\ m.type = "over" => m \in Overs /\ m.game \in Games /\ m.removed \in BOOLEAN /\ m.outcome \in Outcomes
BY DEF Messages, States, Replies, Overs

LEMMA StateFits ==
    ASSUME NEW s \in Servers
    PROVE  /\ StateOf(s) \in Messages /\ StateOf(s).type = "state"
           /\ StateOf(s).activity = s.activity /\ StateOf(s).game = s.game /\ StateOf(s).last = s.last
           /\ s.last # NoGame => StateOf(s).outcome = s.truth[s.last]
<1>1. s.last # NoGame => s.last \in Games
  BY ServerFields DEF Numbers, Games, NoGame
<1>2. StateOf(s).outcome = (IF s.last = NoGame THEN None ELSE s.truth[s.last])
  BY DEF StateOf
<1>3. StateOf(s).outcome \in Outcomes
  BY <1>1, <1>2, ServerFields DEF Outcomes
<1>4. /\ StateOf(s).type = "state" /\ StateOf(s).activity = s.activity /\ StateOf(s).game = s.game
      /\ StateOf(s).last = s.last
  BY DEF StateOf
<1>5. StateOf(s) \in States
  BY <1>3, ServerFields DEF StateOf, States
<1> QED BY <1>2, <1>4, <1>5 DEF Messages

LEMMA ReplyFits ==
    ASSUME NEW to \in Calls, NEW code \in Codes
    PROVE  /\ Reply(to, code) \in Messages /\ Reply(to, code).type = "reply"
           /\ Reply(to, code).to = to /\ Reply(to, code).code = code
BY DEF Reply, Messages, Replies

\* The player's match is over for them.
HasEnded(s) == s.game # NoGame /\ (s.truth[s.game] # None \/ s.game \in s.removed)

LEMMA OverFits ==
    ASSUME NEW s \in Servers, s.game # NoGame
    PROVE  /\ s.game \in Games /\ Over(s) \in Messages
           /\ Over(s).type = "over" /\ Over(s).game = s.game /\ (Over(s).removed <=> s.game \in s.removed)
           /\ Over(s).outcome = s.truth[s.game]
<1>1. s.game \in Games
  BY ServerFields DEF Numbers, Games, NoGame
<1>2. Over(s) \in Overs
  BY <1>1, ServerFields DEF Over, Overs
<1> QED BY <1>1, <1>2 DEF Over, Messages

\* The message that the match s is in has ended, if it has.
LEMMA EndedFits ==
    ASSUME NEW s \in Servers
    PROVE  /\ Ended(s) \in Seq(Messages)
           /\ HasEnded(s) => In(Ended(s)) = {Over(s)}
           /\ ~HasEnded(s) => In(Ended(s)) = {}
<1>1. CASE HasEnded(s)
  <2>1. Ended(s) = <<Over(s)>>
    BY <1>1 DEF Ended, HasEnded
  <2>2. Over(s) \in Messages
    BY <1>1, OverFits DEF HasEnded
  <2>3. <<Over(s)>> \in Seq(Messages)
    BY <2>2
  <2> QED BY <1>1, <2>1, <2>3, InFew
<1>2. CASE ~HasEnded(s)
  <2>1. Ended(s) = <<>>
    BY <1>2 DEF Ended, HasEnded
  <2> QED BY <1>2, <2>1, InFew
<1> QED BY <1>1, <1>2

LEMMA EndsOnly == ASSUME NEW s \in Servers PROVE \A m \in In(Ended(s)) : m.type = "over"
<1>1. Over(s).type = "over"
  BY DEF Over
<1> QED BY <1>1, EndedFits

LEMMA SendsFit ==
    ASSUME Typed, NEW messages \in Seq(Messages), Sends(messages)
    PROVE  /\ down' \in Seq(Messages)
           /\ app.connected => down' = down \o messages /\ In(down') = In(down) \cup In(messages)
           /\ ~app.connected => down' = <<>> /\ In(down') = {}
<1>1. down \o messages \in Seq(Messages) /\ In(down \o messages) = In(down) \cup In(messages)
  BY InConcat DEF Typed
<1> QED BY <1>1, InFew DEF Sends

LEMMA SendsAnswer ==
    ASSUME Typed, NEW s \in Servers, NEW to \in Calls, NEW code \in Codes, Sends(<<StateOf(s), Reply(to, code)>>)
    PROVE  /\ down' \in Seq(Messages)
           /\ In(down') \subseteq In(down) \cup {StateOf(s), Reply(to, code)}
           /\ app.connected => down' = down \o <<StateOf(s), Reply(to, code)>>
           /\ ~app.connected => down' = <<>>
<1>1. <<StateOf(s), Reply(to, code)>> \in Seq(Messages)
  BY StateFits, ReplyFits
<1> QED BY <1>1, SendsFit, InFew

LEMMA SendsReply ==
    ASSUME Typed, NEW to \in Calls, NEW code \in Codes, Sends(<<Reply(to, code)>>)
    PROVE  /\ down' \in Seq(Messages)
           /\ In(down') \subseteq In(down) \cup {Reply(to, code)}
           /\ app.connected => down' = down \o <<Reply(to, code)>>
           /\ ~app.connected => down' = <<>>
<1>1. <<Reply(to, code)>> \in Seq(Messages)
  BY ReplyFits
<1> QED BY <1>1, SendsFit, InFew

LEMMA SendsState ==
    ASSUME Typed, NEW s \in Servers, Sends(<<StateOf(s)>>)
    PROVE  /\ down' \in Seq(Messages)
           /\ In(down') \subseteq In(down) \cup {StateOf(s)}
           /\ app.connected => down' = down \o <<StateOf(s)>>
           /\ ~app.connected => down' = <<>>
<1>1. <<StateOf(s)>> \in Seq(Messages)
  BY StateFits
<1> QED BY <1>1, SendsFit, InFew

-----------------------------------------------------------------------------
(* What the server does *)

\* A command is taken and does one of six things.
LEMMA Handled ==
    ASSUME Typed, HandleCommand, NEW c, c = Head(up)
    PROVE  /\ c \in Commands /\ c \in In(up) /\ server.known
           /\ up' = Tail(up) /\ up' \in Seq(Commands) /\ In(up') \subseteq In(up) /\ UNCHANGED app
           /\ \/ c.type = "join" /\ Searches(server.activity = "none", c.type)
              \/ c.type = "again" /\ Searches(server.game = c.game /\ server.truth[c.game] # None, c.type)
              \/ c.type \in {"cancel", "cancel again"} /\ Cancels(c.type)
              \/ c.type \in {"leave", "leave again"} /\ Leaves(c.game, c.type)
<1>1. up # <<>> /\ up \in Seq(Commands)
  BY DEF HandleCommand, Typed
<1>2. c \in In(up) /\ In(up) \subseteq Commands /\ Tail(up) \in Seq(Commands) /\ In(Tail(up)) \subseteq In(up)
  BY <1>1, InTail
<1>3. c.type \in Calls
  BY <1>2 DEF Commands
<1>4. CASE c.type = "join"
  BY <1>2, <1>4 DEF HandleCommand
<1>5. CASE c.type = "again"
  BY <1>2, <1>5 DEF HandleCommand
<1>6. CASE c.type \in {"cancel", "cancel again"}
  BY <1>2, <1>6 DEF HandleCommand
<1>7. CASE c.type \in {"leave", "leave again"}
  BY <1>2, <1>7 DEF HandleCommand
<1> QED BY <1>3, <1>4, <1>5, <1>6, <1>7 DEF Calls, Repeats

\* What becomes of the session: its matches keep their numbers.
ServerGoesOn ==
    /\ server' \in Servers /\ ServerNumbered' /\ server'.dealt >= server.dealt
    /\ down' \in Seq(Messages)
    /\ \A m \in In(down') : m \in In(down) \/ Dealt(m, server'.dealt)

SameHistory == server'.removed = server.removed /\ server'.since = server.since

LEMMA ReplyIsDealt ==
    ASSUME NEW to \in Calls, NEW code \in Codes, NEW d
    PROVE  Dealt(Reply(to, code), d)
BY ReplyFits DEF Dealt

LEMMA StateIsDealt ==
    ASSUME server' \in Servers, ServerNumbered'
    PROVE  Dealt(StateOf(server'), server'.dealt)
BY StateFits DEF Dealt, ServerNumbered

LEMMA LeavesFits ==
    ASSUME Sane, NEW g \in Games, NEW to \in Calls, Leaves(g, to)
    PROVE  /\ ServerGoesOn
           /\ server.game # g => UNCHANGED server /\ Sends(<<Reply(to, "not_found")>>)
           /\ server.game = g =>
                /\ server'.activity = "none" /\ server'.game = NoGame /\ server'.last = g
                /\ server'.known = server.known /\ server'.dealt = server.dealt
                /\ server'.truth[g] = (IF server.truth[g] = None THEN "loss" ELSE server.truth[g])
                /\ \A h \in Games : h # g => server'.truth[h] = server.truth[h]
                /\ SameHistory
                /\ Sends(<<StateOf(server'), Reply(to, "ok")>>)
<1>0. server \in Servers /\ "ok" \in Codes /\ "not_found" \in Codes
  BY DEF Sane, Typed, Codes
<1>1. CASE server.game # g
  <2>1. UNCHANGED server /\ Sends(<<Reply(to, "not_found")>>)
    BY <1>1 DEF Leaves
  <2>2. ServerNumbered' /\ server'.dealt >= server.dealt
    BY <1>0, <2>1, ServerFields DEF Sane, ServerNumbered, Numbers
  <2> QED BY <1>0, <1>1, <2>1, <2>2, SendsReply, ReplyIsDealt DEF ServerGoesOn, Sane
<1>2. CASE server.game = g
  <2>1. /\ server' = [server EXCEPT !.activity = "none", !.game = NoGame, !.last = g,
                                    !.truth[g] = IF @ = None THEN "loss" ELSE @]
        /\ Sends(<<StateOf(server'), Reply(to, "ok")>>)
    BY <1>2 DEF Leaves
  <2>2. /\ server'.activity = "none" /\ server'.game = NoGame /\ server'.last = g
        /\ server'.known = server.known /\ server'.dealt = server.dealt
        /\ server'.truth = [server.truth EXCEPT ![g] = IF @ = None THEN "loss" ELSE @]
        /\ SameHistory
    BY <1>0, <2>1 DEF Servers, SameHistory
  <2>3. server' \in Servers
    BY <1>0, <2>1, NumbersFit DEF Servers, Activities, Outcomes
  <2>4. /\ server'.truth[g] = (IF server.truth[g] = None THEN "loss" ELSE server.truth[g])
        /\ \A h \in Games : h # g => server'.truth[h] = server.truth[h]
    BY <1>0, <2>2, ServerFields
  <2>5. g \in 0 .. server.dealt /\ server.dealt \in Nat
    BY <1>0, <1>2, ServerFields DEF Sane, ServerNumbered, Numbers
  <2>6. ServerNumbered' /\ server'.dealt >= server.dealt
    <3>1. \A h \in Games : h > server'.dealt => server'.truth[h] = None /\ h \notin server'.removed
      BY <2>2, <2>4, <2>5 DEF Sane, ServerNumbered, SameHistory
    <3>2. server'.truth[g] # None
      BY <2>4, NoneAssumption
    <3> QED BY <2>2, <2>5, <3>1, <3>2 DEF ServerNumbered, NoGame
  <2>7. down' \in Seq(Messages) /\ In(down') \subseteq In(down) \cup {StateOf(server'), Reply(to, "ok")}
    BY <1>0, <2>1, <2>3, SendsAnswer DEF Sane
  <2>8. ServerGoesOn
    BY <1>0, <2>3, <2>6, <2>7, ReplyIsDealt, StateIsDealt DEF ServerGoesOn
  <2> QED BY <1>2, <2>1, <2>2, <2>4, <2>8
<1> QED BY <1>1, <1>2

LEMMA SearchesFits ==
    ASSUME Sane, NEW free \in BOOLEAN, NEW to \in Calls, Searches(free, to)
    PROVE  /\ ServerGoesOn
           /\ ~free => UNCHANGED server /\ Sends(<<Reply(to, "refused")>>)
           /\ free =>
                /\ server'.activity = "matchmaking" /\ server'.game = NoGame /\ server'.last = server.last
                /\ server'.known = server.known /\ server'.dealt = server.dealt /\ server'.truth = server.truth
                /\ SameHistory /\ Sends(<<StateOf(server'), Reply(to, "ok")>>)
<1>0. server \in Servers /\ "ok" \in Codes /\ "refused" \in Codes
  BY DEF Sane, Typed, Codes
<1>1. CASE ~free
  <2>1. UNCHANGED server /\ Sends(<<Reply(to, "refused")>>)
    BY <1>1 DEF Searches
  <2>2. ServerNumbered' /\ server'.dealt >= server.dealt
    BY <1>0, <2>1, ServerFields DEF Sane, ServerNumbered, Numbers
  <2> QED BY <1>0, <1>1, <2>1, <2>2, SendsReply, ReplyIsDealt DEF ServerGoesOn, Sane
<1>2. CASE free
  <2>1. /\ server' = [server EXCEPT !.activity = "matchmaking", !.game = NoGame]
        /\ Sends(<<StateOf(server'), Reply(to, "ok")>>)
    BY <1>2 DEF Searches
  <2>2. /\ server'.activity = "matchmaking" /\ server'.game = NoGame /\ server'.last = server.last
        /\ server'.known = server.known /\ server'.dealt = server.dealt /\ server'.truth = server.truth
        /\ SameHistory
    BY <1>0, <2>1 DEF Servers, SameHistory
  <2>3. server' \in Servers
    BY <1>0, <2>1, NumbersFit DEF Servers, Activities
  <2>4. ServerNumbered' /\ server'.dealt >= server.dealt
    BY <1>0, <2>2, ServerFields DEF Sane, ServerNumbered, NoGame, Numbers, SameHistory
  <2>5. down' \in Seq(Messages) /\ In(down') \subseteq In(down) \cup {StateOf(server'), Reply(to, "ok")}
    BY <1>0, <2>1, <2>3, SendsAnswer DEF Sane
  <2>6. ServerGoesOn
    BY <1>0, <2>3, <2>4, <2>5, ReplyIsDealt, StateIsDealt DEF ServerGoesOn
  <2> QED BY <1>2, <2>1, <2>2, <2>6
<1> QED BY <1>1, <1>2

LEMMA CancelsFits ==
    ASSUME Sane, NEW to \in Calls, Cancels(to)
    PROVE  /\ ServerGoesOn
           /\ server.activity # "matchmaking" => UNCHANGED server /\ Sends(<<Reply(to, "ok")>>)
           /\ server.activity = "matchmaking" =>
                /\ server'.activity = "none" /\ server'.game = NoGame /\ server'.last = server.last
                /\ server'.known = server.known /\ server'.dealt = server.dealt /\ server'.truth = server.truth
                /\ server.game = NoGame /\ SameHistory /\ Sends(<<StateOf(server'), Reply(to, "ok")>>)
<1>0. server \in Servers /\ "ok" \in Codes
  BY DEF Sane, Typed, Codes
<1>1. CASE server.activity # "matchmaking"
  <2>1. UNCHANGED server /\ Sends(<<Reply(to, "ok")>>)
    BY <1>1 DEF Cancels
  <2>2. ServerNumbered' /\ server'.dealt >= server.dealt
    BY <1>0, <2>1, ServerFields DEF Sane, ServerNumbered, Numbers
  <2> QED BY <1>0, <1>1, <2>1, <2>2, SendsReply, ReplyIsDealt DEF ServerGoesOn, Sane
<1>2. CASE server.activity = "matchmaking"
  <2>1. /\ server' = [server EXCEPT !.activity = "none"]
        /\ Sends(<<StateOf(server'), Reply(to, "ok")>>)
    BY <1>2 DEF Cancels
  <2>2. /\ server'.activity = "none" /\ server'.game = server.game /\ server'.last = server.last
        /\ server'.known = server.known /\ server'.dealt = server.dealt /\ server'.truth = server.truth
        /\ SameHistory
    BY <1>0, <2>1 DEF Servers, SameHistory
  <2>3. server' \in Servers /\ server.game = NoGame
    BY <1>0, <1>2, <2>1 DEF Servers, Activities, Sane, ServerNumbered
  <2>4. ServerNumbered' /\ server'.dealt >= server.dealt
    BY <1>0, <2>2, <2>3, ServerFields DEF Sane, ServerNumbered, NoGame, Numbers, SameHistory
  <2>5. down' \in Seq(Messages) /\ In(down') \subseteq In(down) \cup {StateOf(server'), Reply(to, "ok")}
    BY <1>0, <2>1, <2>3, SendsAnswer DEF Sane
  <2>6. ServerGoesOn
    BY <1>0, <2>3, <2>4, <2>5, ReplyIsDealt, StateIsDealt DEF ServerGoesOn
  <2> QED BY <1>2, <2>1, <2>2, <2>3, <2>6
<1> QED BY <1>1, <1>2

LEMMA DealFits ==
    ASSUME Sane, Deal
    PROVE  /\ ServerGoesOn /\ UNCHANGED <<up, app>> /\ server.known
           /\ server.activity = "matchmaking" /\ server.game = NoGame
           /\ server'.activity = "game" /\ server'.game = server.dealt + 1 /\ server'.last = server.last
           /\ server'.known = server.known /\ server'.dealt = server.dealt + 1 /\ server'.truth = server.truth
           /\ SameHistory /\ Sends(<<StateOf(server')>>)
<1>0. server \in Servers /\ server.dealt \in Numbers
  BY ServerFields DEF Sane, Typed
<1>1. /\ server' = [server EXCEPT !.activity = "game", !.game = server.dealt + 1, !.dealt = @ + 1]
      /\ server.activity = "matchmaking" /\ server.dealt < MaxGames
      /\ Sends(<<StateOf(server')>>) /\ UNCHANGED <<up, app>> /\ server.known
  BY DEF Deal, OnItsOwn
<1>2. /\ server'.activity = "game" /\ server'.game = server.dealt + 1 /\ server'.last = server.last
      /\ server'.known = server.known /\ server'.dealt = server.dealt + 1 /\ server'.truth = server.truth
      /\ SameHistory
  BY <1>0, <1>1 DEF Servers, SameHistory
<1>3. server.dealt + 1 \in Numbers
  BY <1>0, <1>1 DEF Numbers
<1>4. server' \in Servers /\ server.game = NoGame
  BY <1>0, <1>1, <1>3 DEF Servers, Activities, Sane, ServerNumbered
<1>5. ServerNumbered' /\ server'.dealt >= server.dealt
  <2>1. server.dealt \in Nat /\ server.last \in 0 .. server.dealt
    BY <1>0 DEF Numbers, Sane, ServerNumbered
  <2>2. /\ server'.game \in 0 .. server'.dealt /\ server'.last \in 0 .. server'.dealt
        /\ server'.last < server'.game /\ server'.game # NoGame /\ server'.dealt >= server.dealt
    BY <1>2, <2>1 DEF NoGame
  <2>3. \A g \in Games : g > server'.dealt => server'.truth[g] = None /\ g \notin server'.removed
    BY <1>2, <2>1 DEF Sane, ServerNumbered, Games, SameHistory
  <2>4. server'.last # NoGame => server'.truth[server'.last] # None
    BY <1>2 DEF Sane, ServerNumbered
  <2> QED BY <1>2, <2>2, <2>3, <2>4 DEF ServerNumbered
<1>6. down' \in Seq(Messages) /\ In(down') \subseteq In(down) \cup {StateOf(server')}
  BY <1>0, <1>1, <1>4, SendsState DEF Sane
<1>7. ServerGoesOn
  BY <1>0, <1>4, <1>5, <1>6, StateIsDealt DEF ServerGoesOn
<1> QED BY <1>1, <1>2, <1>4, <1>7

LEMMA DecideFits ==
    ASSUME Sane, Decide
    PROVE  /\ ServerGoesOn /\ UNCHANGED <<up, app>> /\ server.known
           /\ server.game \in Games /\ server.truth[server.game] = None
           /\ server'.activity = server.activity /\ server'.game = server.game /\ server'.last = server.last
           /\ server'.known = server.known /\ server'.dealt = server.dealt
           /\ server'.truth[server.game] # None
           /\ \A h \in Games : h # server.game => server'.truth[h] = server.truth[h]
           /\ SameHistory
           /\ app.connected => \E messages \in Seq(Messages) :
                 /\ down' = down \o messages /\ In(down') = In(down) \cup In(messages)
                 /\ In(messages) = {Over(server')}
<1>0. server \in Servers /\ server.dealt \in Numbers
  BY ServerFields DEF Sane, Typed
<1>1. PICK outcome \in {"win", "loss", "none"} : server' = [server EXCEPT !.truth[server.game] = outcome]
  BY DEF Decide
<1>2. /\ server.game # NoGame /\ server.truth[server.game] = None
      /\ Sends(Ended(server')) /\ UNCHANGED <<up, app>> /\ server.known
  BY DEF Decide, OnItsOwn
<1>3. server.game \in Games
  BY <1>0, <1>2, ServerFields DEF Numbers, Games, NoGame
<1>4. /\ server'.activity = server.activity /\ server'.game = server.game /\ server'.last = server.last
      /\ server'.known = server.known /\ server'.dealt = server.dealt
      /\ server'.truth = [server.truth EXCEPT ![server.game] = outcome]
      /\ SameHistory
  BY <1>0, <1>1 DEF Servers, SameHistory
<1>5. server' \in Servers
  BY <1>0, <1>1, <1>3 DEF Servers, Outcomes
<1>6. /\ server'.truth[server.game] = outcome /\ outcome # None
      /\ \A h \in Games : h # server.game => server'.truth[h] = server.truth[h]
  BY <1>0, <1>3, <1>4, ServerFields
<1>7. server.game \in 0 .. server.dealt /\ server.dealt \in Nat
  BY <1>0 DEF Numbers, Sane, ServerNumbered
<1>8. ServerNumbered' /\ server'.dealt >= server.dealt
  <2>1. \A h \in Games : h > server'.dealt => server'.truth[h] = None /\ h \notin server'.removed
    BY <1>4, <1>6, <1>7 DEF Sane, ServerNumbered, SameHistory
  <2>2. server.last # NoGame => server.last \in Games
    BY <1>0, ServerFields DEF Numbers, Games, NoGame
  <2>3. server'.last # NoGame => server'.truth[server'.last] # None
    BY <1>4, <1>6, <2>2 DEF Sane, ServerNumbered
  <2> QED BY <1>4, <1>7, <2>1, <2>3 DEF Sane, ServerNumbered
<1>9. Ended(server') \in Seq(Messages) /\ In(Ended(server')) = {Over(server')}
  BY <1>2, <1>4, <1>5, <1>6, EndedFits DEF HasEnded
<1>10. /\ down' \in Seq(Messages)
       /\ app.connected => down' = down \o Ended(server') /\ In(down') = In(down) \cup In(Ended(server'))
       /\ ~app.connected => In(down') = {}
  BY <1>2, <1>9, SendsFit DEF Sane
<1>11. Dealt(Over(server'), server'.dealt)
  <2>1. Over(server').type = "over" /\ Over(server').game = server.game
    BY <1>2, <1>4, <1>5, OverFits
  <2>2. server.game \in 1 .. server.dealt
    BY <1>3, <1>7 DEF Games
  <2> QED BY <1>4, <2>1, <2>2 DEF Dealt
<1>12. ServerGoesOn
  BY <1>5, <1>8, <1>9, <1>10, <1>11 DEF ServerGoesOn
<1> QED BY <1>2, <1>3, <1>4, <1>6, <1>9, <1>10, <1>12

LEMMA SearchEndsFits ==
    ASSUME Sane, SearchEnds
    PROVE  /\ ServerGoesOn /\ UNCHANGED <<up, app>> /\ server.known
           /\ server.activity = "matchmaking" /\ server.game = NoGame
           /\ server'.activity = "none" /\ server'.game = NoGame /\ server'.last = server.last
           /\ server'.known = server.known /\ server'.dealt = server.dealt /\ server'.truth = server.truth
           /\ SameHistory /\ Sends(<<StateOf(server')>>)
<1>0. server \in Servers /\ server.dealt \in Numbers
  BY ServerFields DEF Sane, Typed
<1>1. /\ server' = [server EXCEPT !.activity = "none"] /\ server.activity = "matchmaking"
      /\ Sends(<<StateOf(server')>>) /\ UNCHANGED <<up, app>> /\ server.known
  BY DEF SearchEnds, OnItsOwn
<1>2. /\ server'.activity = "none" /\ server'.game = server.game /\ server'.last = server.last
      /\ server'.known = server.known /\ server'.dealt = server.dealt /\ server'.truth = server.truth
      /\ SameHistory
  BY <1>0, <1>1 DEF Servers, SameHistory
<1>3. server' \in Servers /\ server.game = NoGame
  BY <1>0, <1>1 DEF Servers, Activities, Sane, ServerNumbered
<1>4. ServerNumbered' /\ server'.dealt >= server.dealt
  BY <1>0, <1>2, <1>3 DEF Sane, ServerNumbered, NoGame, Numbers, SameHistory
<1>5. down' \in Seq(Messages) /\ In(down') \subseteq In(down) \cup {StateOf(server')}
  BY <1>0, <1>1, <1>3, SendsState DEF Sane
<1>6. ServerGoesOn
  BY <1>0, <1>3, <1>4, <1>5, StateIsDealt DEF ServerGoesOn
<1> QED BY <1>1, <1>2, <1>3, <1>6

LEMMA RemoveFits ==
    ASSUME Sane, Remove
    PROVE  /\ ServerGoesOn /\ UNCHANGED <<up, down, app>> /\ server.known /\ ~app.connected
           /\ server.game \in Games /\ server.truth[server.game] = None
           /\ server'.activity = server.activity /\ server'.game = server.game /\ server'.last = server.last
           /\ server'.known = server.known /\ server'.dealt = server.dealt
           /\ server'.truth = server.truth /\ server'.since = server.since
           /\ server'.removed = server.removed \cup {server.game}
<1>0. server \in Servers /\ server.dealt \in Numbers /\ down \in Seq(Messages)
  BY ServerFields DEF Sane, Typed
<1>1. /\ server' = [server EXCEPT !.removed = @ \cup {server.game}]
      /\ server.game # NoGame /\ server.truth[server.game] = None
      /\ UNCHANGED <<up, down, app>> /\ server.known /\ ~app.connected
  BY DEF Remove
<1>2. server.game \in Games
  BY <1>0, <1>1, ServerFields DEF Numbers, Games, NoGame
<1>3. /\ server'.activity = server.activity /\ server'.game = server.game /\ server'.last = server.last
      /\ server'.known = server.known /\ server'.dealt = server.dealt
      /\ server'.truth = server.truth /\ server'.since = server.since
      /\ server'.removed = server.removed \cup {server.game}
  BY <1>0, <1>1 DEF Servers
<1>4. server' \in Servers
  BY <1>0, <1>1, <1>2 DEF Servers
<1>5. ServerNumbered' /\ server'.dealt >= server.dealt
  <2>1. server.game \in 0 .. server.dealt /\ server.dealt \in Nat
    BY <1>0 DEF Numbers, Sane, ServerNumbered
  <2>2. ~(server.game > server.dealt)
    BY <2>1
  <2>3. \A g \in Games : g > server'.dealt => server'.truth[g] = None /\ g \notin server'.removed
    BY <1>3, <2>2 DEF Sane, ServerNumbered
  <2> QED BY <1>3, <2>1, <2>3 DEF Sane, ServerNumbered
<1>6. ServerGoesOn
  BY <1>0, <1>1, <1>4, <1>5 DEF ServerGoesOn
<1> QED BY <1>1, <1>2, <1>3, <1>6

\* A restart leaves what is known of the matches that were.
LEMMA RestartFits ==
    ASSUME Sane, Restart
    PROVE  /\ ServerGoesOn /\ UNCHANGED <<up, down, app>>
           /\ ~server'.known /\ server'.activity = "none" /\ server'.game = NoGame /\ server'.last = NoGame
           /\ server'.dealt = server.dealt /\ server'.since = server.dealt
           /\ server'.truth = server.truth /\ server'.removed = server.removed
<1>0. /\ server \in Servers /\ server.dealt \in Numbers /\ down \in Seq(Messages)
      /\ server.truth \in [Games -> Outcomes] /\ server.removed \subseteq Games
  BY ServerFields DEF Sane, Typed
<1>1. /\ server' = [NewServer EXCEPT !.known = FALSE, !.dealt = server.dealt, !.since = server.dealt,
                                     !.truth = server.truth, !.removed = server.removed]
      /\ UNCHANGED <<up, down, app>>
  BY DEF Restart
<1>2. server' = [known |-> FALSE, activity |-> "none", game |-> NoGame, last |-> NoGame,
                 dealt |-> server.dealt, truth |-> server.truth, removed |-> server.removed, since |-> server.dealt]
  BY <1>1 DEF NewServer
<1>3. server' \in Servers
  BY <1>0, <1>2, NumbersFit DEF Servers, Activities
<1>4. /\ ~server'.known /\ server'.activity = "none" /\ server'.game = NoGame /\ server'.last = NoGame
      /\ server'.dealt = server.dealt /\ server'.since = server.dealt
      /\ server'.truth = server.truth /\ server'.removed = server.removed
  BY <1>2
<1>5. ServerNumbered' /\ server'.dealt >= server.dealt
  <2>1. server.dealt \in Nat /\ NoGame \in 0 .. server.dealt
    BY <1>0 DEF Numbers, NoGame
  <2>2. \A g \in Games : g > server.dealt => server.truth[g] = None /\ g \notin server.removed
    BY DEF Sane, ServerNumbered
  <2> QED BY <1>4, <2>1, <2>2 DEF ServerNumbered
<1>6. ServerGoesOn
  BY <1>0, <1>1, <1>3, <1>5 DEF ServerGoesOn
<1> QED BY <1>1, <1>4, <1>6

-----------------------------------------------------------------------------
(* What the app does *)

LEMMA HomeFits ==
    ASSUME NEW a \in Apps
    PROVE  /\ Home(a) \in Apps /\ Home(a).activity = "none" /\ Home(a).game = NoGame
           /\ Home(a).connected = a.connected /\ Home(a).over = a.over /\ Home(a).calls = a.calls
           /\ Home(a).left = a.left /\ Home(a).cancelPending = a.cancelPending
           /\ Home(a).leavePending = a.leavePending /\ Home(a).counted = a.counted
BY NumbersFit DEF Home, Apps, Activities

\* What a call changes of an app a.
CalledAs(a, to, g) ==
    /\ app' \in Apps /\ app'.calls = a.calls \cup {to}
    /\ app'.left = (IF to \in {"leave", "leave again"} THEN g ELSE a.left)
    /\ app'.connected = a.connected /\ app'.activity = a.activity /\ app'.game = a.game /\ app'.over = a.over
    /\ app'.cancelPending = a.cancelPending /\ app'.leavePending = a.leavePending /\ app'.counted = a.counted
    /\ up' \in Seq(Commands) /\ up' = Append(up, [type |-> to, game |-> g])
    /\ In(up') = In(up) \cup {[type |-> to, game |-> g]}

LEMMA CallFits ==
    ASSUME Typed, NEW a \in Apps, NEW to \in Calls, NEW g \in Numbers, Call(a, to, g)
    PROVE  CalledAs(a, to, g)
<1>1. /\ app' = [a EXCEPT !.calls = @ \cup {to}, !.left = IF to \in {"leave", "leave again"} THEN g ELSE @]
      /\ up' = Append(up, [type |-> to, game |-> g])
  BY DEF Call
<1>2. [type |-> to, game |-> g] \in Commands
  BY DEF Commands
<1>3. up' \in Seq(Commands) /\ In(up') = In(up) \cup {[type |-> to, game |-> g]}
  BY <1>1, <1>2, InAppend DEF Typed
<1>4. /\ app'.calls = a.calls \cup {to}
      /\ app'.left = (IF to \in {"leave", "leave again"} THEN g ELSE a.left)
      /\ app'.connected = a.connected /\ app'.activity = a.activity /\ app'.game = a.game /\ app'.over = a.over
      /\ app'.cancelPending = a.cancelPending /\ app'.leavePending = a.leavePending /\ app'.counted = a.counted
  BY <1>1 DEF Apps
<1>5. app' \in Apps
  BY <1>1 DEF Apps
<1> QED BY <1>1, <1>3, <1>4, <1>5 DEF CalledAs

\* What a call that came back leaves alone, and what it may change.
ReturnedAs(a, to, code, r) ==
    /\ r \in Apps /\ r.connected = a.connected /\ r.over = a.over /\ r.left = a.left
    /\ r.counted = a.counted /\ r.calls = a.calls \ {to}
    /\ to # "leave again" => r.leavePending = a.leavePending
    /\ to = "leave again" =>
         r.leavePending = IF code \in {"ok", "not_found"} /\ a.leavePending = a.left THEN NoGame ELSE a.leavePending
    /\ to = "cancel again" => r.cancelPending = (a.cancelPending /\ code # "ok")
    /\ to \notin {"cancel", "cancel again"} => r.cancelPending = a.cancelPending
    /\ to = "cancel" /\ (code = "ok" \/ a.connected) => r.cancelPending = a.cancelPending
    /\ to = "cancel" /\ code # "ok" /\ ~a.connected => r.cancelPending = TRUE
    /\ to \in {"again", "cancel again", "leave again"} => r.activity = a.activity /\ r.game = a.game
    /\ to = "join" => r.activity = (IF code = "ok" THEN a.activity ELSE "none") /\ r.game = a.game
    /\ to = "cancel" /\ (code = "ok" \/ ~a.connected) => r.activity = "none" /\ r.game = NoGame
    /\ to = "cancel" /\ code # "ok" /\ a.connected => r.activity = a.activity /\ r.game = a.game
    /\ to = "leave" => IF \/ code \notin {"ok", "not_found"}
                          \/ code = "not_found" /\ a.activity = "game" /\ a.game # a.left
                       THEN r.activity = a.activity /\ r.game = a.game
                       ELSE r.activity = "none" /\ r.game = NoGame

LEMMA ReturnedFits ==
    ASSUME NEW a \in Apps, NEW to \in Calls, NEW code \in Codes, NEW r, r = Returned(a, to, code)
    PROVE  ReturnedAs(a, to, code, r)
<1> USE DEF ReturnedAs
<1> DEFINE b == [a EXCEPT !.calls = @ \ {to}]
<1>1. b \in Apps
  BY DEF Apps
<1>2. /\ b.calls = a.calls \ {to} /\ b.connected = a.connected /\ b.activity = a.activity /\ b.game = a.game
      /\ b.over = a.over /\ b.left = a.left /\ b.cancelPending = a.cancelPending
      /\ b.leavePending = a.leavePending /\ b.counted = a.counted
  BY DEF Apps
<1>3. CASE to = "join"
  <2>1. r = IF code = "ok" THEN b ELSE [b EXCEPT !.activity = "none"]
    BY <1>3 DEF Returned
  <2> HIDE DEF b
  <2> QED BY <1>1, <1>2, <1>3, <2>1 DEF Apps, Activities
<1>4. CASE to = "again"
  <2>1. r = b
    BY <1>4 DEF Returned
  <2> HIDE DEF b
  <2> QED BY <1>1, <1>2, <1>4, <2>1
<1>5. CASE to = "cancel"
  <2>1. r = IF code = "ok" THEN Home(b)
            ELSE IF b.connected THEN b ELSE [Home(b) EXCEPT !.cancelPending = TRUE]
    BY <1>5 DEF Returned
  <2> HIDE DEF b
  <2>2. CASE code = "ok" \/ b.connected
    <3>1. r = IF code = "ok" THEN Home(b) ELSE b
      BY <2>1, <2>2
    <3>2. b.connected => a.connected
      BY <1>2
    <3> QED BY <1>1, <1>2, <1>5, <2>2, <3>1, <3>2, HomeFits
  <2>3. CASE code # "ok" /\ ~b.connected
    <3> DEFINE c == Home(b)
    <3>1. c \in Apps /\ r = [c EXCEPT !.cancelPending = TRUE]
      BY <1>1, <2>1, <2>3, HomeFits
    <3>2. /\ c.activity = "none" /\ c.game = NoGame /\ c.connected = b.connected
          /\ c.over = b.over /\ c.calls = b.calls /\ c.left = b.left
          /\ c.leavePending = b.leavePending /\ c.counted = b.counted
      BY <1>1, HomeFits
    <3> HIDE DEF c
    <3>3. /\ r \in Apps /\ r.cancelPending = TRUE
          /\ r.activity = c.activity /\ r.game = c.game /\ r.connected = c.connected
          /\ r.over = c.over /\ r.calls = c.calls /\ r.left = c.left
          /\ r.leavePending = c.leavePending /\ r.counted = c.counted
      BY <3>1 DEF Apps
    <3>4. ~a.connected
      BY <1>2, <2>3
    <3> HIDE DEF b
    <3> QED BY <1>2, <1>5, <2>3, <3>2, <3>3, <3>4
  <2> QED BY <2>2, <2>3
<1>6. CASE to = "cancel again"
  <2>1. r = [b EXCEPT !.cancelPending = @ /\ code # "ok"]
    BY <1>6 DEF Returned
  <2> HIDE DEF b
  <2>2. (b.cancelPending /\ code # "ok") \in BOOLEAN
    OBVIOUS
  <2> QED BY <1>1, <1>2, <1>6, <2>1, <2>2 DEF Apps
<1>7. CASE to = "leave"
  <2>1. r = IF ~(code \in {"ok", "not_found"}) \/ (code = "not_found" /\ b.activity = "game" /\ b.game # a.left)
            THEN b ELSE Home(b)
    BY <1>7 DEF Returned
  <2> HIDE DEF b
  <2> QED BY <1>1, <1>2, <1>7, <2>1, HomeFits
<1>8. CASE to = "leave again"
  <2>1. r = [b EXCEPT !.leavePending = IF code \in {"ok", "not_found"} /\ @ = a.left THEN NoGame ELSE @]
    BY <1>8 DEF Returned
  <2> HIDE DEF b
  <2> QED BY <1>1, <1>2, <1>8, <2>1, NumbersFit DEF Apps
<1> QED BY <1>3, <1>4, <1>5, <1>6, <1>7, <1>8 DEF Calls, Repeats

\* What becomes of c, the count of a match, when its outcome x is counted.
Counted(c, x) == IF c # None \/ x = "none" THEN c ELSE IF x = "win" THEN "win" ELSE "loss"

\* Of an app a, r has also counted the match g.
CountedAs(a, g, x, r) ==
    /\ r \in Apps /\ r.connected = a.connected /\ r.activity = a.activity /\ r.game = a.game
    /\ r.over = a.over /\ r.calls = a.calls /\ r.left = a.left /\ r.cancelPending = a.cancelPending
    /\ r.leavePending = a.leavePending
    /\ \A h \in Games : r.counted[h] = IF h = g THEN Counted(a.counted[h], x) ELSE a.counted[h]

LEMMA CountFits ==
    ASSUME NEW a \in Apps, NEW g \in Numbers, NEW x, NEW r, r = Count(a, g, x)
    PROVE  CountedAs(a, g, x, r)
<1>1. CASE g = NoGame \/ x = "none"
  <2>1. r = a
    BY <1>1 DEF Count
  <2>2. \A h \in Games : h # g \/ x = "none"
    BY <1>1 DEF Games, NoGame
  <2> QED BY <2>1, <2>2 DEF CountedAs, Counted
<1>2. CASE ~(g = NoGame \/ x = "none")
  <2>1. r = [a EXCEPT !.counted[g] = IF @ # None THEN @ ELSE IF x = "win" THEN "win" ELSE "loss"]
    BY <1>2 DEF Count
  <2>2. g \in Games /\ a.counted \in [Games -> Counts]
    BY <1>2, AppFields DEF Numbers, Games, NoGame
  <2>3. /\ r.connected = a.connected /\ r.activity = a.activity /\ r.game = a.game
        /\ r.over = a.over /\ r.calls = a.calls /\ r.left = a.left /\ r.cancelPending = a.cancelPending
        /\ r.leavePending = a.leavePending
        /\ r.counted = [a.counted EXCEPT ![g] = IF @ # None THEN @ ELSE IF x = "win" THEN "win" ELSE "loss"]
    BY <2>1 DEF Apps
  <2>4. r.counted \in [Games -> Counts]
    BY <2>2, <2>3 DEF Counts
  <2>5. r \in Apps
    BY <2>1, <2>3, <2>4 DEF Apps
  <2> QED BY <1>2, <2>2, <2>3, <2>5 DEF CountedAs, Counted
<1> QED BY <1>1, <1>2

\* The call of the screen, if there is one, comes back as a failure; the others are forgotten.
LEMMA FailedFits ==
    ASSUME app \in Apps, NEW r, r = Failed(app)
    PROVE  /\ r \in Apps /\ ~r.connected /\ r.calls = {}
           /\ r.over = app.over /\ r.left = app.left /\ r.counted = app.counted /\ r.leavePending = app.leavePending
           /\ app.calls \subseteq Repeats =>
                r.activity = app.activity /\ r.game = app.game /\ r.cancelPending = app.cancelPending
           /\ ~(app.calls \subseteq Repeats) => \E to \in app.calls \ Repeats :
                /\ to = "join" => r.activity = "none" /\ r.game = app.game
                /\ to = "cancel" => r.activity = "none" /\ r.game = NoGame /\ r.cancelPending = TRUE
                /\ to \in {"again", "leave"} => r.activity = app.activity /\ r.game = app.game
                /\ to # "cancel" => r.cancelPending = app.cancelPending
<1> DEFINE b == [app EXCEPT !.connected = FALSE]
<1>1. b \in Apps
  BY DEF Apps
<1>2. /\ b.calls = app.calls /\ b.connected = FALSE /\ b.activity = app.activity /\ b.game = app.game
      /\ b.over = app.over /\ b.left = app.left /\ b.cancelPending = app.cancelPending
      /\ b.leavePending = app.leavePending /\ b.counted = app.counted
  BY DEF Apps
<1>3. CASE app.calls \subseteq Repeats
  <2>1. r = [b EXCEPT !.calls = {}]
    BY <1>3 DEF Failed
  <2> HIDE DEF b
  <2> QED BY <1>1, <1>2, <1>3, <2>1 DEF Apps
<1>4. CASE ~(app.calls \subseteq Repeats)
  <2> DEFINE to == CHOOSE to \in app.calls : to \notin Repeats
             f == Returned(b, to, "network_error")
  <2>1. to \in app.calls /\ to \notin Repeats /\ to \in Calls
    BY <1>4, AppFields
  <2>2. r = [f EXCEPT !.calls = {}]
    BY <1>4 DEF Failed
  <2> HIDE DEF b, to
  <2>3. "network_error" \in Codes
    BY DEF Codes
  <2>4. /\ f \in Apps /\ f.connected = b.connected /\ f.over = b.over /\ f.left = b.left
        /\ f.counted = b.counted /\ f.leavePending = b.leavePending
        /\ to = "join" => f.activity = "none" /\ f.game = b.game
        /\ to = "cancel" => f.activity = "none" /\ f.game = NoGame /\ f.cancelPending = TRUE
        /\ to \in {"again", "leave"} => f.activity = b.activity /\ f.game = b.game
        /\ to # "cancel" => f.cancelPending = b.cancelPending
    <3> HIDE DEF f
    <3>1. f = Returned(b, to, "network_error")
      BY DEF f
    <3>2. to \in {"join", "again", "cancel", "leave"}
      BY <2>1 DEF Calls, Repeats
    <3>3. ~b.connected
      BY <1>2
    <3>4. ReturnedAs(b, to, "network_error", f)
      BY <1>1, <2>1, <2>3, <3>1, ReturnedFits
    <3> HIDE DEF b
    <3> QED BY <3>2, <3>3, <3>4 DEF ReturnedAs
  <2> HIDE DEF f
  <2>5. /\ r \in Apps /\ r.calls = {} /\ r.connected = f.connected /\ r.activity = f.activity /\ r.game = f.game
        /\ r.over = f.over /\ r.left = f.left /\ r.cancelPending = f.cancelPending
        /\ r.leavePending = f.leavePending /\ r.counted = f.counted
    BY <2>2, <2>4 DEF Apps
  <2>6. /\ to = "join" => r.activity = "none" /\ r.game = app.game
        /\ to = "cancel" => r.activity = "none" /\ r.game = NoGame /\ r.cancelPending = TRUE
        /\ to \in {"again", "leave"} => r.activity = app.activity /\ r.game = app.game
        /\ to # "cancel" => r.cancelPending = app.cancelPending
    BY <1>2, <2>4, <2>5
  <2> QED BY <1>2, <1>4, <2>1, <2>4, <2>5, <2>6
<1> QED BY <1>3, <1>4

\* What the app is told in passing: that the match g ended in x.
CountedWith(g, x) ==
    \A h \in Games : app'.counted[h] = IF h = g THEN Counted(app.counted[h], x) ELSE app.counted[h]

StillCancelled(m) ==
    /\ app.cancelPending /\ m.activity = "matchmaking"
    /\ app'.cancelPending = app.cancelPending /\ app'.counted = app.counted /\ app'.activity = app.activity
    /\ app'.game = app.game /\ app'.over = app.over /\ app'.left = app.left
    /\ app'.leavePending = app.leavePending /\ app'.connected = app.connected
    /\ app'.calls = app.calls \cup {"cancel again"}
    /\ \/ "cancel again" \in app.calls /\ UNCHANGED up
       \/ /\ "cancel again" \notin app.calls /\ up' = Append(up, [type |-> "cancel again", game |-> NoGame])
          /\ In(up') = In(up) \cup {[type |-> "cancel again", game |-> NoGame]}

StillLeft(m) ==
    /\ ~(app.cancelPending /\ m.activity = "matchmaking")
    /\ app.leavePending # NoGame /\ m.game = app.leavePending
    /\ app'.cancelPending = FALSE /\ CountedWith(m.last, m.outcome) /\ app'.activity = app.activity
    /\ app'.game = app.game /\ app'.over = app.over
    /\ app'.leavePending = app.leavePending /\ app'.connected = app.connected
    /\ app'.calls = app.calls \cup {"leave again"}
    /\ \/ "leave again" \in app.calls /\ UNCHANGED up /\ app'.left = app.left
       \/ /\ "leave again" \notin app.calls /\ up' = Append(up, [type |-> "leave again", game |-> app.leavePending])
          /\ In(up') = In(up) \cup {[type |-> "leave again", game |-> app.leavePending]}
          /\ app'.left = app.leavePending

IsShown(m) ==
    /\ ~(app.cancelPending /\ m.activity = "matchmaking")
    /\ ~(app.leavePending # NoGame /\ m.game = app.leavePending)
    /\ app'.cancelPending = FALSE /\ app'.leavePending = NoGame /\ CountedWith(m.last, m.outcome)
    /\ app'.activity = m.activity /\ app'.game = m.game
    /\ app'.over = IF m.activity = "game" THEN app.over ELSE NoGame
    /\ app'.connected = app.connected /\ app'.calls = app.calls /\ app'.left = app.left
    /\ UNCHANGED up

LEMMA SessionStateFits ==
    ASSUME Typed, NEW m \in States, SessionState(m)
    PROVE  /\ app' \in Apps /\ up' \in Seq(Commands)
           /\ StillCancelled(m) \/ StillLeft(m) \/ IsShown(m)
<1>0. /\ app \in Apps /\ server \in Servers /\ up \in Seq(Commands) /\ m.last \in Numbers /\ m.game \in Numbers
      /\ m.activity \in Activities /\ "cancel again" \in Calls /\ "leave again" \in Calls
  BY DEF Typed, States, Calls, Repeats
<1>1. CASE app.cancelPending /\ m.activity = "matchmaking"
  <2>1. Repeat(app, "cancel again", NoGame)
    BY <1>1 DEF SessionState
  <2>2. CASE "cancel again" \in app.calls
    <3>1. app' = app /\ UNCHANGED up
      BY <2>1, <2>2 DEF Repeat
    <3>2. app'.calls = app.calls \cup {"cancel again"}
      BY <2>2, <3>1
    <3> QED BY <1>0, <1>1, <2>2, <3>1, <3>2 DEF StillCancelled
  <2>3. CASE "cancel again" \notin app.calls
    <3>1. Call(app, "cancel again", NoGame)
      BY <2>1, <2>3 DEF Repeat
    <3>2. CalledAs(app, "cancel again", NoGame)
      BY <1>0, <3>1, CallFits, NumbersFit
    <3> QED BY <1>1, <2>3, <3>2 DEF StillCancelled, CalledAs
  <2> QED BY <2>2, <2>3
<1>2. CASE ~(app.cancelPending /\ m.activity = "matchmaking")
  <2> DEFINE a == [app EXCEPT !.cancelPending = FALSE]
             told == Count(a, m.last, m.outcome)
  <2>1. IF told.leavePending # NoGame /\ m.game = told.leavePending
        THEN Repeat(told, "leave again", told.leavePending)
        ELSE app' = Shown(told, m) /\ UNCHANGED up
    BY <1>2 DEF SessionState
  <2>2. /\ a \in Apps /\ a.connected = app.connected /\ a.activity = app.activity /\ a.game = app.game
        /\ a.over = app.over /\ a.calls = app.calls /\ a.left = app.left /\ a.cancelPending = FALSE
        /\ a.leavePending = app.leavePending /\ a.counted = app.counted
    BY <1>0 DEF Apps
  <2> HIDE DEF a
  <2>3. CountedAs(a, m.last, m.outcome, told)
    BY <1>0, <2>2, CountFits
  <2> HIDE DEF told
  <2>4. app'.counted = told.counted => CountedWith(m.last, m.outcome)
    BY <2>2, <2>3 DEF CountedWith, CountedAs
  <2>5. CASE told.leavePending # NoGame /\ m.game = told.leavePending
    <3>1. Repeat(told, "leave again", told.leavePending) /\ app.leavePending # NoGame /\ m.game = app.leavePending
      BY <2>1, <2>2, <2>3, <2>5 DEF CountedAs
    <3>2. CASE "leave again" \in told.calls
      <4>1. app' = told /\ UNCHANGED up
        BY <3>1, <3>2 DEF Repeat
      <4>2. app'.calls = app.calls \cup {"leave again"}
        BY <2>2, <2>3, <3>2, <4>1 DEF CountedAs
      <4> QED BY <1>0, <1>2, <2>2, <2>3, <2>4, <3>1, <3>2, <4>1, <4>2 DEF StillLeft, CountedAs
    <3>3. CASE "leave again" \notin told.calls
      <4>1. Call(told, "leave again", app.leavePending) /\ app.leavePending \in Numbers
        BY <1>0, <2>2, <2>3, <3>1, <3>3, AppFields DEF Repeat, CountedAs
      <4>2. told \in Apps
        BY <2>3 DEF CountedAs
      <4>3. CalledAs(told, "leave again", app.leavePending)
        BY <1>0, <4>1, <4>2, CallFits
      <4> QED BY <1>2, <2>2, <2>3, <2>4, <3>1, <3>3, <4>3 DEF StillLeft, CalledAs, CountedAs
    <3> QED BY <3>2, <3>3
  <2>6. CASE ~(told.leavePending # NoGame /\ m.game = told.leavePending)
    <3>1. app' = Shown(told, m) /\ UNCHANGED up /\ ~(app.leavePending # NoGame /\ m.game = app.leavePending)
      BY <2>1, <2>2, <2>3, <2>6 DEF CountedAs
    <3>2. app' = [told EXCEPT !.leavePending = NoGame, !.activity = m.activity, !.game = m.game,
                              !.over = IF m.activity = "game" THEN @ ELSE NoGame]
      BY <3>1 DEF Shown
    <3>3. /\ app'.leavePending = NoGame /\ app'.activity = m.activity /\ app'.game = m.game
          /\ app'.over = (IF m.activity = "game" THEN told.over ELSE NoGame)
          /\ app'.connected = told.connected /\ app'.calls = told.calls /\ app'.left = told.left
          /\ app'.cancelPending = told.cancelPending /\ app'.counted = told.counted
      BY <2>3, <3>2 DEF Apps, CountedAs
    <3>4. app' \in Apps
      BY <1>0, <2>3, <3>2, NumbersFit DEF Apps, CountedAs
    <3>5. up' \in Seq(Commands)
      BY <1>0, <3>1
    <3> QED BY <1>2, <2>2, <2>3, <2>4, <3>1, <3>3, <3>4, <3>5 DEF IsShown, CountedAs
  <2> QED BY <2>5, <2>6
<1> QED BY <1>1, <1>2

\* The end of a match is told, and on show unless the player was removed from it.
EndIsShown(m) ==
    /\ IF m.removed THEN app'.over = app.over /\ CountedWith(m.game, "loss")
       ELSE app'.over = m.game /\ CountedWith(m.game, m.outcome)
    /\ app'.connected = app.connected /\ app'.activity = app.activity /\ app'.game = app.game
    /\ app'.calls = app.calls /\ app'.left = app.left /\ app'.cancelPending = app.cancelPending
    /\ app'.leavePending = app.leavePending

LEMMA OnMessageFits ==
    ASSUME Typed, OnMessage, NEW m, m = Head(down)
    PROVE  /\ m \in Messages /\ m \in In(down) /\ down # <<>> /\ m = down[1] /\ 1 \in DOMAIN down
           /\ down' = Tail(down) /\ down' \in Seq(Messages) /\ In(down') \subseteq In(down) /\ UNCHANGED server
           /\ app' \in Apps /\ up' \in Seq(Commands)
           /\ \/ m.type = "state" /\ (StillCancelled(m) \/ StillLeft(m) \/ IsShown(m))
              \/ m.type = "reply" /\ m.to \in app.calls /\ ReturnedAs(app, m.to, m.code, app') /\ UNCHANGED up
              \/ m.type = "reply" /\ m.to \notin app.calls /\ UNCHANGED <<app, up>>
              \/ m.type = "over" /\ EndIsShown(m) /\ UNCHANGED up
<1>0. down # <<>> /\ down' = Tail(down) /\ UNCHANGED server /\ down \in Seq(Messages) /\ app \in Apps
      /\ up \in Seq(Commands) /\ server \in Servers
  BY DEF OnMessage, Typed
<1>1. /\ Tail(down) \in Seq(Messages) /\ m \in In(down) /\ In(Tail(down)) \subseteq In(down)
      /\ In(down) \subseteq Messages /\ m = down[1] /\ 1 \in DOMAIN down
  BY <1>0, InTail
<1>2. m.type \in {"state", "reply", "over"}
  BY <1>1, MessageFields
<1>3. CASE m.type = "state"
  <2>1. SessionState(m) /\ m \in States
    BY <1>1, <1>3, MessageFields DEF OnMessage
  <2>2. app' \in Apps /\ up' \in Seq(Commands) /\ (StillCancelled(m) \/ StillLeft(m) \/ IsShown(m))
    BY <2>1, SessionStateFits
  <2> QED BY <1>0, <1>1, <1>3, <2>2
<1>4. CASE m.type = "reply"
  <2>1. app' = (IF m.to \in app.calls THEN Returned(app, m.to, m.code) ELSE app) /\ UNCHANGED up
    BY <1>4 DEF OnMessage
  <2>2. m.to \in Calls /\ m.code \in Codes
    BY <1>1, <1>4, MessageFields
  <2>3. CASE m.to \in app.calls
    <3>1. app' = Returned(app, m.to, m.code)
      BY <2>1, <2>3
    <3>2. ReturnedAs(app, m.to, m.code, app')
      BY <1>0, <2>2, <3>1, ReturnedFits
    <3>3. app' \in Apps
      BY <3>2 DEF ReturnedAs
    <3>4. up' = up
      BY <2>1
    <3> QED BY <1>0, <1>1, <1>4, <2>3, <3>2, <3>3, <3>4
  <2>4. CASE m.to \notin app.calls
    <3>1. app' = app /\ up' = up
      BY <2>1, <2>4
    <3> QED BY <1>0, <1>1, <1>4, <2>4, <3>1
  <2> QED BY <2>3, <2>4
<1>5. CASE m.type = "over"
  <2>1. m.game \in Games /\ m.game \in Numbers /\ up' = up /\ app' = IsOver(m)
    BY <1>1, <1>5, MessageFields, NumbersFit DEF OnMessage
  <2>2. CASE m.removed
    <3>1. app' = Count(app, m.game, "loss")
      BY <2>1, <2>2 DEF IsOver
    <3>2. CountedAs(app, m.game, "loss", app')
      BY <1>0, <2>1, <3>1, CountFits
    <3>3. EndIsShown(m) /\ app' \in Apps
      BY <2>2, <3>2 DEF EndIsShown, CountedWith, CountedAs
    <3> QED BY <1>0, <1>1, <1>5, <2>1, <3>3
  <2>3. CASE ~m.removed
    <3> DEFINE a == Count(app, m.game, m.outcome)
    <3>1. app' = [a EXCEPT !.over = m.game]
      BY <2>1, <2>3 DEF IsOver
    <3>2. CountedAs(app, m.game, m.outcome, a)
      BY <1>0, <2>1, CountFits
    <3> HIDE DEF a
    <3>3. /\ app' \in Apps /\ app'.over = m.game /\ app'.counted = a.counted
          /\ app'.connected = a.connected /\ app'.activity = a.activity /\ app'.game = a.game
          /\ app'.calls = a.calls /\ app'.left = a.left /\ app'.cancelPending = a.cancelPending
          /\ app'.leavePending = a.leavePending
      BY <2>1, <3>1, <3>2 DEF Apps, CountedAs
    <3>4. EndIsShown(m)
      BY <2>3, <3>2, <3>3 DEF EndIsShown, CountedWith, CountedAs
    <3> QED BY <1>0, <1>1, <1>5, <2>1, <3>3, <3>4
  <2> QED BY <2>2, <2>3
<1> QED BY <1>2, <1>3, <1>4, <1>5

\* A call that is made, of what the app has; without a channel the app only notes it.
Asks(to, g) ==
    /\ app'.calls = app.calls \cup {to}
    /\ app'.left = (IF to = "leave" THEN g ELSE app.left)
    /\ app'.connected = app.connected /\ app'.game = app.game /\ app'.over = app.over
    /\ app'.cancelPending = app.cancelPending /\ app'.leavePending = app.leavePending /\ app'.counted = app.counted
    /\ up' = Append(up, [type |-> to, game |-> g]) /\ In(up') = In(up) \cup {[type |-> to, game |-> g]}

Notes(cancel, leave) ==
    /\ ~app.connected
    /\ app'.activity = "none" /\ app'.game = NoGame
    /\ app'.cancelPending = cancel /\ app'.leavePending = leave
    /\ app'.connected = app.connected /\ app'.over = app.over /\ app'.calls = app.calls /\ app'.left = app.left
    /\ app'.counted = app.counted
    /\ UNCHANGED up

ScreenIsIdle == app.calls \subseteq Repeats /\ UNCHANGED <<server, down>> /\ app' \in Apps /\ up' \in Seq(Commands)

LEMMA CallAsks ==
    ASSUME Typed, NEW to \in Calls \ {"leave again"}, NEW g \in Numbers, Call(app, to, g)
    PROVE  Asks(to, g) /\ app'.activity = app.activity /\ app' \in Apps /\ up' \in Seq(Commands)
<1>1. app \in Apps /\ to \in Calls
  BY DEF Typed
<1>2. CalledAs(app, to, g)
  BY <1>1, CallFits
<1> QED BY <1>2 DEF Asks, CalledAs

LEMMA StartSearchFits ==
    ASSUME Typed, StartSearch
    PROVE  /\ ScreenIsIdle /\ app.connected /\ app.activity = "none"
           /\ Asks("join", NoGame) /\ app'.activity = "matchmaking"
<1> DEFINE a == [app EXCEPT !.activity = "matchmaking"]
<1>1. /\ app.calls \subseteq Repeats /\ UNCHANGED <<server, down>> /\ app.connected /\ app.activity = "none"
      /\ Call(a, "join", NoGame)
  BY DEF StartSearch, ScreenIsFree
<1>2. /\ a \in Apps /\ a.connected = app.connected /\ a.activity = "matchmaking" /\ a.game = app.game
      /\ a.over = app.over /\ a.calls = app.calls /\ a.left = app.left /\ a.cancelPending = app.cancelPending
      /\ a.leavePending = app.leavePending /\ a.counted = app.counted
  BY DEF Typed, Apps, Activities
<1> HIDE DEF a
<1>3. "join" \in Calls /\ "join" \notin {"leave", "leave again"}
  BY DEF Calls
<1>4. CalledAs(a, "join", NoGame)
  BY <1>1, <1>2, <1>3, CallFits, NumbersFit
<1> QED BY <1>1, <1>2, <1>3, <1>4 DEF Asks, ScreenIsIdle, CalledAs

LEMMA PlayAgainFits ==
    ASSUME Typed, PlayAgain
    PROVE  /\ ScreenIsIdle /\ app.connected /\ app.activity = "game" /\ app.over = app.game
           /\ Asks("again", app.game) /\ app'.activity = app.activity
<1>1. /\ app.calls \subseteq Repeats /\ UNCHANGED <<server, down>> /\ app.connected /\ app.activity = "game"
      /\ app.over = app.game /\ Call(app, "again", app.game)
  BY DEF PlayAgain, ScreenIsFree
<1>2. "again" \in Calls /\ app \in Apps /\ app.game \in Numbers
  BY AppFields DEF Calls, Typed
<1>3. Asks("again", app.game) /\ app'.activity = app.activity /\ app' \in Apps /\ up' \in Seq(Commands)
  BY <1>1, <1>2, CallAsks
<1> QED BY <1>1, <1>3 DEF ScreenIsIdle

LEMMA CancelSearchFits ==
    ASSUME Typed, CancelSearch
    PROVE  /\ ScreenIsIdle /\ app.activity = "matchmaking"
           /\ \/ app.connected /\ Asks("cancel", NoGame) /\ app'.activity = app.activity
              \/ Notes(TRUE, app.leavePending)
<1>1. /\ app.calls \subseteq Repeats /\ UNCHANGED <<server, down>> /\ app.activity = "matchmaking"
      /\ IF app.connected THEN Call(app, "cancel", NoGame)
         ELSE app' = [Home(app) EXCEPT !.cancelPending = TRUE] /\ UNCHANGED up
  BY DEF CancelSearch, ScreenIsFree
<1>2. "cancel" \in Calls /\ app \in Apps /\ up \in Seq(Commands)
  BY DEF Calls, Typed
<1>3. CASE app.connected
  <2>1. Call(app, "cancel", NoGame)
    BY <1>1, <1>3
  <2>2. Asks("cancel", NoGame) /\ app'.activity = app.activity /\ app' \in Apps /\ up' \in Seq(Commands)
    BY <1>2, <2>1, CallAsks, NumbersFit
  <2> QED BY <1>1, <1>3, <2>2 DEF ScreenIsIdle
<1>4. CASE ~app.connected
  <2> DEFINE a == Home(app)
  <2>1. app' = [a EXCEPT !.cancelPending = TRUE] /\ up' = up
    BY <1>1, <1>4
  <2>2. /\ a \in Apps /\ a.activity = "none" /\ a.game = NoGame
        /\ a.connected = app.connected /\ a.over = app.over /\ a.calls = app.calls
        /\ a.left = app.left /\ a.leavePending = app.leavePending /\ a.counted = app.counted
    BY <1>2, HomeFits
  <2> HIDE DEF a
  <2>3. /\ app' \in Apps /\ app'.cancelPending = TRUE /\ app'.activity = a.activity /\ app'.game = a.game
        /\ app'.connected = a.connected /\ app'.over = a.over /\ app'.calls = a.calls
        /\ app'.left = a.left /\ app'.leavePending = a.leavePending /\ app'.counted = a.counted
    BY <2>1, <2>2 DEF Apps
  <2> QED BY <1>1, <1>2, <1>4, <2>1, <2>2, <2>3 DEF Notes, ScreenIsIdle
<1> QED BY <1>3, <1>4

LEMMA LeaveGameFits ==
    ASSUME Typed, LeaveGame
    PROVE  /\ ScreenIsIdle /\ app.activity = "game"
           /\ \/ app.connected /\ Asks("leave", app.game) /\ app'.activity = app.activity
              \/ Notes(app.cancelPending, app.game)
<1>1. /\ app.calls \subseteq Repeats /\ UNCHANGED <<server, down>> /\ app.activity = "game"
      /\ IF app.connected THEN Call(app, "leave", app.game)
         ELSE app' = LeaveOffline(app) /\ UNCHANGED up
  BY DEF LeaveGame, ScreenIsFree
<1>2. "leave" \in Calls /\ app \in Apps /\ app.game \in Numbers /\ up \in Seq(Commands)
  BY AppFields DEF Calls, Typed
<1>3. CASE app.connected
  <2>1. Call(app, "leave", app.game)
    BY <1>1, <1>3
  <2>2. Asks("leave", app.game) /\ app'.activity = app.activity /\ app' \in Apps /\ up' \in Seq(Commands)
    BY <1>2, <2>1, CallAsks
  <2> QED BY <1>1, <1>3, <2>2 DEF ScreenIsIdle
<1>4. CASE ~app.connected
  <2> DEFINE a == Home(app)
  <2>1. app' = [a EXCEPT !.leavePending = app.game] /\ up' = up
    BY <1>1, <1>4 DEF LeaveOffline
  <2>2. /\ a \in Apps /\ a.activity = "none" /\ a.game = NoGame
        /\ a.connected = app.connected /\ a.over = app.over /\ a.calls = app.calls
        /\ a.left = app.left /\ a.cancelPending = app.cancelPending /\ a.counted = app.counted
    BY <1>2, HomeFits
  <2> HIDE DEF a
  <2>3. /\ app' \in Apps /\ app'.leavePending = app.game /\ app'.activity = a.activity /\ app'.game = a.game
        /\ app'.connected = a.connected /\ app'.over = a.over /\ app'.calls = a.calls
        /\ app'.left = a.left /\ app'.cancelPending = a.cancelPending /\ app'.counted = a.counted
    BY <1>2, <2>1, <2>2 DEF Apps
  <2> QED BY <1>1, <1>2, <1>4, <2>1, <2>2, <2>3 DEF Notes, ScreenIsIdle
<1> QED BY <1>3, <1>4

-----------------------------------------------------------------------------
(* The numbers and types hold *)

LEMMA Bounds ==
    ASSUME Sane
    PROVE  /\ Typed /\ AppNumbered /\ server \in Servers /\ app \in Apps /\ server.dealt \in Nat
           /\ NoGame \in 0 .. server.dealt /\ app.game \in 0 .. server.dealt
           /\ app.leavePending \in 0 .. server.dealt /\ app.connected \in BOOLEAN
<1>1. Typed /\ AppNumbered /\ server \in Servers /\ app \in Apps
  BY DEF Sane, Typed
<1>2. server.dealt \in Nat
  BY <1>1, ServerFields, NumbersFit
<1>3. NoGame \in 0 .. server.dealt
  BY <1>2 DEF NoGame
<1> QED BY <1>1, <1>2, <1>3, AppFields DEF AppNumbered

CommandFits(c) == c.game \in 0 .. server.dealt /\ (c.type \in {"leave", "leave again", "again"} => c.game # NoGame)

LEMMA AskedFits ==
    ASSUME NEW to, NEW g \in 0 .. server.dealt, to \in {"leave", "leave again", "again"} => g # NoGame,
           In(up') = In(up) \cup {[type |-> to, game |-> g]}
    PROVE  \A c \in In(up') : c \in In(up) \/ CommandFits(c)
<1> DEFINE new == [type |-> to, game |-> g]
<1>1. CommandFits(new)
  BY DEF CommandFits
<1> HIDE DEF new
<1>2. In(up') = In(up) \cup {new}
  BY DEF new
<1> QED BY <1>1, <1>2

LEMMA ServerKeepsSane ==
    ASSUME Sane, ServerGoesOn, UNCHANGED app, up' \in Seq(Commands), In(up') \subseteq In(up),
           ~app.connected => down' = <<>>
    PROVE  Sane'
<1>1. server.dealt \in Nat /\ server'.dealt \in Nat /\ server'.dealt >= server.dealt
  BY ServerFields, NumbersFit DEF Sane, Typed, ServerGoesOn
<1>2. 0 .. server.dealt \subseteq 0 .. server'.dealt /\ 1 .. server.dealt \subseteq 1 .. server'.dealt
  BY <1>1
<1>3. Typed'
  BY DEF Sane, Typed, ServerGoesOn
<1>4. AppNumbered'
  BY <1>2 DEF Sane, AppNumbered
<1>5. ASSUME NEW m \in In(down') PROVE Dealt(m, server'.dealt)
  BY <1>2 DEF Sane, QueuesNumbered, ServerGoesOn, Dealt
<1>6. QueuesNumbered'
  BY <1>2, <1>5 DEF Sane, QueuesNumbered
<1>7. ServerNumbered'
  BY DEF ServerGoesOn
<1> QED BY <1>3, <1>4, <1>6, <1>7 DEF Sane

LEMMA AppKeepsSane ==
    ASSUME Sane, UNCHANGED server, app' \in Apps, up' \in Seq(Commands), down' \in Seq(Messages), AppNumbered',
           \A c \in In(up') : c \in In(up) \/ CommandFits(c),
           \A m \in In(down') : m \in In(down) \/ Dealt(m, server.dealt)
    PROVE  Sane'
<1>1. Typed' /\ ServerNumbered'
  BY DEF Sane, Typed, ServerNumbered
<1>2. QueuesNumbered'
  BY DEF Sane, QueuesNumbered, CommandFits
<1> QED BY <1>1, <1>2 DEF Sane

LEMMA SaneInit == Init => Sane
<1> SUFFICES ASSUME Init PROVE Sane
  OBVIOUS
<1>1. server = NewServer /\ up = <<>> /\ down = <<>> /\ app = NewApp
  BY DEF Init
<1>0. 0 \in Numbers
  BY NumbersFit DEF NoGame
<1>2. server \in Servers
  BY <1>0, <1>1, NumbersFit DEF NewServer, Servers, Activities, Outcomes
<1>3. app \in Apps
  BY <1>1, NumbersFit DEF NewApp, Apps, Activities, Counts
<1>4. Typed
  BY <1>1, <1>2, <1>3 DEF Typed
<1>5. ServerNumbered
  BY <1>1 DEF NewServer, ServerNumbered, NoGame
<1>6. AppNumbered
  BY <1>1 DEF NewServer, NewApp, AppNumbered, NoGame
<1>7. QueuesNumbered
  BY <1>1, InFew DEF QueuesNumbered
<1> QED BY <1>4, <1>5, <1>6, <1>7 DEF Sane

LEMMA LostWithout == ASSUME NEW messages, Sends(messages), ~app.connected PROVE down' = <<>>
BY DEF Sends

LEMMA HandleKeepsSane == ASSUME Sane, HandleCommand PROVE Sane'
<1> DEFINE c == Head(up)
<1>1. /\ c \in Commands /\ c \in In(up)
      /\ up' \in Seq(Commands) /\ In(up') \subseteq In(up) /\ UNCHANGED app
      /\ \/ c.type = "join" /\ Searches(server.activity = "none", c.type)
         \/ c.type = "again" /\ Searches(server.game = c.game /\ server.truth[c.game] # None, c.type)
         \/ c.type \in {"cancel", "cancel again"} /\ Cancels(c.type)
         \/ c.type \in {"leave", "leave again"} /\ Leaves(c.game, c.type)
  BY Handled DEF Sane
<1> HIDE DEF c
<1>2. c.type \in Calls /\ c.game \in Numbers
  BY <1>1 DEF Commands
<1>3. c.type \in {"leave", "leave again"} => c.game \in Games
  <2>1. c.type \in {"leave", "leave again"} => c.game # NoGame
    BY <1>1 DEF Sane, QueuesNumbered
  <2>2. c.game # NoGame => c.game \in Games
    BY <1>2 DEF Numbers, Games, NoGame
  <2> QED BY <2>1, <2>2
<1>4. ServerGoesOn
  BY <1>1, <1>2, <1>3, SearchesFits, CancelsFits, LeavesFits
<1>5. ~app.connected => down' = <<>>
  BY <1>1 DEF Searches, Cancels, Leaves, Sends
<1> QED BY <1>1, <1>4, <1>5, ServerKeepsSane

LEMMA OnItsOwnKeepsSane == ASSUME Sane, Deal \/ Remove \/ Decide \/ SearchEnds \/ Restart PROVE Sane'
<1>1. ServerGoesOn /\ UNCHANGED <<up, app>>
  BY DealFits, RemoveFits, DecideFits, SearchEndsFits, RestartFits
<1>2. ~app.connected => down' = <<>>
  <2>1. CASE Deal
    BY <2>1 DEF Deal, Sends
  <2>2. CASE Decide
    BY <2>2 DEF Decide, Sends
  <2>3. CASE SearchEnds
    BY <2>3 DEF SearchEnds, Sends
  <2>4. CASE Restart
    BY <2>4, RestartFits DEF Sane, AppNumbered
  <2>5. CASE Remove
    BY <2>5, RemoveFits DEF Sane, AppNumbered
  <2> QED BY <2>1, <2>2, <2>3, <2>4, <2>5
<1>3. up' \in Seq(Commands) /\ In(up') \subseteq In(up)
  BY <1>1 DEF Sane, Typed
<1> QED BY <1>1, <1>2, <1>3, ServerKeepsSane

LEMMA ScreenKeepsSane == ASSUME Sane, StartSearch \/ PlayAgain \/ CancelSearch \/ LeaveGame PROVE Sane'
<1>0. /\ server.dealt \in Nat /\ NoGame \in 0 .. server.dealt /\ app.game \in 0 .. server.dealt
      /\ app.connected \in BOOLEAN
  BY Bounds
<1>1. Typed /\ AppNumbered
  BY Bounds
<1>2. /\ ScreenIsIdle /\ AppNumbered'
      /\ \A c \in In(up') : c \in In(up) \/ CommandFits(c)
  <2>1. CASE StartSearch
    <3>1. ScreenIsIdle /\ app.connected /\ Asks("join", NoGame) /\ app'.activity = "matchmaking"
      BY <1>1, <2>1, StartSearchFits
    <3>2. AppNumbered'
      BY <1>1, <3>1 DEF ScreenIsIdle, Asks, AppNumbered
    <3>3. In(up') = In(up) \cup {[type |-> "join", game |-> NoGame]}
      BY <3>1 DEF Asks
    <3> QED BY <1>0, <3>1, <3>2, <3>3, AskedFits
  <2>2. CASE PlayAgain
    <3>1. ScreenIsIdle /\ app.connected /\ Asks("again", app.game) /\ app'.activity = app.activity /\ app.activity = "game"
      BY <1>1, <2>2, PlayAgainFits
    <3>2. AppNumbered'
      BY <1>1, <3>1 DEF ScreenIsIdle, Asks, AppNumbered
    <3>3. app.game # NoGame
      BY <1>1, <3>1 DEF AppNumbered
    <3>4. In(up') = In(up) \cup {[type |-> "again", game |-> app.game]}
      BY <3>1 DEF Asks
    <3> QED BY <1>0, <3>1, <3>2, <3>3, <3>4, AskedFits
  <2>3. CASE CancelSearch
    <3>1. /\ ScreenIsIdle
          /\ \/ app.connected /\ Asks("cancel", NoGame) /\ app'.activity = app.activity
             \/ Notes(TRUE, app.leavePending)
      BY <1>1, <2>3, CancelSearchFits
    <3>2. AppNumbered'
      BY <1>0, <1>1, <3>1 DEF ScreenIsIdle, Asks, Notes, AppNumbered
    <3>3. In(up') = In(up) \/ In(up') = In(up) \cup {[type |-> "cancel", game |-> NoGame]}
      BY <3>1 DEF Asks, Notes
    <3> QED BY <1>0, <3>1, <3>2, <3>3, AskedFits
  <2>4. CASE LeaveGame
    <3>1. /\ ScreenIsIdle /\ app.activity = "game"
          /\ \/ app.connected /\ Asks("leave", app.game) /\ app'.activity = app.activity
             \/ Notes(app.cancelPending, app.game)
      BY <1>1, <2>4, LeaveGameFits
    <3>2. AppNumbered'
      BY <1>0, <1>1, <3>1 DEF ScreenIsIdle, Asks, Notes, AppNumbered
    <3>3. app.game # NoGame
      BY <1>1, <3>1 DEF AppNumbered
    <3>4. In(up') = In(up) \/ In(up') = In(up) \cup {[type |-> "leave", game |-> app.game]}
      BY <3>1 DEF Asks, Notes
    <3> QED BY <1>0, <3>1, <3>2, <3>3, <3>4, AskedFits
  <2> QED BY <2>1, <2>2, <2>3, <2>4
<1>3. down' \in Seq(Messages) /\ In(down') = In(down)
  BY <1>1, <1>2 DEF ScreenIsIdle, Typed
<1> QED BY <1>2, <1>3, AppKeepsSane DEF ScreenIsIdle

LEMMA OnMessageKeepsSane == ASSUME Sane, OnMessage PROVE Sane'
<1> DEFINE m == Head(down)
<1>1. /\ m \in Messages /\ m \in In(down) /\ down # <<>>
      /\ down' \in Seq(Messages) /\ In(down') \subseteq In(down) /\ UNCHANGED server
      /\ app' \in Apps /\ up' \in Seq(Commands)
      /\ \/ m.type = "state" /\ (StillCancelled(m) \/ StillLeft(m) \/ IsShown(m))
         \/ m.type = "reply" /\ m.to \in app.calls /\ ReturnedAs(app, m.to, m.code, app') /\ UNCHANGED up
         \/ m.type = "reply" /\ m.to \notin app.calls /\ UNCHANGED <<app, up>>
         \/ m.type = "over" /\ EndIsShown(m) /\ UNCHANGED up
  BY OnMessageFits DEF Sane
<1> HIDE DEF m
<1>2. /\ server.dealt \in Nat /\ NoGame \in 0 .. server.dealt /\ server' = server
      /\ app.leavePending \in 0 .. server.dealt /\ AppNumbered
  BY <1>1, Bounds
<1>4. app.connected /\ Dealt(m, server.dealt)
  BY <1>1, <1>2 DEF Sane, AppNumbered, QueuesNumbered
<1>3. AppNumbered' /\ \A c \in In(up') : c \in In(up) \/ CommandFits(c)
  <2>1. CASE m.type = "state" /\ StillCancelled(m)
    <3>1. AppNumbered'
      BY <1>2, <1>4, <2>1 DEF StillCancelled, AppNumbered
    <3>2. In(up') = In(up) \/ In(up') = In(up) \cup {[type |-> "cancel again", game |-> NoGame]}
      BY <2>1 DEF StillCancelled
    <3> QED BY <1>2, <3>1, <3>2, AskedFits
  <2>2. CASE m.type = "state" /\ StillLeft(m)
    <3>1. AppNumbered' /\ app.leavePending # NoGame
      BY <1>2, <1>4, <2>2 DEF StillLeft, AppNumbered
    <3>2. In(up') = In(up) \/ In(up') = In(up) \cup {[type |-> "leave again", game |-> app.leavePending]}
      BY <2>2 DEF StillLeft
    <3> QED BY <1>2, <3>1, <3>2, AskedFits
  <2>3. CASE m.type = "state" /\ IsShown(m)
    BY <1>2, <1>4, <2>3 DEF IsShown, AppNumbered, Dealt
  <2>4. CASE m.type = "reply" /\ m.to \in app.calls /\ ReturnedAs(app, m.to, m.code, app') /\ UNCHANGED up
    <3>1. m.to \in Calls
      BY <1>1, <2>4, MessageFields
    <3>2. app'.game \in {app.game, NoGame} /\ app'.leavePending \in {app.leavePending, NoGame}
      BY <2>4, <3>1 DEF ReturnedAs, Calls, Repeats
    <3>3. app'.activity = "game" => app.activity = "game" /\ app'.game = app.game
      BY <2>4, <3>1 DEF ReturnedAs, Calls, Repeats
    <3>4. app'.over = app.over /\ app'.connected = app.connected
      BY <2>4 DEF ReturnedAs
    <3>5. AppNumbered'
      BY <1>2, <1>4, <3>2, <3>3, <3>4 DEF AppNumbered
    <3> QED BY <2>4, <3>5
  <2>5. CASE m.type = "reply" /\ UNCHANGED <<app, up>>
    BY <1>2, <1>4, <2>5 DEF AppNumbered
  <2>6. CASE m.type = "over" /\ EndIsShown(m) /\ UNCHANGED up
    <3>1. m.game \in 0 .. server.dealt
      BY <1>4, <2>6 DEF Dealt
    <3> QED BY <1>2, <1>4, <2>6, <3>1 DEF EndIsShown, AppNumbered
  <2> QED BY <1>1, <2>1, <2>2, <2>3, <2>4, <2>5, <2>6
<1> QED BY <1>1, <1>3, AppKeepsSane

LEMMA DropFits ==
    ASSUME Typed, Drop
    PROVE  /\ app' = Failed(app) /\ app' \in Apps /\ ~app'.connected /\ app.connected
           /\ up' \in Seq(Commands) /\ In(up') \subseteq In(up) /\ down' = <<>> /\ UNCHANGED server
<1>1. /\ app.connected /\ app' = Failed(app) /\ down' = <<>> /\ UNCHANGED server
  BY DEF Drop
<1>2. PICK n \in 0 .. Len(up) : up' = SubSeq(up, 1, n)
  BY DEF Drop
<1>3. up' \in Seq(Commands) /\ In(up') \subseteq In(up)
  BY <1>2, InPrefix DEF Typed
<1>4. app' \in Apps /\ ~app'.connected
  BY <1>1, FailedFits DEF Typed
<1> QED BY <1>1, <1>3, <1>4

LEMMA ConnectFits ==
    ASSUME Typed, Connect
    PROVE  /\ app' \in Apps /\ app'.connected /\ ~app.connected /\ server.known
           /\ app'.activity = app.activity /\ app'.game = app.game /\ app'.over = app.over /\ app'.calls = app.calls
           /\ app'.left = app.left /\ app'.cancelPending = app.cancelPending
           /\ app'.leavePending = app.leavePending /\ app'.counted = app.counted
           /\ up' = <<>> /\ UNCHANGED server
           /\ down' = <<StateOf(server)>> \o Ended(server) /\ down' \in Seq(Messages)
           /\ In(down') = {StateOf(server)} \cup In(Ended(server))
<1>1. /\ ~app.connected /\ server.known /\ app' = [app EXCEPT !.connected = TRUE]
      /\ up' = <<>> /\ UNCHANGED server /\ down' = <<StateOf(server)>> \o Ended(server)
  BY DEF Connect
<1>2. /\ app' \in Apps /\ app'.connected
      /\ app'.activity = app.activity /\ app'.game = app.game /\ app'.over = app.over /\ app'.calls = app.calls
      /\ app'.left = app.left /\ app'.cancelPending = app.cancelPending
      /\ app'.leavePending = app.leavePending /\ app'.counted = app.counted
  BY <1>1 DEF Typed, Apps
<1>3. <<StateOf(server)>> \in Seq(Messages) /\ Ended(server) \in Seq(Messages)
  BY StateFits, EndedFits DEF Typed
<1> DEFINE first == <<StateOf(server)>>
           rest == Ended(server)
<1> HIDE DEF first, rest
<1>6. first \in Seq(Messages) /\ rest \in Seq(Messages)
  BY <1>3 DEF first, rest
<1>4. first \o rest \in Seq(Messages) /\ In(first \o rest) = In(first) \cup In(rest)
  BY <1>6, InConcat
<1>5. In(first) = {StateOf(server)} /\ down' = first \o rest
  BY <1>1, InFew DEF first, rest
<1> QED BY <1>1, <1>2, <1>4, <1>5 DEF rest

LEMMA ReplaceFits ==
    ASSUME Typed, ReplaceLostSession
    PROVE  /\ app' \in Apps /\ ~app'.connected /\ ~app.connected /\ ~server.known
           /\ app'.activity = "none" /\ app'.game = NoGame /\ app'.over = app.over /\ app'.calls = app.calls
           /\ app'.left = app.left /\ app'.cancelPending = FALSE
           /\ app'.leavePending = NoGame /\ app'.counted = app.counted
           /\ server' \in Servers /\ server'.known = TRUE /\ server'.activity = server.activity /\ server'.game = server.game
           /\ server'.last = server.last /\ server'.dealt = server.dealt /\ server'.truth = server.truth
           /\ SameHistory /\ up' = <<>> /\ UNCHANGED down
<1> DEFINE a == Home(app)
<1>1. /\ ~app.connected /\ ~server.known /\ up' = <<>> /\ UNCHANGED down
      /\ app' = [a EXCEPT !.cancelPending = FALSE, !.leavePending = NoGame]
      /\ server' = [server EXCEPT !.known = TRUE]
  BY DEF ReplaceLostSession
<1>2. /\ a \in Apps /\ a.activity = "none" /\ a.game = NoGame /\ a.connected = app.connected /\ a.over = app.over
      /\ a.calls = app.calls /\ a.left = app.left /\ a.counted = app.counted
  BY HomeFits DEF Typed
<1> HIDE DEF a
<1>3. /\ app' \in Apps /\ app'.cancelPending = FALSE /\ app'.leavePending = NoGame
      /\ app'.activity = a.activity /\ app'.game = a.game /\ app'.connected = a.connected /\ app'.over = a.over
      /\ app'.calls = a.calls /\ app'.left = a.left /\ app'.counted = a.counted
  BY <1>1, <1>2, NumbersFit DEF Apps
<1>4. /\ server' \in Servers /\ server'.known = TRUE /\ server'.activity = server.activity /\ server'.game = server.game
      /\ server'.last = server.last /\ server'.dealt = server.dealt /\ server'.truth = server.truth
      /\ SameHistory
  BY <1>1 DEF Typed, Servers, SameHistory
<1>5. ~app'.connected
  BY <1>1, <1>2, <1>3
<1> QED BY <1>1, <1>2, <1>3, <1>4, <1>5

LEMMA ConnectionKeepsSane == ASSUME Sane, Drop \/ Connect \/ ReplaceLostSession PROVE Sane'
<1>0. Typed /\ AppNumbered /\ server.dealt \in Nat /\ NoGame \in 0 .. server.dealt /\ server \in Servers
  BY Bounds
<1>1. CASE Drop
  <2>1. /\ app' = Failed(app) /\ app' \in Apps /\ ~app'.connected /\ app.connected
        /\ up' \in Seq(Commands) /\ In(up') \subseteq In(up) /\ down' = <<>> /\ UNCHANGED server
    BY <1>0, <1>1, DropFits
  <2>2. /\ app'.calls = {} /\ app'.over = app.over /\ app'.leavePending = app.leavePending
        /\ (app'.activity = app.activity /\ app'.game = app.game) \/ (app'.activity = "none" /\ app'.game \in {app.game, NoGame})
    BY <1>0, <2>1, FailedFits, AppFields DEF Typed, Calls, Repeats
  <2>3. AppNumbered'
    BY <1>0, <2>1, <2>2 DEF AppNumbered
  <2>4. down' \in Seq(Messages) /\ In(down') = {}
    BY <2>1, InFew
  <2> QED BY <2>1, <2>3, <2>4, AppKeepsSane
<1>2. CASE Connect
  <2>1. /\ app' \in Apps /\ app'.connected /\ UNCHANGED server /\ up' = <<>> /\ down' \in Seq(Messages)
        /\ app'.activity = app.activity /\ app'.game = app.game /\ app'.over = app.over
        /\ app'.leavePending = app.leavePending
        /\ In(down') = {StateOf(server)} \cup In(Ended(server))
    BY <1>0, <1>2, ConnectFits
  <2>2. AppNumbered'
    BY <1>0, <2>1 DEF AppNumbered
  <2>3. Dealt(StateOf(server), server.dealt)
    BY <1>0, StateFits DEF Sane, ServerNumbered, Dealt
  <2>4. \A m \in In(Ended(server)) : Dealt(m, server.dealt)
    <3>1. server.game # NoGame => server.game \in 1 .. server.dealt
      BY <1>0 DEF Sane, ServerNumbered, NoGame
    <3> QED BY <1>0, <3>1, EndedFits, OverFits DEF HasEnded, Dealt
  <2>5. up' \in Seq(Commands) /\ In(up') = {}
    BY <2>1, InFew
  <2>6. \A m \in In(down') : Dealt(m, server.dealt)
    BY <2>1, <2>3, <2>4
  <2> QED BY <2>1, <2>2, <2>5, <2>6, AppKeepsSane
<1>3. CASE ReplaceLostSession
  <2>1. /\ app' \in Apps /\ ~app'.connected /\ ~app.connected
        /\ app'.activity = "none" /\ app'.game = NoGame /\ app'.over = app.over /\ app'.calls = app.calls
        /\ app'.leavePending = NoGame
        /\ server' \in Servers /\ server'.activity = server.activity /\ server'.game = server.game
        /\ server'.last = server.last /\ server'.dealt = server.dealt /\ server'.truth = server.truth
        /\ SameHistory /\ up' = <<>> /\ UNCHANGED down
    BY <1>0, <1>3, ReplaceFits
  <2>2. AppNumbered'
    BY <1>0, <2>1 DEF AppNumbered
  <2>3. ServerNumbered'
    BY <2>1 DEF Sane, ServerNumbered, SameHistory
  <2>4. up' \in Seq(Commands) /\ In(up') = {} /\ In(down') = In(down)
    BY <2>1, InFew
  <2>5. Typed'
    BY <2>1, <2>4 DEF Sane, Typed
  <2>6. QueuesNumbered'
    BY <2>1, <2>4 DEF Sane, QueuesNumbered
  <2> QED BY <2>2, <2>3, <2>5, <2>6 DEF Sane
<1> QED BY <1>1, <1>2, <1>3

LEMMA SaneNext == ASSUME Sane, [Next]_vars PROVE Sane'
<1>1. CASE UNCHANGED vars
  BY <1>1 DEF vars, Sane, Typed, ServerNumbered, AppNumbered, QueuesNumbered
<1> QED
  BY <1>1, HandleKeepsSane, OnItsOwnKeepsSane, ScreenKeepsSane, OnMessageKeepsSane, ConnectionKeepsSane DEF Next

-----------------------------------------------------------------------------
(* What is on its way *)

\* A state on its way that tells the outcome of g; an app with a cancel to
\* repeat passes over it until a state shows the search ended.
Brings(q, pending, g) ==
    \E i \in DOMAIN q : /\ q[i].type = "state" /\ q[i].last = g
                        /\ pending => \E j \in 1 .. i : q[j].type = "state" /\ q[j].activity # "matchmaking"

\* Of the states in q, m is the last one.
EndsWith(q, m) == \E i \in DOMAIN q : q[i] = m /\ m.type = "state" /\ \A j \in DOMAIN q : q[j].type = "state" => j <= i
NoState(q) == \A i \in DOMAIN q : q[i].type # "state"
Fresh(q, m) == NoState(q) \/ EndsWith(q, m)

LEMMA BringsWeaker ==
    ASSUME NEW q, NEW p \in BOOLEAN, NEW r \in BOOLEAN, NEW g, Brings(q, p, g), r => p
    PROVE  Brings(q, r, g)
BY DEF Brings

LEMMA BringsMore ==
    ASSUME NEW S, NEW q \in Seq(S), NEW r \in Seq(S), NEW p \in BOOLEAN, NEW g, Brings(q, p, g)
    PROVE  Brings(q \o r, p, g)
<1> DEFINE s == q \o r
<1>1. DOMAIN q \subseteq DOMAIN s /\ \A i \in DOMAIN q : s[i] = q[i]
  BY InConcat
<1> HIDE DEF s
<1>2. PICK i \in DOMAIN q : /\ q[i].type = "state" /\ q[i].last = g
                            /\ p => \E j \in 1 .. i : q[j].type = "state" /\ q[j].activity # "matchmaking"
  BY DEF Brings
<1>3. \A j \in 1 .. i : j \in DOMAIN q
  BY <1>2
<1>4. Brings(s, p, g)
  BY <1>1, <1>2, <1>3 DEF Brings
<1> QED BY <1>4 DEF s

LEMMA BringsNew ==
    ASSUME NEW S, NEW q \in Seq(S), NEW r \in Seq(S), NEW p \in BOOLEAN, NEW g, NEW k \in DOMAIN r,
           r[k].type = "state", r[k].last = g, p => r[k].activity # "matchmaking"
    PROVE  Brings(q \o r, p, g)
<1> DEFINE s == q \o r
           i == Len(q) + k
<1>1. i \in DOMAIN s /\ s[i] = r[k]
  BY InConcat
<1>2. i \in 1 .. i
  <2>1. Len(q) \in Nat /\ k \in Nat /\ k >= 1
    OBVIOUS
  <2> QED BY <2>1
<1> HIDE DEF s, i
<1>3. Brings(s, p, g)
  BY <1>1, <1>2 DEF Brings
<1> QED BY <1>3 DEF s

\* The first message of q has been seen.
LEMMA BringsTail ==
    ASSUME NEW S, NEW q \in Seq(S), q # <<>>, NEW p \in BOOLEAN, NEW g, Brings(q, p, g),
           \/ q[1].type # "state"
           \/ p /\ q[1].activity = "matchmaking"
           \/ ~p /\ q[1].last # g
    PROVE  Brings(Tail(q), p, g)
<1> DEFINE t == Tail(q)
<1>1. /\ Len(q) \in Nat /\ DOMAIN q = 1 .. Len(q) /\ DOMAIN t = 1 .. Len(q) - 1
      /\ \A i \in 1 .. Len(q) - 1 : t[i] = q[i + 1]
  BY HeadTailProperties
<1> HIDE DEF t
<1>2. PICK i \in DOMAIN q : /\ q[i].type = "state" /\ q[i].last = g
                            /\ p => \E j \in 1 .. i : q[j].type = "state" /\ q[j].activity # "matchmaking"
  BY DEF Brings
<1>3. ASSUME NEW k \in 2 .. Len(q) PROVE k - 1 \in DOMAIN t /\ t[k - 1] = q[k]
  <2>1. k - 1 \in 1 .. Len(q) - 1 /\ (k - 1) + 1 = k
    BY <1>1
  <2> QED BY <1>1, <2>1
<1>4. i \in Int /\ i >= 1 /\ i <= Len(q)
  BY <1>1
<1>5. CASE p
  <2>1. PICK j \in 1 .. i : q[j].type = "state" /\ q[j].activity # "matchmaking"
    BY <1>2, <1>5
  <2>2. j # 1
    BY <1>5, <2>1
  <2>3. j \in 2 .. Len(q) /\ i \in 2 .. Len(q) /\ j - 1 \in 1 .. (i - 1)
    BY <1>1, <1>4, <2>2
  <2> DEFINE k == i - 1
             l == j - 1
  <2>4. k \in DOMAIN t /\ t[k] = q[i] /\ t[l] = q[j] /\ l \in 1 .. k
    BY <1>3, <2>3
  <2> HIDE DEF k, l
  <2> QED BY <1>2, <1>5, <2>1, <2>4 DEF Brings, t
<1>6. CASE ~p
  <2>1. i # 1
    BY <1>2, <1>6
  <2>2. i \in 2 .. Len(q)
    BY <1>1, <1>4, <2>1
  <2> DEFINE k == i - 1
  <2>3. k \in DOMAIN t /\ t[k] = q[i]
    BY <1>3, <2>2
  <2> HIDE DEF k
  <2> QED BY <1>2, <1>6, <2>3 DEF Brings, t
<1> QED BY <1>5, <1>6

LEMMA FreshMore ==
    ASSUME NEW S, NEW q \in Seq(S), NEW r \in Seq(S), NEW m, Fresh(q, m), NoState(r)
    PROVE  Fresh(q \o r, m)
<1> DEFINE s == q \o r
<1>1. /\ DOMAIN q \subseteq DOMAIN s /\ \A i \in DOMAIN q : s[i] = q[i]
      /\ In(s) = In(q) \cup In(r) /\ s \in Seq(S)
  BY InConcat
<1>2. Len(q) \in Nat /\ Len(r) \in Nat /\ DOMAIN q = 1 .. Len(q) /\ DOMAIN r = 1 .. Len(r)
  OBVIOUS
<1>3. DOMAIN s = 1 .. Len(q) + Len(r)
  BY <1>2, ConcatProperties
<1>4. ASSUME NEW i \in DOMAIN s, s[i].type = "state" PROVE i \in DOMAIN q
  <2>1. CASE i <= Len(q)
    BY <1>2, <1>3, <2>1
  <2>2. CASE ~(i <= Len(q))
    <3> DEFINE k == i - Len(q)
    <3>1. k \in DOMAIN r /\ i = Len(q) + k
      BY <1>2, <1>3, <2>2
    <3> HIDE DEF k
    <3>2. s[i] = r[k]
      BY <3>1, InConcat
    <3> QED BY <1>4, <3>1, <3>2 DEF NoState
  <2> QED BY <2>1, <2>2
<1> HIDE DEF s
<1>5. CASE NoState(q)
  <2>1. NoState(s)
    BY <1>1, <1>4, <1>5 DEF NoState
  <2> QED BY <2>1 DEF Fresh, s
<1>6. CASE EndsWith(q, m)
  <2>1. PICK i \in DOMAIN q : q[i] = m /\ m.type = "state" /\ \A j \in DOMAIN q : q[j].type = "state" => j <= i
    BY <1>6 DEF EndsWith
  <2>2. EndsWith(s, m)
    BY <1>1, <1>4, <2>1 DEF EndsWith
  <2> QED BY <2>2 DEF Fresh, s
<1> QED BY <1>5, <1>6 DEF Fresh

LEMMA FreshNew ==
    ASSUME NEW S, NEW q \in Seq(S), NEW r \in Seq(S), NEW m, EndsWith(r, m)
    PROVE  Fresh(q \o r, m)
<1> DEFINE s == q \o r
<1>1. PICK k \in DOMAIN r : r[k] = m /\ m.type = "state" /\ \A j \in DOMAIN r : r[j].type = "state" => j <= k
  BY DEF EndsWith
<1> DEFINE i == Len(q) + k
<1>2. i \in DOMAIN s /\ s[i] = m
  BY <1>1, InConcat
<1>3. Len(q) \in Nat /\ Len(r) \in Nat /\ DOMAIN q = 1 .. Len(q) /\ DOMAIN r = 1 .. Len(r) /\ k \in Nat
  OBVIOUS
<1>4. DOMAIN s = 1 .. Len(q) + Len(r)
  BY <1>3, ConcatProperties
<1>5. ASSUME NEW j \in DOMAIN s, s[j].type = "state" PROVE j <= i
  <2>1. CASE j <= Len(q)
    BY <1>3, <1>4, <2>1
  <2>2. CASE ~(j <= Len(q))
    <3> DEFINE l == j - Len(q)
    <3>1. l \in DOMAIN r /\ j = Len(q) + l
      BY <1>3, <1>4, <2>2
    <3> HIDE DEF l
    <3>2. s[j] = r[l]
      BY <3>1, InConcat
    <3>3. l <= k
      BY <1>1, <1>5, <3>1, <3>2
    <3> QED BY <1>3, <3>1, <3>3
  <2> QED BY <2>1, <2>2
<1> HIDE DEF s, i
<1>6. EndsWith(s, m)
  BY <1>1, <1>2, <1>5 DEF EndsWith
<1> QED BY <1>6 DEF Fresh, s

LEMMA FreshTail ==
    ASSUME NEW S, NEW q \in Seq(S), q # <<>>, NEW m, Fresh(q, m)
    PROVE  /\ Fresh(Tail(q), m)
           /\ q[1].type = "state" /\ q[1] # m => EndsWith(Tail(q), m)
<1> DEFINE t == Tail(q)
<1>1. /\ Len(q) \in Nat /\ Len(q) >= 1 /\ DOMAIN q = 1 .. Len(q) /\ DOMAIN t = 1 .. Len(q) - 1
      /\ \A i \in 1 .. Len(q) - 1 : t[i] = q[i + 1]
  BY HeadTailProperties
<1> HIDE DEF t
<1>2. \A i \in DOMAIN t : i + 1 \in DOMAIN q /\ i + 1 # 1
  BY <1>1
<1>3. CASE NoState(q)
  <2>1. NoState(t)
    BY <1>1, <1>2, <1>3 DEF NoState
  <2>2. q[1].type # "state"
    BY <1>1, <1>3 DEF NoState
  <2> QED BY <2>1, <2>2 DEF Fresh, t
<1>4. CASE EndsWith(q, m)
  <2>1. PICK i \in DOMAIN q : q[i] = m /\ m.type = "state" /\ \A j \in DOMAIN q : q[j].type = "state" => j <= i
    BY <1>4 DEF EndsWith
  <2>2. CASE i = 1
    <3>1. ASSUME NEW j \in DOMAIN t, t[j].type = "state" PROVE FALSE
      <4> DEFINE k == j + 1
      <4>1. k \in DOMAIN q /\ q[k] = t[j] /\ ~(k <= 1)
        BY <1>1
      <4> HIDE DEF k
      <4> QED BY <2>1, <2>2, <3>1, <4>1
    <3> QED BY <2>1, <2>2, <3>1 DEF Fresh, NoState, t
  <2>3. CASE i # 1
    <3> DEFINE l == i - 1
    <3>1. l \in DOMAIN t /\ l + 1 = i /\ t[l] = m
      BY <1>1, <2>1, <2>3
    <3>2. ASSUME NEW j \in DOMAIN t, t[j].type = "state" PROVE j <= l
      <4> DEFINE k == j + 1
      <4>1. k \in DOMAIN q /\ q[k] = t[j]
        BY <1>1
      <4>2. k <= i
        <5> HIDE DEF k
        <5> QED BY <2>1, <3>2, <4>1
      <4> QED BY <1>1, <4>2
    <3> HIDE DEF l
    <3>3. EndsWith(t, m)
      BY <2>1, <3>1, <3>2 DEF EndsWith
    <3> QED BY <3>3 DEF Fresh, t
  <2> QED BY <2>2, <2>3
<1> QED BY <1>3, <1>4 DEF Fresh

LEMMA EndsWithIn == ASSUME NEW q, NEW m, EndsWith(q, m) PROVE m \in In(q) /\ m.type = "state"
BY DEF EndsWith, In

LEMMA FewEnd ==
    /\ \A a : a.type = "state" => EndsWith(<<a>>, a)
    /\ \A a, b : a.type = "state" /\ b.type # "state" => EndsWith(<<a, b>>, a)
    /\ NoState(<<>>) /\ \A a : a.type # "state" => NoState(<<a>>)
<1>1. \A a, b : DOMAIN <<a, b>> = {1, 2} /\ DOMAIN <<a>> = {1}
  OBVIOUS
<1>2. ASSUME NEW a, a.type = "state" PROVE EndsWith(<<a>>, a)
  BY <1>1, <1>2 DEF EndsWith
<1>3. ASSUME NEW a, NEW b, a.type = "state", b.type # "state" PROVE EndsWith(<<a, b>>, a)
  <2>1. <<a, b>>[1] = a /\ <<a, b>>[2] = b
    OBVIOUS
  <2> DEFINE q == <<a, b>>
  <2>2. DOMAIN q = {1, 2} /\ q[1] = a /\ q[2] = b
    BY <1>1, <2>1
  <2> HIDE DEF q
  <2>3. EndsWith(q, a)
    BY <1>3, <2>2 DEF EndsWith
  <2> QED BY <2>3 DEF q
<1>4. \A a : a.type # "state" => NoState(<<a>>)
  BY <1>1 DEF NoState
<1> QED BY <1>2, <1>3, <1>4 DEF NoState

-----------------------------------------------------------------------------
(* What is decided is counted, or on its way *)

\* The match g of the session s is won or lost, and one not yet counted.
Due(s, g) == g > s.since /\ ((g = s.game /\ g \in s.removed) \/ s.truth[g] \in {"win", "loss"})
Uncounted(g) == Due(server, g) /\ app.counted[g] = None

\* The match g is decided, and nothing of it is left to count.
Settled(g) ==
    /\ server.truth[g] # None /\ g \notin server.removed
    /\ app.counted[g] # None \/ server.truth[g] = "none"

\* What m tells of a match is how the session s has it.
Truthful(s, m) ==
    /\ m.type = "state" /\ m.last # NoGame =>
          m.last # s.game /\ s.truth[m.last] # None /\ m.outcome = s.truth[m.last]
    /\ m.type = "over" => IF m.game \in s.removed THEN m.removed
                          ELSE ~m.removed /\ s.truth[m.game] # None /\ m.outcome = s.truth[m.game]

\* The player's app shows the match g, or has left it and is still telling so.
Knows(g) == app.game = g \/ app.leavePending = g \/ \E c \in In(up) : c.game = g

\* A message that tells the outcome of g is on its way.
Told(q, pending, g) == (\E m \in In(q) : m.type = "over" /\ m.game = g) \/ Brings(q, pending, g)

RepeatedCancel(m) == m.type = "reply" /\ m.to = "cancel again"

\* No message does, but the search that the app cancelled is still to be ended, which will.
Held(g) ==
    /\ app.cancelPending /\ server.activity = "matchmaking" /\ server.last = g
    /\ \A m \in In(down) : ~RepeatedCancel(m)

Begins(q) == q # <<>> /\ q[1].type = "state"

Recorded ==
    \A g \in Games : app.counted[g] # None =>
        app.counted[g] = server.truth[g] \/ (app.counted[g] = "loss" /\ g \in server.removed)

NothingIsOpen ==
    ~server.known => server.game = NoGame /\ server.last = NoGame /\ \A g \in Games : ~Uncounted(g)

OpenIsRecent ==
    server.known =>
        /\ \A g \in Games : Uncounted(g) => g \in {server.game, server.last}
        /\ server.game # NoGame /\ Knows(server.game) /\ server.last \in Games => ~Uncounted(server.last)
        /\ \A m \in In(down) : m.type = "state" /\ m.game # NoGame /\ m.game = server.game => m.last = server.last

EndsAreKnown ==
    /\ \A m \in In(down) : Truthful(server, m)
    /\ \A c \in In(up) : c.type = "again" => Settled(c.game)
    /\ \A g \in Games : app.over = g => Settled(g)

CancelsEnd == \A m \in In(down) : RepeatedCancel(m) => m.code = "ok"

StatesAreFresh ==
    app.connected /\ server.known =>
        /\ Fresh(down, StateOf(server))
        /\ app.cancelPending => "cancel again" \in app.calls \/ Begins(down)

OpenIsTold ==
    app.connected /\ server.known =>
        \A g \in Games : Uncounted(g) => Told(down, app.cancelPending, g) \/ Held(g)

CountInv ==
    Recorded /\ NothingIsOpen /\ OpenIsRecent /\ EndsAreKnown /\ CancelsEnd /\ StatesAreFresh /\ OpenIsTold

LEMMA Grows ==
    ASSUME NEW S, NEW q \in Seq(S), NEW r \in Seq(S), NEW p \in BOOLEAN
    PROVE  /\ Begins(q) => Begins(q \o r)
           /\ \A g : Told(q, p, g) \/ Told(r, p, g) => Told(q \o r, p, g)
<1> DEFINE s == q \o r
<1>1. In(s) = In(q) \cup In(r) /\ DOMAIN q \subseteq DOMAIN s /\ \A i \in DOMAIN q : s[i] = q[i]
  BY InConcat
<1>2. ASSUME NEW g, Brings(q, p, g) PROVE Brings(s, p, g)
  BY <1>2, BringsMore
<1>3. ASSUME NEW g, Brings(r, p, g) PROVE Brings(s, p, g)
  <2>1. PICK k \in DOMAIN r : /\ r[k].type = "state" /\ r[k].last = g
                              /\ p => \E j \in 1 .. k : r[j].type = "state" /\ r[j].activity # "matchmaking"
    BY <1>3 DEF Brings
  <2>2. Len(q) + k \in DOMAIN s /\ s[Len(q) + k] = r[k] /\ Len(q) \in Nat /\ DOMAIN r = 1 .. Len(r) /\ Len(r) \in Nat
    BY InConcat
  <2> DEFINE i == Len(q) + k
  <2>3. ASSUME p PROVE \E l \in 1 .. i : s[l].type = "state" /\ s[l].activity # "matchmaking"
    <3>1. PICK j \in 1 .. k : r[j].type = "state" /\ r[j].activity # "matchmaking"
      BY <2>1, <2>3
    <3>2. j \in DOMAIN r
      BY <2>2, <3>1
    <3> DEFINE l == Len(q) + j
    <3>3. s[l] = r[j]
      BY <3>2, InConcat
    <3>4. l \in 1 .. i
      BY <2>2, <3>1
    <3> HIDE DEF l, s, i
    <3> QED BY <3>1, <3>3, <3>4
  <2>4. i \in DOMAIN s /\ s[i].type = "state" /\ s[i].last = g
    BY <2>1, <2>2
  <2> HIDE DEF i, s
  <2> QED BY <2>3, <2>4 DEF Brings
<1>4. ASSUME Begins(q) PROVE Begins(s)
  <2>1. 1 \in DOMAIN q
    BY <1>4 DEF Begins
  <2>2. 1 \in DOMAIN s /\ s[1] = q[1]
    BY <1>1, <2>1
  <2> HIDE DEF s
  <2>3. s # <<>>
    BY <2>2
  <2> QED BY <1>4, <2>2, <2>3 DEF Begins
<1> HIDE DEF s
<1> QED BY <1>1, <1>2, <1>3, <1>4 DEF Told, s

LEMMA TailKeeps ==
    ASSUME NEW S, NEW q \in Seq(S), q # <<>>
    PROVE  \A m \in In(q) : m = Head(q) \/ m \in In(Tail(q))
<1> DEFINE t == Tail(q)
<1>1. /\ Len(q) \in Nat /\ DOMAIN q = 1 .. Len(q) /\ DOMAIN t = 1 .. Len(q) - 1 /\ Head(q) = q[1]
      /\ \A i \in 1 .. Len(q) - 1 : t[i] = q[i + 1]
  BY HeadTailProperties
<1> HIDE DEF t
<1> SUFFICES ASSUME NEW i \in DOMAIN q, i # 1 PROVE q[i] \in In(t)
  BY <1>1 DEF In, t
<1> DEFINE k == i - 1
<1>2. k \in DOMAIN t /\ t[k] = q[i]
  BY <1>1
<1> HIDE DEF k
<1> QED BY <1>2 DEF In

LEMMA StateIsTruthful ==
    ASSUME NEW s \in Servers, s.game # NoGame => s.last < s.game, s.last # NoGame => s.truth[s.last] # None
    PROVE  Truthful(s, StateOf(s))
<1>1. s.game \in Nat /\ s.last \in Nat
  BY ServerFields, NumbersFit
<1>2. s.last # NoGame => s.last # s.game
  BY <1>1
<1> QED BY <1>2, StateFits DEF Truthful

LEMMA OverIsTruthful == ASSUME NEW s \in Servers, HasEnded(s) PROVE Truthful(s, Over(s))
<1>1. /\ Over(s).type = "over" /\ Over(s).game = s.game /\ (Over(s).removed <=> s.game \in s.removed)
      /\ Over(s).outcome = s.truth[s.game]
  BY OverFits DEF HasEnded
<1> QED BY <1>1 DEF HasEnded, Truthful

\* The server removes nobody but who is away, and from no match but theirs, undecided.
HistoryGrows ==
    \/ SameHistory
    \/ /\ ~app.connected /\ server.truth[server.game] = None
       /\ server'.removed = server.removed \cup {server.game} /\ server'.since = server.since

\* A step of a server that has the session, which sends r.
LEMMA ServerCounts ==
    ASSUME Sane, CountInv, server.known, server'.known = server.known, ServerGoesOn, UNCHANGED app, In(up') \subseteq In(up),
           NEW r \in Seq(Messages),
           app.connected => down' = down \o r, ~app.connected => down' = <<>>,
           EndsWith(r, StateOf(server')) \/ (NoState(r) /\ StateOf(server') = StateOf(server)),
           \A m \in In(r) : RepeatedCancel(m) => m.code = "ok",
           \A m \in In(r) : m.type = "state" => m = StateOf(server'),
           \A m \in In(r) : m.type = "over" => Truthful(server', m),
           \A g \in Games : server.truth[g] # None => server'.truth[g] = server.truth[g], HistoryGrows,
           \A g \in Games : Due(server', g) /\ app.counted[g] = None => g \in {server'.game, server'.last},
           server'.game # NoGame /\ Knows(server'.game) /\ server'.last \in Games =>
               ~(Due(server', server'.last) /\ app.counted[server'.last] = None),
           \/ server'.game = NoGame
           \/ server'.game = server.game /\ server'.last = server.last
           \/ server'.game = server.dealt + 1,
           app.connected => \A g \in Games : Due(server', g) /\ app.counted[g] = None =>
               \/ Told(r, app.cancelPending, g)
               \/ /\ Uncounted(g)
                  /\ Held(g) => /\ server'.activity = "matchmaking" /\ server'.last = g
                                /\ \A m \in In(r) : ~RepeatedCancel(m)
    PROVE  CountInv'
<1>0. /\ server.dealt \in Nat /\ app' = app /\ app \in Apps /\ down \in Seq(Messages) /\ server' \in Servers
      /\ app.cancelPending \in BOOLEAN
  BY Bounds, AppFields DEF Sane, Typed, ServerGoesOn
<1>1. In(down') \subseteq In(down) \cup In(r)
  <2>0. In(down \o r) = In(down) \cup In(r)
    BY <1>0, InConcat
  <2>1. CASE app.connected
    <3>1. down' = down \o r
      BY <2>1
    <3> QED BY <2>0, <3>1
  <2>2. CASE ~app.connected
    BY <2>2, InFew
  <2> QED BY <2>1, <2>2
<1>2. Recorded'
  BY <1>0 DEF CountInv, Recorded, HistoryGrows, SameHistory
<1>3. NothingIsOpen'
  BY DEF NothingIsOpen
<1>4. \A m \in In(down) : m.type = "state" => m.game \in 0 .. server.dealt
  BY DEF Sane, QueuesNumbered, Dealt
<1>5. /\ StateOf(server').game = server'.game /\ StateOf(server').last = server'.last
  BY <1>0, StateFits
<1>6. OpenIsRecent'
  <2>1. \A g \in Games : Uncounted(g)' => g \in {server'.game, server'.last}
    BY <1>0 DEF Uncounted
  <2>2. Knows(server.game)' => Knows(server'.game)
    BY <1>0 DEF Knows
  <2>3. server'.game # NoGame /\ Knows(server.game)' /\ server'.last \in Games => ~Uncounted(server.last)'
    BY <1>0, <2>2 DEF Uncounted
  <2>4. ASSUME NEW m \in In(down'), m.type = "state", m.game # NoGame, m.game = server'.game
        PROVE  m.last = server'.last
    <3>1. CASE m \in In(r)
      BY <1>5, <2>4, <3>1
    <3>2. CASE m \in In(down)
      <4>1. m.game # server.dealt + 1
        BY <1>0, <1>4, <2>4, <3>2
      <4> QED BY <2>4, <3>2, <4>1 DEF CountInv, OpenIsRecent
    <3> QED BY <1>1, <2>4, <3>1, <3>2
  <2> QED BY <2>1, <2>3, <2>4 DEF OpenIsRecent
<1>7. EndsAreKnown'
  <2>1. ASSUME NEW m \in In(down') PROVE Truthful(server', m)
    <3>1. CASE m \in In(r)
      <4>1. ASSUME m.type = "state" PROVE Truthful(server', m)
        <5>1. m = StateOf(server')
          BY <3>1, <4>1
        <5> QED BY <1>0, <5>1, StateIsTruthful DEF ServerGoesOn, ServerNumbered
      <4> QED BY <3>1, <4>1 DEF Truthful
    <3>2. CASE m \in In(down) /\ app.connected
      <4>1. m \in Messages /\ Dealt(m, server.dealt) /\ Truthful(server, m)
        <5>1. m \in Messages
          BY <1>0, <3>2 DEF In
        <5>2. Dealt(m, server.dealt)
          BY <3>2 DEF Sane, QueuesNumbered
        <5>3. Truthful(server, m)
          BY <3>2 DEF CountInv, EndsAreKnown
        <5> QED BY <5>1, <5>2, <5>3
      <4>2. SameHistory
        BY <3>2 DEF HistoryGrows
      <4>3. ASSUME m.type = "state", m.last # NoGame PROVE m.last \in Games /\ m.last # server'.game
        <5>1. m.last \in Games
          BY <4>1, <4>3, MessageFields DEF Numbers, Games, NoGame
        <5>2. m.last # server.dealt + 1 /\ m.last # server.game
          BY <1>0, <4>1, <4>3 DEF Dealt, Truthful
        <5> QED BY <4>3, <5>1, <5>2
      <4>4. m.type = "over" => m.game \in Games
        BY <4>1, MessageFields
      <4> QED BY <4>1, <4>2, <4>3, <4>4 DEF Truthful, SameHistory
    <3>3. ~app.connected => In(down') = {}
      BY InFew
    <3> QED BY <1>1, <3>1, <3>2, <3>3
  <2>2. \A g \in Games : Settled(g) => Settled(g)'
    BY <1>0 DEF Settled, HistoryGrows, SameHistory
  <2>3. \A n \in 0 .. server.dealt : n # NoGame => n \in Games
    <3>1. server.dealt \in Numbers
      BY Bounds, ServerFields
    <3> QED BY <3>1 DEF Games, Numbers, NoGame
  <2>4. ASSUME NEW c \in In(up'), c.type = "again" PROVE Settled(c.game)'
    <3>1. Settled(c.game) /\ c.game \in 0 .. server.dealt /\ c.game # NoGame
      BY <2>4 DEF CountInv, EndsAreKnown, Sane, QueuesNumbered
    <3> QED BY <2>2, <2>3, <3>1
  <2>5. \A g \in Games : app'.over = g => Settled(g)'
    BY <1>0, <2>2 DEF CountInv, EndsAreKnown
  <2> QED BY <2>1, <2>4, <2>5 DEF EndsAreKnown
<1>8. CancelsEnd'
  BY <1>1 DEF CountInv, CancelsEnd
<1>9. ASSUME app'.connected
      PROVE  /\ Fresh(down', StateOf(server'))
             /\ app'.cancelPending => "cancel again" \in app'.calls \/ Begins(down')
             /\ \A g \in Games : Uncounted(g)' => Told(down', app'.cancelPending, g) \/ Held(g)'
  <2>1. down' = down \o r /\ app.connected
    BY <1>0, <1>9
  <2>2. Fresh(down', StateOf(server'))
    <3>1. CASE EndsWith(r, StateOf(server'))
      BY <1>0, <2>1, <3>1, FreshNew
    <3>2. CASE NoState(r) /\ StateOf(server') = StateOf(server)
      <4>1. Fresh(down, StateOf(server))
        BY <2>1 DEF CountInv, StatesAreFresh
      <4> QED BY <1>0, <2>1, <3>2, <4>1, FreshMore
    <3> QED BY <3>1, <3>2
  <2>3. app'.cancelPending => "cancel again" \in app'.calls \/ Begins(down')
    BY <1>0, <2>1, Grows DEF CountInv, StatesAreFresh
  <2>4. ASSUME NEW g \in Games, Uncounted(g)' PROVE Told(down', app'.cancelPending, g) \/ Held(g)'
    <3>1. Due(server', g) /\ app.counted[g] = None
      BY <1>0, <2>4 DEF Uncounted
    <3>2. CASE Told(r, app.cancelPending, g) \/ Told(down, app.cancelPending, g)
      BY <1>0, <2>1, <3>2, Grows
    <3>3. CASE Uncounted(g) /\ Held(g) /\ ~Told(r, app.cancelPending, g)
      <4>1. server'.activity = "matchmaking" /\ server'.last = g /\ \A m \in In(r) : ~RepeatedCancel(m)
        BY <2>1, <3>1, <3>3
      <4> QED BY <1>0, <1>1, <3>3, <4>1 DEF Held
    <3>4. Uncounted(g) => Told(down, app.cancelPending, g) \/ Held(g)
      BY <2>1 DEF CountInv, OpenIsTold
    <3> QED BY <2>1, <3>1, <3>2, <3>3, <3>4
  <2> QED BY <2>2, <2>3, <2>4
<1> QED BY <1>2, <1>3, <1>6, <1>7, <1>8, <1>9 DEF CountInv, StatesAreFresh, OpenIsTold

LEMMA GamesAreDealt == \A g \in Games : g # NoGame
BY DEF Games, NoGame

\* What the server sends with a state it is in.
LEMMA AnswerFits ==
    ASSUME NEW s \in Servers, NEW to \in Calls, NEW r, r = <<StateOf(s), Reply(to, "ok")>>
    PROVE  /\ r \in Seq(Messages) /\ In(r) = {StateOf(s), Reply(to, "ok")} /\ EndsWith(r, StateOf(s))
           /\ \A m \in In(r) : RepeatedCancel(m) => m.code = "ok"
           /\ \A m \in In(r) : m.type = "state" => m = StateOf(s)
           /\ \A m \in In(r) : m.type # "over"
           /\ \A g, p : s.last = g /\ s.activity # "matchmaking" => Told(r, p, g)
<1>0. "ok" \in Codes
  BY DEF Codes
<1>1. /\ StateOf(s) \in Messages /\ StateOf(s).type = "state"
      /\ StateOf(s).activity = s.activity /\ StateOf(s).last = s.last
  BY StateFits
<1>2. /\ Reply(to, "ok") \in Messages /\ Reply(to, "ok").type = "reply"
      /\ Reply(to, "ok").to = to /\ Reply(to, "ok").code = "ok"
  BY <1>0, ReplyFits
<1> DEFINE a == StateOf(s)
           b == Reply(to, "ok")
<1> HIDE DEF a, b
<1>3. r = <<a, b>>
  BY DEF a, b
<1>4. r \in Seq(Messages) /\ In(r) = {a, b}
  BY <1>1, <1>2, <1>3, InFew DEF a, b
<1>5. EndsWith(r, a)
  BY <1>1, <1>2, <1>3, FewEnd DEF a, b
<1>6. 1 \in DOMAIN r /\ r[1] = a /\ 1 \in 1 .. 1
  BY <1>3
<1>7. ASSUME NEW g, NEW p, s.last = g, s.activity # "matchmaking" PROVE Told(r, p, g)
  <2>1. a.type = "state" /\ a.last = g /\ a.activity # "matchmaking"
    BY <1>1, <1>7 DEF a
  <2>2. Brings(r, p, g)
    BY <1>6, <2>1 DEF Brings
  <2> QED BY <2>2 DEF Told
<1>8. a.type = "state" /\ b.type = "reply" /\ b.code = "ok"
  BY <1>1, <1>2 DEF a, b
<1>9. /\ \A m \in In(r) : RepeatedCancel(m) => m.code = "ok"
      /\ \A m \in In(r) : m.type = "state" => m = a
      /\ \A m \in In(r) : m.type # "over"
  BY <1>4, <1>8 DEF RepeatedCancel
<1> QED BY <1>4, <1>5, <1>7, <1>9 DEF a, b

LEMMA NewsFits ==
    ASSUME NEW s \in Servers, NEW r, r = <<StateOf(s)>>
    PROVE  /\ r \in Seq(Messages) /\ In(r) = {StateOf(s)} /\ EndsWith(r, StateOf(s))
           /\ \A m \in In(r) : ~RepeatedCancel(m)
           /\ \A m \in In(r) : m.type = "state" => m = StateOf(s)
           /\ \A m \in In(r) : m.type # "over"
           /\ \A g, p : s.last = g /\ s.activity # "matchmaking" => Told(r, p, g)
<1>1. /\ StateOf(s) \in Messages /\ StateOf(s).type = "state"
      /\ StateOf(s).activity = s.activity /\ StateOf(s).last = s.last
  BY StateFits
<1> DEFINE a == StateOf(s)
<1> HIDE DEF a
<1>3. r = <<a>>
  BY DEF a
<1>4. r \in Seq(Messages) /\ In(r) = {a}
  BY <1>1, <1>3, InFew DEF a
<1>5. EndsWith(r, a)
  BY <1>1, <1>3, FewEnd DEF a
<1>6. 1 \in DOMAIN r /\ r[1] = a /\ 1 \in 1 .. 1
  BY <1>3
<1>7. ASSUME NEW g, NEW p, s.last = g, s.activity # "matchmaking" PROVE Told(r, p, g)
  <2>1. a.type = "state" /\ a.last = g /\ a.activity # "matchmaking"
    BY <1>1, <1>7 DEF a
  <2>2. Brings(r, p, g)
    BY <1>6, <2>1 DEF Brings
  <2> QED BY <2>2 DEF Told
<1> QED BY <1>1, <1>4, <1>5, <1>7 DEF a, RepeatedCancel

Refusal(r, to, code) ==
    /\ r \in Seq(Messages) /\ NoState(r)
    /\ \A m \in In(r) : m.type = "reply" /\ m.to = to /\ m.code = code

LEMMA RefusalFits ==
    ASSUME NEW to \in Calls, NEW code \in Codes
    PROVE  Refusal(<<Reply(to, code)>>, to, code)
<1>1. /\ Reply(to, code) \in Messages /\ Reply(to, code).type = "reply"
      /\ Reply(to, code).to = to /\ Reply(to, code).code = code
  BY ReplyFits
<1> DEFINE b == Reply(to, code)
<1> HIDE DEF b
<1>2. <<b>> \in Seq(Messages) /\ In(<<b>>) = {b} /\ NoState(<<b>>)
  BY <1>1, InFew, FewEnd DEF b
<1> QED BY <1>1, <1>2 DEF b, Refusal

\* A command that changes nothing is answered.
LEMMA RefusalCounts ==
    ASSUME Sane, CountInv, server.known, ServerGoesOn, UNCHANGED <<server, app>>, In(up') \subseteq In(up),
           NEW to \in Calls, NEW code \in Codes, Sends(<<Reply(to, code)>>),
           to = "cancel again" => code = "ok" /\ server.activity # "matchmaking"
    PROVE  CountInv'
<1> DEFINE r == <<Reply(to, code)>>
<1>0. Refusal(r, to, code)
  BY RefusalFits
<1>2. app.connected => down' = down \o r
  BY DEF Sends
<1>3. ~app.connected => down' = <<>>
  BY DEF Sends
<1> HIDE DEF r
<1>1. /\ r \in Seq(Messages) /\ NoState(r)
      /\ \A m \in In(r) : m.type = "reply" /\ m.to = to /\ m.code = code
  BY <1>0 DEF Refusal
<1>4. server' = server /\ StateOf(server') = StateOf(server)
  OBVIOUS
<1>5. \A m \in In(r) : RepeatedCancel(m) => to = "cancel again" /\ m.code = "ok"
  BY <1>1 DEF RepeatedCancel
<1>6. \A g \in Games : Due(server', g) /\ app.counted[g] = None => g \in {server'.game, server'.last}
  BY <1>4 DEF CountInv, OpenIsRecent, Uncounted
<1>7. server'.game # NoGame /\ Knows(server'.game) /\ server'.last \in Games =>
          ~(Due(server', server'.last) /\ app.counted[server'.last] = None)
  BY <1>4 DEF CountInv, OpenIsRecent, Uncounted
<1>8. \A g \in Games : Due(server', g) /\ app.counted[g] = None =>
          /\ Uncounted(g)
          /\ Held(g) => /\ server'.activity = "matchmaking" /\ server'.last = g
                        /\ \A m \in In(r) : ~RepeatedCancel(m)
  BY <1>4, <1>5 DEF Uncounted, Held
<1>9. HistoryGrows /\ \A m \in In(r) : m.type # "over"
  BY <1>1, <1>4 DEF HistoryGrows, SameHistory
<1> QED BY <1>1, <1>2, <1>3, <1>4, <1>5, <1>6, <1>7, <1>8, <1>9, ServerCounts

LEMMA LeavesCounts ==
    ASSUME Sane, CountInv, server.known, UNCHANGED app, In(up') \subseteq In(up),
           NEW c \in In(up), c.game \in Games, c.type \in {"leave", "leave again"}, Leaves(c.game, c.type)
    PROVE  CountInv'
<1> DEFINE g == c.game
           to == c.type
<1>0. g \in Games /\ to \in Calls /\ to # "cancel again" /\ "not_found" \in Codes /\ Leaves(g, to)
  BY DEF Calls, Repeats, Codes
<1>1. Knows(g)
  BY DEF Knows
<1> HIDE DEF g, to
<1>2. CASE server.game # g
  BY <1>0, <1>2, LeavesFits, RefusalCounts
<1>3. CASE server.game = g
  <2>1. /\ ServerGoesOn
        /\ server'.activity = "none" /\ server'.game = NoGame /\ server'.last = g
        /\ server'.known = server.known /\ server'.dealt = server.dealt
        /\ server'.truth[g] = (IF server.truth[g] = None THEN "loss" ELSE server.truth[g])
        /\ \A h \in Games : h # g => server'.truth[h] = server.truth[h]
        /\ SameHistory
        /\ Sends(<<StateOf(server'), Reply(to, "ok")>>)
    BY <1>0, <1>3, LeavesFits
  <2> DEFINE r == <<StateOf(server'), Reply(to, "ok")>>
  <2>2. server' \in Servers
    BY <2>1 DEF ServerGoesOn
  <2>3. /\ r \in Seq(Messages) /\ EndsWith(r, StateOf(server'))
        /\ \A m \in In(r) : RepeatedCancel(m) => m.code = "ok"
        /\ \A m \in In(r) : m.type = "state" => m = StateOf(server')
        /\ \A m \in In(r) : m.type # "over"
        /\ \A h, p : server'.last = h /\ server'.activity # "matchmaking" => Told(r, p, h)
    BY <1>0, <2>2, AnswerFits
  <2>4. app.connected => down' = down \o r
    BY <2>1 DEF Sends
  <2>5. ~app.connected => down' = <<>>
    BY <2>1 DEF Sends
  <2> HIDE DEF r
  <2>6. ASSUME NEW h \in Games, server.truth[h] # None PROVE server'.truth[h] = server.truth[h]
    <3>1. CASE h = g
      BY <2>1, <2>6, <3>1
    <3>2. CASE h # g
      BY <2>1, <3>2
    <3> QED BY <3>1, <3>2
  <2>7. g # NoGame
    BY <1>0, GamesAreDealt
  <2>8. \A h \in Games : Due(server', h) /\ app.counted[h] = None => h = g
    <3>1. ASSUME NEW h \in Games, h # g, Due(server', h), app.counted[h] = None PROVE FALSE
      <4>1. Uncounted(h)
        BY <2>1, <3>1, GamesAreDealt DEF Uncounted, Due, SameHistory
      <4>2. h = server.last
        BY <1>3, <3>1, <4>1 DEF CountInv, OpenIsRecent
      <4> QED BY <1>1, <1>3, <2>7, <3>1, <4>1, <4>2 DEF CountInv, OpenIsRecent
    <3> QED BY <3>1
  <2>9. \A h \in Games : Due(server', h) /\ app.counted[h] = None => Told(r, app.cancelPending, h)
    BY <2>1, <2>3, <2>8
  <2>10. \A h \in Games : Due(server', h) /\ app.counted[h] = None => h \in {server'.game, server'.last}
    BY <2>1, <2>8
  <2>11. HistoryGrows
    BY <2>1 DEF HistoryGrows
  <2> QED BY <2>1, <2>3, <2>4, <2>5, <2>6, <2>9, <2>10, <2>11, ServerCounts
<1> QED BY <1>2, <1>3

\* The player is in no match, or in one less, and what is open is still what was left last.
LEMMA AnswerCounts ==
    ASSUME Sane, CountInv, server.known, ServerGoesOn, UNCHANGED app, In(up') \subseteq In(up),
           server'.known = server.known, server'.game = NoGame, server'.last = server.last, server'.truth = server.truth,
           SameHistory,
           NEW r \in Seq(Messages), Sends(r), EndsWith(r, StateOf(server')),
           \A m \in In(r) : RepeatedCancel(m) => m.code = "ok",
           \A m \in In(r) : m.type = "state" => m = StateOf(server'),
           \A m \in In(r) : m.type # "over",
           server.game # NoGame => Settled(server.game),
           server.activity = "matchmaking" => \A g, p : server'.last = g => Told(r, p, g)
    PROVE  CountInv'
<1>1. app.connected => down' = down \o r
  BY DEF Sends
<1>2. ~app.connected => down' = <<>>
  BY DEF Sends
<1>3. ASSUME NEW g \in Games, Due(server', g), app.counted[g] = None
      PROVE  Uncounted(g) /\ g = server'.last /\ (Held(g) => Told(r, app.cancelPending, g))
  <2>1. g # NoGame /\ server.truth[g] \in {"win", "loss"}
    BY <1>3, GamesAreDealt DEF Due
  <2>2. Uncounted(g)
    BY <1>3, <2>1 DEF Uncounted, Due, SameHistory
  <2>3. g # server.game
    BY <1>3, <2>1 DEF Settled
  <2>4. g = server'.last
    BY <2>2, <2>3 DEF CountInv, OpenIsRecent
  <2> QED BY <2>2, <2>4 DEF Held
<1>4. HistoryGrows
  BY DEF HistoryGrows
<1> QED BY <1>1, <1>2, <1>3, <1>4, ServerCounts

LEMMA SearchesCounts ==
    ASSUME Sane, CountInv, server.known, UNCHANGED app, In(up') \subseteq In(up),
           NEW free \in BOOLEAN, NEW to \in Calls, to # "cancel again", Searches(free, to),
           free => server.activity # "matchmaking" /\ (server.game # NoGame => Settled(server.game))
    PROVE  CountInv'
<1>0. "refused" \in Codes
  BY DEF Codes
<1>1. CASE ~free
  BY <1>0, <1>1, SearchesFits, RefusalCounts
<1>2. CASE free
  <2>1. /\ ServerGoesOn
        /\ server'.activity = "matchmaking" /\ server'.game = NoGame /\ server'.last = server.last
        /\ server'.known = server.known /\ server'.dealt = server.dealt /\ server'.truth = server.truth
        /\ SameHistory /\ Sends(<<StateOf(server'), Reply(to, "ok")>>)
    BY <1>2, SearchesFits
  <2> DEFINE r == <<StateOf(server'), Reply(to, "ok")>>
  <2>2. server' \in Servers
    BY <2>1 DEF ServerGoesOn
  <2>3. /\ r \in Seq(Messages) /\ EndsWith(r, StateOf(server'))
        /\ \A m \in In(r) : RepeatedCancel(m) => m.code = "ok"
        /\ \A m \in In(r) : m.type = "state" => m = StateOf(server')
        /\ \A m \in In(r) : m.type # "over"
    BY <2>2, AnswerFits
  <2>4. Sends(r)
    BY <2>1
  <2> HIDE DEF r
  <2> QED BY <1>2, <2>1, <2>3, <2>4, AnswerCounts
<1> QED BY <1>1, <1>2

LEMMA CancelsCounts ==
    ASSUME Sane, CountInv, server.known, UNCHANGED app, In(up') \subseteq In(up), NEW to \in Calls, Cancels(to)
    PROVE  CountInv'
<1>0. "ok" \in Codes
  BY DEF Codes
<1>1. CASE server.activity # "matchmaking"
  BY <1>0, <1>1, CancelsFits, RefusalCounts
<1>2. CASE server.activity = "matchmaking"
  <2>1. /\ ServerGoesOn
        /\ server'.activity = "none" /\ server'.game = NoGame /\ server'.last = server.last
        /\ server'.known = server.known /\ server'.dealt = server.dealt /\ server'.truth = server.truth
        /\ server.game = NoGame /\ SameHistory /\ Sends(<<StateOf(server'), Reply(to, "ok")>>)
    BY <1>2, CancelsFits
  <2> DEFINE r == <<StateOf(server'), Reply(to, "ok")>>
  <2>2. server' \in Servers
    BY <2>1 DEF ServerGoesOn
  <2>3. /\ r \in Seq(Messages) /\ EndsWith(r, StateOf(server'))
        /\ \A m \in In(r) : RepeatedCancel(m) => m.code = "ok"
        /\ \A m \in In(r) : m.type = "state" => m = StateOf(server')
        /\ \A m \in In(r) : m.type # "over"
        /\ \A g, p : server'.last = g /\ server'.activity # "matchmaking" => Told(r, p, g)
    BY <2>2, AnswerFits
  <2>4. Sends(r)
    BY <2>1
  <2>5. \A g, p : server'.last = g => Told(r, p, g)
    BY <2>1, <2>3
  <2> HIDE DEF r
  <2> QED BY <2>1, <2>3, <2>4, <2>5, AnswerCounts
<1> QED BY <1>1, <1>2

LEMMA HandleCounts == ASSUME Sane, CountInv, HandleCommand PROVE CountInv'
<1> DEFINE c == Head(up)
<1>1. /\ c \in Commands /\ c \in In(up) /\ server.known /\ In(up') \subseteq In(up) /\ UNCHANGED app
      /\ \/ c.type = "join" /\ Searches(server.activity = "none", c.type)
         \/ c.type = "again" /\ Searches(server.game = c.game /\ server.truth[c.game] # None, c.type)
         \/ c.type \in {"cancel", "cancel again"} /\ Cancels(c.type)
         \/ c.type \in {"leave", "leave again"} /\ Leaves(c.game, c.type)
  BY Handled DEF Sane
<1> HIDE DEF c
<1>2. c.type \in Calls /\ c.game \in Numbers
  BY <1>1 DEF Commands
<1>3. c.type \in {"leave", "leave again", "again"} => c.game # NoGame /\ c.game \in Games
  <2>1. c.type \in {"leave", "leave again", "again"} => c.game # NoGame
    BY <1>1 DEF Sane, QueuesNumbered
  <2>2. c.game # NoGame => c.game \in Games
    BY <1>2 DEF Numbers, Games, NoGame
  <2> QED BY <2>1, <2>2
<1>4. CASE c.type = "join" /\ Searches(server.activity = "none", c.type)
  <2>1. server.activity = "none" => server.activity # "matchmaking" /\ server.game = NoGame
    BY DEF Sane, ServerNumbered
  <2> DEFINE free == server.activity = "none"
  <2>2. /\ free \in BOOLEAN /\ Searches(free, c.type)
        /\ free => server.activity # "matchmaking" /\ (server.game # NoGame => Settled(server.game))
    BY <1>4, <2>1
  <2> HIDE DEF free
  <2> QED BY <1>1, <1>2, <1>4, <2>2, SearchesCounts
<1>5. CASE c.type = "again" /\ Searches(server.game = c.game /\ server.truth[c.game] # None, c.type)
  <2> DEFINE free == server.game = c.game /\ server.truth[c.game] # None
  <2>1. free => server.activity # "matchmaking" /\ (server.game # NoGame => Settled(server.game))
    <3>1. Settled(c.game)
      BY <1>1, <1>5 DEF CountInv, EndsAreKnown
    <3>2. c.game # NoGame
      BY <1>3, <1>5
    <3> QED BY <3>1, <3>2 DEF Sane, ServerNumbered
  <2>2. free \in BOOLEAN /\ Searches(free, c.type)
    BY <1>5
  <2> HIDE DEF free
  <2> QED BY <1>1, <1>2, <1>5, <2>1, <2>2, SearchesCounts
<1>6. CASE c.type \in {"cancel", "cancel again"} /\ Cancels(c.type)
  BY <1>1, <1>2, <1>6, CancelsCounts
<1>7. CASE c.type \in {"leave", "leave again"} /\ Leaves(c.game, c.type)
  BY <1>1, <1>3, <1>7, LeavesCounts
<1> QED BY <1>1, <1>4, <1>5, <1>6, <1>7

LEMMA DealCounts == ASSUME Sane, CountInv, Deal PROVE CountInv'
<1>1. /\ ServerGoesOn /\ UNCHANGED <<up, app>> /\ server.known
      /\ server.activity = "matchmaking" /\ server.game = NoGame
      /\ server'.activity = "game" /\ server'.game = server.dealt + 1 /\ server'.last = server.last
      /\ server'.known = server.known /\ server'.dealt = server.dealt + 1 /\ server'.truth = server.truth
      /\ SameHistory /\ Sends(<<StateOf(server')>>)
  BY DealFits
<1> DEFINE r == <<StateOf(server')>>
<1>2. server' \in Servers
  BY <1>1 DEF ServerGoesOn
<1>3. /\ r \in Seq(Messages) /\ EndsWith(r, StateOf(server'))
      /\ \A m \in In(r) : ~RepeatedCancel(m)
      /\ \A m \in In(r) : m.type = "state" => m = StateOf(server')
      /\ \A m \in In(r) : m.type # "over"
      /\ \A g, p : server'.last = g /\ server'.activity # "matchmaking" => Told(r, p, g)
  BY <1>2, NewsFits
<1>4. app.connected => down' = down \o r
  BY <1>1 DEF Sends
<1>5. ~app.connected => down' = <<>>
  BY <1>1 DEF Sends
<1> HIDE DEF r
<1>6. ~Knows(server'.game)
  <2>1. /\ app.game \in 0 .. server.dealt /\ app.leavePending \in 0 .. server.dealt /\ server.dealt \in Nat
        /\ \A c \in In(up) : c.game \in 0 .. server.dealt
    BY Bounds DEF Sane, QueuesNumbered
  <2>2. \A n \in 0 .. server.dealt : n # server.dealt + 1
    BY <2>1
  <2> QED BY <1>1, <2>1, <2>2 DEF Knows
<1>7. ASSUME NEW g \in Games, Due(server', g), app.counted[g] = None
      PROVE  Uncounted(g) /\ g = server'.last /\ Told(r, app.cancelPending, g)
  <2>0. server.dealt + 1 \in Games => server.dealt + 1 \notin server.removed
    <3>1. server.dealt \in Nat /\ server.dealt + 1 > server.dealt
      BY Bounds
    <3> QED BY <3>1 DEF Sane, ServerNumbered
  <2>1. Uncounted(g)
    BY <1>1, <1>7, <2>0 DEF Uncounted, Due, SameHistory
  <2>2. g # NoGame
    BY DEF Games, NoGame
  <2>3. g = server'.last
    BY <1>1, <2>1, <2>2 DEF CountInv, OpenIsRecent
  <2> QED BY <1>1, <1>3, <2>1, <2>3
<1>8. In(up') \subseteq In(up) /\ UNCHANGED app
  BY <1>1
<1>9. HistoryGrows /\ \A g \in Games : server.truth[g] # None => server'.truth[g] = server.truth[g]
  BY <1>1 DEF HistoryGrows
<1> QED BY <1>1, <1>3, <1>4, <1>5, <1>6, <1>7, <1>8, <1>9, ServerCounts

LEMMA SearchEndsCounts == ASSUME Sane, CountInv, SearchEnds PROVE CountInv'
<1>1. /\ ServerGoesOn /\ UNCHANGED <<up, app>> /\ server.known
      /\ server.activity = "matchmaking" /\ server.game = NoGame
      /\ server'.activity = "none" /\ server'.game = NoGame /\ server'.last = server.last
      /\ server'.known = server.known /\ server'.dealt = server.dealt /\ server'.truth = server.truth
      /\ SameHistory /\ Sends(<<StateOf(server')>>)
  BY SearchEndsFits
<1> DEFINE r == <<StateOf(server')>>
<1>2. server' \in Servers
  BY <1>1 DEF ServerGoesOn
<1>3. /\ r \in Seq(Messages) /\ EndsWith(r, StateOf(server'))
      /\ \A m \in In(r) : ~RepeatedCancel(m)
      /\ \A m \in In(r) : m.type = "state" => m = StateOf(server')
      /\ \A m \in In(r) : m.type # "over"
      /\ \A g, p : server'.last = g /\ server'.activity # "matchmaking" => Told(r, p, g)
  BY <1>2, NewsFits
<1>4. Sends(r) /\ In(up') \subseteq In(up) /\ UNCHANGED app
  BY <1>1
<1>5. \A g, p : server'.last = g => Told(r, p, g)
  BY <1>1, <1>3
<1> HIDE DEF r
<1> QED BY <1>1, <1>3, <1>4, <1>5, AnswerCounts

LEMMA DecideCounts == ASSUME Sane, CountInv, Decide PROVE CountInv'
<1> DEFINE g == server.game
           over == Over(server')
<1>1. /\ ServerGoesOn /\ UNCHANGED <<up, app>> /\ server.known
      /\ g \in Games /\ server.truth[g] = None
      /\ server'.activity = server.activity /\ server'.game = g /\ server'.last = server.last
      /\ server'.known = server.known /\ server'.dealt = server.dealt
      /\ server'.truth[g] # None
      /\ \A h \in Games : h # g => server'.truth[h] = server.truth[h]
      /\ SameHistory
      /\ app.connected => \E messages \in Seq(Messages) :
            /\ down' = down \o messages /\ In(down') = In(down) \cup In(messages)
            /\ In(messages) = {over}
  BY DecideFits
<1>2. ~app.connected => down' = <<>>
  BY DEF Decide, Sends
<1>3. over \in Messages /\ over.type = "over" /\ over.game = g /\ Truthful(server', over)
  <2>1. server' \in Servers /\ server'.game # NoGame /\ HasEnded(server')
    BY <1>1, GamesAreDealt DEF ServerGoesOn, HasEnded
  <2> QED BY <1>1, <2>1, OverFits, OverIsTruthful
<1> HIDE DEF g, over
<1>4. PICK r \in Seq(Messages) : In(r) = {over} /\ (app.connected => down' = down \o r)
  <2>1. CASE app.connected
    BY <1>1, <2>1
  <2>2. CASE ~app.connected
    <3>1. <<over>> \in Seq(Messages)
      BY <1>3
    <3> QED BY <2>2, <3>1, InFew
  <2> QED BY <2>1, <2>2
<1>5. NoState(r)
  BY <1>3, <1>4 DEF NoState, In
<1>6. server.last # g
  <2>1. g # NoGame /\ g \in Nat
    BY <1>1 DEF Games, NoGame
  <2>2. server.last < g
    BY <2>1 DEF Sane, ServerNumbered, g
  <2>3. server.last \in Nat
    BY Bounds, ServerFields, NumbersFit
  <2> QED BY <2>1, <2>2, <2>3
<1>7. StateOf(server') = StateOf(server)
  <2>1. server.last # NoGame => server.last \in Games
    BY Bounds, ServerFields DEF Numbers, Games, NoGame
  <2> QED BY <1>1, <1>6, <2>1 DEF StateOf, g
<1>8. \A m \in In(r) : m.type = "over" /\ m.game = g
  BY <1>3, <1>4
<1>9. \A p : Told(r, p, g)
  BY <1>3, <1>4 DEF Told
<1>10. \A h \in Games : h # g /\ Due(server', h) /\ app.counted[h] = None => Uncounted(h)
  BY <1>1 DEF Uncounted, Due, SameHistory, g
<1>11. \A h \in Games : Due(server', h) /\ app.counted[h] = None => h \in {server'.game, server'.last}
  BY <1>1, <1>10 DEF CountInv, OpenIsRecent, g
<1>12. server'.game # NoGame /\ Knows(server'.game) /\ server'.last \in Games =>
          ~(Due(server', server'.last) /\ app.counted[server'.last] = None)
  BY <1>1, <1>6, <1>10 DEF CountInv, OpenIsRecent, g
<1>13. \A h \in Games : Due(server', h) /\ app.counted[h] = None =>
          \/ Told(r, app.cancelPending, h)
          \/ /\ Uncounted(h)
             /\ Held(h) => /\ server'.activity = "matchmaking" /\ server'.last = h
                           /\ \A m \in In(r) : ~RepeatedCancel(m)
  <2> SUFFICES ASSUME NEW h \in Games, Due(server', h), app.counted[h] = None,
                      ~Told(r, app.cancelPending, h)
               PROVE  /\ Uncounted(h)
                      /\ Held(h) => /\ server'.activity = "matchmaking" /\ server'.last = h
                                    /\ \A m \in In(r) : ~RepeatedCancel(m)
    OBVIOUS
  <2> QED BY <1>1, <1>8, <1>9, <1>10 DEF Held, RepeatedCancel
<1>14. In(up') \subseteq In(up) /\ UNCHANGED app
  BY <1>1
<1>15. HistoryGrows /\ \A h \in Games : server.truth[h] # None => server'.truth[h] = server.truth[h]
  BY <1>1 DEF HistoryGrows
<1>16. /\ \A m \in In(r) : RepeatedCancel(m) => m.code = "ok"
       /\ \A m \in In(r) : m.type = "state" => m = StateOf(server')
       /\ \A m \in In(r) : m.type = "over" => Truthful(server', m)
  BY <1>3, <1>4, <1>8 DEF RepeatedCancel
<1>17. server'.game = server.game
  BY <1>1 DEF g
<1> QED BY <1>1, <1>2, <1>4, <1>5, <1>7, <1>11, <1>12, <1>13, <1>14, <1>15, <1>16, <1>17, ServerCounts

\* The player is away when removed, and learns of it with the next connection.
LEMMA RemoveCounts == ASSUME Sane, CountInv, Remove PROVE CountInv'
<1>1. /\ ServerGoesOn /\ UNCHANGED <<up, down, app>> /\ server.known /\ ~app.connected
      /\ server.game \in Games /\ server.truth[server.game] = None
      /\ server'.activity = server.activity /\ server'.game = server.game /\ server'.last = server.last
      /\ server'.known = server.known /\ server'.dealt = server.dealt
      /\ server'.truth = server.truth /\ server'.since = server.since
      /\ server'.removed = server.removed \cup {server.game}
  BY RemoveFits
<1>2. PICK r \in Seq(Messages) : r = <<>>
  <2>1. <<>> \in Seq(Messages)
    OBVIOUS
  <2> QED BY <2>1
<1>3. In(r) = {} /\ NoState(r)
  BY <1>2, InFew, FewEnd
<1>4. StateOf(server') = StateOf(server) /\ HistoryGrows
  BY <1>1 DEF StateOf, HistoryGrows
<1>5. ~app.connected => down' = <<>>
  BY <1>1 DEF Sane, AppNumbered
<1>6. \A g \in Games : g # server.game /\ Due(server', g) /\ app.counted[g] = None => Uncounted(g)
  BY <1>1 DEF Due, Uncounted
<1>7. \A g \in Games : Due(server', g) /\ app.counted[g] = None => g \in {server'.game, server'.last}
  BY <1>1, <1>6 DEF CountInv, OpenIsRecent
<1>8. server.last # server.game
  <2>1. server.game # NoGame /\ server.game \in Nat /\ server.last \in Nat
    BY <1>1, GamesAreDealt, Bounds, ServerFields, NumbersFit
  <2> QED BY <2>1 DEF Sane, ServerNumbered
<1>9. server'.game # NoGame /\ Knows(server'.game) /\ server'.last \in Games =>
          ~(Due(server', server'.last) /\ app.counted[server'.last] = None)
  BY <1>1, <1>6, <1>8 DEF CountInv, OpenIsRecent
<1>10. In(up') \subseteq In(up) /\ UNCHANGED app
  BY <1>1
<1> QED BY <1>1, <1>3, <1>4, <1>5, <1>7, <1>9, <1>10, ServerCounts

LEMMA RestartCounts == ASSUME Sane, CountInv, Restart PROVE CountInv'
<1>1. /\ UNCHANGED <<up, down, app>>
      /\ ~server'.known /\ server'.activity = "none" /\ server'.game = NoGame /\ server'.last = NoGame
      /\ server'.since = server.dealt /\ server'.truth = server.truth /\ server'.removed = server.removed
  BY RestartFits
<1>2. \A g \in Games : ~Uncounted(g)'
  BY <1>1, GamesAreDealt DEF Sane, ServerNumbered, Uncounted, Due
<1>3. Recorded' /\ CancelsEnd'
  BY <1>1 DEF CountInv, Recorded, CancelsEnd
<1>4. \A m \in In(down') : Truthful(server', m)
  <2>1. \A m \in In(down) : Truthful(server, m)
    BY DEF CountInv, EndsAreKnown
  <2> QED BY <1>1, <2>1 DEF Truthful
<1>5. \A g : Settled(g)' <=> Settled(g)
  BY <1>1 DEF Settled
<1>6. EndsAreKnown'
  BY <1>1, <1>4, <1>5 DEF CountInv, EndsAreKnown
<1> QED BY <1>1, <1>2, <1>3, <1>6 DEF CountInv, NothingIsOpen, OpenIsRecent, StatesAreFresh, OpenIsTold

\* The app counts the match g as it is.
CountsRightly(g) ==
    /\ app.counted[g] = None /\ app'.counted[g] # None
    /\ app'.counted[g] = server.truth[g] \/ (app'.counted[g] = "loss" /\ g \in server.removed)

\* A step of the app: it may count what was decided, and learns of the
\* server's match only with what was left before it.
LEMMA AppCounts ==
    ASSUME Sane, CountInv, server' = server,
           \A g \in Games : app'.counted[g] = app.counted[g] \/ CountsRightly(g),
           \A m \in In(down') : m \in In(down) \/ m = StateOf(server) \/ (m.type = "over" /\ Truthful(server, m)),
           server.known /\ server.game # NoGame /\ server.last \in Games /\ Uncounted(server.last)' /\ Knows(server.game)'
               => Knows(server.game),
           \A c \in In(up') : c.type = "again" => c \in In(up) \/ (c.game \in Games /\ Settled(c.game)),
           \A g \in Games : app'.over = g => app.over = g \/ Settled(g)',
           StatesAreFresh', OpenIsTold'
    PROVE  CountInv'
<1>0. /\ server.dealt \in Nat /\ app \in Apps /\ server \in Servers /\ down \in Seq(Messages)
      /\ app.over \in 0 .. server.dealt
  BY Bounds DEF Sane, Typed, AppNumbered
<1>1. \A g \in Games : Uncounted(g)' => Uncounted(g)
  BY DEF Uncounted, CountsRightly
<1>2. \A g \in Games : Settled(g) => Settled(g)'
  BY DEF Settled, CountsRightly
<1>3. Recorded'
  BY DEF CountInv, Recorded, CountsRightly
<1>4. NothingIsOpen'
  BY <1>1 DEF CountInv, NothingIsOpen
<1>5. OpenIsRecent'
  <2> SUFFICES ASSUME server.known PROVE OpenIsRecent'
    BY DEF OpenIsRecent
  <2>1. \A g \in Games : Uncounted(g)' => g \in {server.game, server.last}
    BY <1>1 DEF CountInv, OpenIsRecent
  <2>2. server.game # NoGame /\ Knows(server.game)' /\ server.last \in Games => ~Uncounted(server.last)'
    BY <1>1 DEF CountInv, OpenIsRecent
  <2>3. StateOf(server).last = server.last
    BY <1>0, StateFits
  <2>4. \A m \in In(down') : m.type = "state" /\ m.game # NoGame /\ m.game = server.game => m.last = server.last
    BY <2>3 DEF CountInv, OpenIsRecent
  <2> QED BY <2>1, <2>2, <2>4 DEF OpenIsRecent
<1>6. EndsAreKnown'
  <2>1. Truthful(server, StateOf(server))
    BY <1>0, StateIsTruthful DEF Sane, ServerNumbered
  <2>2. \A m \in In(down') : Truthful(server', m)
    BY <2>1 DEF CountInv, EndsAreKnown
  <2>3. \A n \in 0 .. server.dealt : n # NoGame => n \in Games
    <3>1. server.dealt \in Numbers
      BY <1>0, ServerFields
    <3> QED BY <3>1 DEF Games, Numbers, NoGame
  <2>4. ASSUME NEW c \in In(up'), c.type = "again" PROVE Settled(c.game)'
    <3>1. c.game \in Games /\ Settled(c.game)
      BY <2>3, <2>4 DEF CountInv, EndsAreKnown, Sane, QueuesNumbered
    <3> QED BY <1>2, <3>1
  <2>5. \A g \in Games : app'.over = g => Settled(g)'
    BY <1>2 DEF CountInv, EndsAreKnown
  <2> QED BY <2>2, <2>4, <2>5 DEF EndsAreKnown
<1>7. CancelsEnd'
  <2>1. StateOf(server).type = "state"
    BY <1>0, StateFits
  <2> QED BY <2>1 DEF CountInv, CancelsEnd, RepeatedCancel
<1> QED BY <1>3, <1>4, <1>5, <1>6, <1>7 DEF CountInv

\* What makes a queue of commands longer by one that is no "again".
LEMMA AskedTwice ==
    ASSUME NEW to, NEW g, In(up') = In(up) \/ In(up') = In(up) \cup {[type |-> to, game |-> g]}
    PROVE  /\ \A c \in In(up') : c \in In(up) \/ (c.type = to /\ c.game = g)
           /\ \A h : (\E c \in In(up') : c.game = h) => (\E c \in In(up) : c.game = h) \/ h = g
<1> DEFINE new == [type |-> to, game |-> g]
<1>1. new.type = to /\ new.game = g
  OBVIOUS
<1> HIDE DEF new
<1>2. In(up') \subseteq In(up) \cup {new}
  BY DEF new
<1> QED BY <1>1, <1>2

LEMMA ScreenCounts == ASSUME Sane, CountInv, StartSearch \/ PlayAgain \/ CancelSearch \/ LeaveGame PROVE CountInv'
<1>0. Typed /\ AppNumbered
  BY Bounds
\* Whatever is asked, it is of a match the app has on its screen.
<1>1. /\ UNCHANGED <<server, down>> /\ app'.counted = app.counted /\ app'.over = app.over
      /\ app'.connected = app.connected
      /\ app.connected => app'.cancelPending = app.cancelPending /\ app.calls \subseteq app'.calls
      /\ app'.game \in {app.game, NoGame}
      /\ \A h : h # NoGame /\ Knows(h)' => Knows(h)
      /\ \A c \in In(up') : c.type = "again" => c \in In(up) \/ (c.game = app.game /\ app.game # NoGame /\ app.over = app.game)
  <2>1. CASE StartSearch
    <3>1. ScreenIsIdle /\ Asks("join", NoGame)
      BY <1>0, <2>1, StartSearchFits
    <3>2. /\ \A c \in In(up') : c \in In(up) \/ (c.type = "join" /\ c.game = NoGame)
          /\ \A h : (\E c \in In(up') : c.game = h) => (\E c \in In(up) : c.game = h) \/ h = NoGame
      <4>1. In(up') = In(up) \cup {[type |-> "join", game |-> NoGame]}
        BY <3>1 DEF Asks
      <4> QED BY <4>1, AskedTwice
    <3>3. \A h : h # NoGame /\ Knows(h)' => Knows(h)
      BY <3>1, <3>2 DEF Asks, Knows
    <3> QED BY <3>1, <3>2, <3>3 DEF ScreenIsIdle, Asks
  <2>2. CASE PlayAgain
    <3>1. ScreenIsIdle /\ Asks("again", app.game) /\ app.activity = "game" /\ app.over = app.game
      BY <1>0, <2>2, PlayAgainFits
    <3>2. /\ \A c \in In(up') : c \in In(up) \/ (c.type = "again" /\ c.game = app.game)
          /\ \A h : (\E c \in In(up') : c.game = h) => (\E c \in In(up) : c.game = h) \/ h = app.game
      <4>1. In(up') = In(up) \cup {[type |-> "again", game |-> app.game]}
        BY <3>1 DEF Asks
      <4> QED BY <4>1, AskedTwice
    <3>3. \A h : h # NoGame /\ Knows(h)' => Knows(h)
      BY <3>1, <3>2 DEF Asks, Knows
    <3>4. app.game # NoGame
      BY <1>0, <3>1 DEF AppNumbered
    <3> QED BY <3>1, <3>2, <3>3, <3>4 DEF ScreenIsIdle, Asks
  <2>3. CASE CancelSearch
    <3>1. ScreenIsIdle /\ (Asks("cancel", NoGame) \/ Notes(TRUE, app.leavePending))
      BY <1>0, <2>3, CancelSearchFits
    <3>2. /\ \A c \in In(up') : c \in In(up) \/ (c.type = "cancel" /\ c.game = NoGame)
          /\ \A h : (\E c \in In(up') : c.game = h) => (\E c \in In(up) : c.game = h) \/ h = NoGame
      <4>1. In(up') = In(up) \/ In(up') = In(up) \cup {[type |-> "cancel", game |-> NoGame]}
        BY <3>1 DEF Asks, Notes
      <4> QED BY <4>1, AskedTwice
    <3>3. \A h : h # NoGame /\ Knows(h)' => Knows(h)
      BY <3>1, <3>2 DEF Asks, Notes, Knows
    <3> QED BY <3>1, <3>2, <3>3 DEF ScreenIsIdle, Asks, Notes
  <2>4. CASE LeaveGame
    <3>1. ScreenIsIdle /\ (Asks("leave", app.game) \/ Notes(app.cancelPending, app.game))
      BY <1>0, <2>4, LeaveGameFits
    <3>2. /\ \A c \in In(up') : c \in In(up) \/ (c.type = "leave" /\ c.game = app.game)
          /\ \A h : (\E c \in In(up') : c.game = h) => (\E c \in In(up) : c.game = h) \/ h = app.game
      <4>1. In(up') = In(up) \/ In(up') = In(up) \cup {[type |-> "leave", game |-> app.game]}
        BY <3>1 DEF Asks, Notes
      <4> QED BY <4>1, AskedTwice
    <3>3. \A h : h # NoGame /\ Knows(h)' => Knows(h)
      BY <3>1, <3>2 DEF Asks, Notes, Knows
    <3> QED BY <3>1, <3>2, <3>3 DEF ScreenIsIdle, Asks, Notes
  <2> QED BY <2>1, <2>2, <2>3, <2>4
<1>2. StatesAreFresh'
  BY <1>1 DEF CountInv, StatesAreFresh
<1>3. \A g \in Games : Uncounted(g)' <=> Uncounted(g)
  BY <1>1 DEF Uncounted
<1>4. OpenIsTold'
  <2> SUFFICES ASSUME app'.connected, server.known, NEW g \in Games, Uncounted(g)
               PROVE  Told(down', app'.cancelPending, g) \/ Held(g)'
    BY <1>1, <1>3 DEF OpenIsTold
  <2>1. Told(down, app.cancelPending, g) \/ Held(g)
    BY <1>1 DEF CountInv, OpenIsTold
  <2>2. app'.cancelPending = app.cancelPending /\ down' = down /\ server' = server
    BY <1>1
  <2>3. Held(g) => Held(g)'
    BY <2>2 DEF Held
  <2> QED BY <2>1, <2>2, <2>3
<1>5. \A c \in In(up') : c.type = "again" => c \in In(up) \/ (c.game \in Games /\ Settled(c.game))
  <2>1. app.game # NoGame => app.game \in Games
    BY Bounds, AppFields DEF Games, Numbers, NoGame
  <2> QED BY <1>1, <2>1 DEF CountInv, EndsAreKnown
<1>6. server' = server /\ down' = down
  BY <1>1
<1> QED BY <1>1, <1>2, <1>4, <1>5, <1>6, AppCounts

LEMMA OnMessageCounts == ASSUME Sane, CountInv, OnMessage PROVE CountInv'
<1> DEFINE m == Head(down)
<1>0. Typed /\ AppNumbered /\ app \in Apps /\ server \in Servers /\ server.dealt \in Nat /\ down \in Seq(Messages)
      /\ app.cancelPending \in BOOLEAN
  BY Bounds, AppFields DEF Typed
<1>1. /\ m \in Messages /\ m \in In(down) /\ down # <<>> /\ m = down[1]
      /\ down' = Tail(down) /\ In(down') \subseteq In(down) /\ UNCHANGED server /\ app' \in Apps
      /\ \/ m.type = "state" /\ (StillCancelled(m) \/ StillLeft(m) \/ IsShown(m))
         \/ m.type = "reply" /\ m.to \in app.calls /\ ReturnedAs(app, m.to, m.code, app') /\ UNCHANGED up
         \/ m.type = "reply" /\ m.to \notin app.calls /\ UNCHANGED <<app, up>>
         \/ m.type = "over" /\ EndIsShown(m) /\ UNCHANGED up
  BY <1>0, OnMessageFits
<1>2. \A n \in In(down) : n = m \/ n \in In(down')
  BY <1>0, <1>1, TailKeeps
<1> HIDE DEF m
<1>3. /\ app.connected /\ app'.cancelPending \in BOOLEAN /\ server' = server
      /\ m.type = "reply" => m.to \in Calls
      /\ m.type = "over" => m.game \in Games
  BY <1>0, <1>1, AppFields, MessageFields DEF AppNumbered
<1>t. Truthful(server, m) /\ server.truth \in [Games -> Outcomes] /\ (m.type = "over" => m.removed \in BOOLEAN)
  BY <1>0, <1>1, ServerFields, MessageFields DEF CountInv, EndsAreKnown
<1>s. ASSUME NEW g \in Games, m.type = "state", CountedWith(m.last, m.outcome)
      PROVE  /\ app'.counted[g] = app.counted[g] \/ CountsRightly(g)
             /\ m.last = g /\ app'.counted[g] = None => ~Due(server, g)
  <2>1. CASE m.last # g
    BY <1>s, <2>1 DEF CountedWith
  <2>2. CASE m.last = g
    <3>1. app'.counted[g] = Counted(app.counted[g], server.truth[g]) /\ server.truth[g] \in {"win", "loss", "none"} /\ g # server.game
      BY <1>s, <1>t, <2>2, GamesAreDealt DEF CountedWith, Truthful, Outcomes
    <3> QED BY <3>1, NoneAssumption DEF Counted, CountsRightly, Due
  <2> QED BY <2>1, <2>2
<1>e. ASSUME NEW g \in Games, m.type = "over", EndIsShown(m)
      PROVE  /\ app'.counted[g] = app.counted[g] \/ CountsRightly(g)
             /\ m.game = g /\ app'.counted[g] = None => ~Due(server, g)
  <2>1. CASE m.game # g
    BY <1>e, <2>1 DEF EndIsShown, CountedWith
  <2>2. CASE m.game = g /\ m.removed
    <3>1. app'.counted[g] = Counted(app.counted[g], "loss") /\ g \in server.removed
      BY <1>e, <1>t, <2>2 DEF EndIsShown, CountedWith, Truthful
    <3> QED BY <3>1, NoneAssumption DEF Counted, CountsRightly
  <2>3. CASE m.game = g /\ ~m.removed
    <3>1. /\ app'.counted[g] = Counted(app.counted[g], server.truth[g]) /\ g \notin server.removed
          /\ server.truth[g] \in {"win", "loss", "none"}
      BY <1>e, <1>t, <2>3 DEF EndIsShown, CountedWith, Truthful, Outcomes
    <3> QED BY <3>1, NoneAssumption DEF Counted, CountsRightly, Due
  <2> QED BY <2>1, <2>2, <2>3
<1>4. \A g \in Games : app'.counted[g] = app.counted[g] \/ CountsRightly(g)
  BY <1>1, <1>s, <1>e DEF StillCancelled, StillLeft, IsShown, ReturnedAs
<1>5. app'.connected = app.connected /\ (app'.cancelPending => app.cancelPending)
  <2>1. CASE m.type = "reply" /\ m.to \in app.calls /\ ReturnedAs(app, m.to, m.code, app')
    <3>1. CASE m.to = "cancel again"
      BY <2>1, <3>1 DEF ReturnedAs
    <3>2. CASE m.to = "cancel"
      BY <1>3, <2>1, <3>2 DEF ReturnedAs
    <3>3. CASE m.to \notin {"cancel", "cancel again"}
      BY <2>1, <3>3 DEF ReturnedAs
    <3> QED BY <3>1, <3>2, <3>3
  <2> QED BY <1>1, <2>1 DEF StillCancelled, StillLeft, IsShown, EndIsShown
\* The match that is shown now is told with what was left before it.
<1>6. server.known /\ server.game # NoGame /\ server.last \in Games /\ Uncounted(server.last)' /\ Knows(server.game)'
          => Knows(server.game)
  <2> SUFFICES ASSUME server.known, server.game # NoGame, server.last \in Games, Uncounted(server.last)',
                      Knows(server.game)'
               PROVE  Knows(server.game)
    OBVIOUS
  <2>1. CASE m.type = "state" /\ StillCancelled(m)
    <3>1. In(up') = In(up) \/ In(up') = In(up) \cup {[type |-> "cancel again", game |-> NoGame]}
      BY <2>1 DEF StillCancelled
    <3>2. \A h : (\E c \in In(up') : c.game = h) => (\E c \in In(up) : c.game = h) \/ h = NoGame
      BY <3>1, AskedTwice
    <3> QED BY <1>3, <2>1, <3>2 DEF StillCancelled, Knows
  <2>2. CASE m.type = "state" /\ StillLeft(m)
    <3>1. PICK g : g = app.leavePending
      OBVIOUS
    <3>2. In(up') = In(up) \/ In(up') = In(up) \cup {[type |-> "leave again", game |-> g]}
      BY <2>2, <3>1 DEF StillLeft
    <3>3. \A h : (\E c \in In(up') : c.game = h) => (\E c \in In(up) : c.game = h) \/ h = g
      BY <3>2, AskedTwice
    <3> QED BY <1>3, <2>2, <3>1, <3>3 DEF StillLeft, Knows
  <2>3. CASE m.type = "state" /\ IsShown(m)
    <3>1. CASE m.game = server.game
      <4>1. m.last = server.last
        BY <1>1, <2>3, <3>1 DEF CountInv, OpenIsRecent
      <4>2. app'.counted[server.last] # None \/ ~Due(server, server.last)
        BY <1>s, <2>3, <4>1 DEF IsShown
      <4> QED BY <1>3, <4>2 DEF Uncounted
    <3>2. CASE m.game # server.game
      BY <1>3, <2>3, <3>2 DEF IsShown, Knows
    <3> QED BY <3>1, <3>2
  <2>4. CASE m.type = "reply" /\ m.to \in app.calls /\ ReturnedAs(app, m.to, m.code, app') /\ UNCHANGED up
    <3>1. app'.game \in {app.game, NoGame} /\ app'.leavePending \in {app.leavePending, NoGame}
      BY <1>3, <2>4 DEF ReturnedAs, Calls, Repeats
    <3> QED BY <1>3, <2>4, <3>1 DEF Knows
  <2>5. CASE m.type = "reply" /\ UNCHANGED <<app, up>>
    BY <1>3, <2>5 DEF Knows
  <2>6. CASE m.type = "over" /\ EndIsShown(m) /\ UNCHANGED up
    BY <1>3, <2>6 DEF EndIsShown, Knows
  <2> QED BY <1>1, <2>1, <2>2, <2>3, <2>4, <2>5, <2>6
<1>7. \A c \in In(up') : c.type = "again" => c \in In(up)
  <2>1. CASE m.type = "state" /\ StillCancelled(m)
    <3>1. In(up') = In(up) \/ In(up') = In(up) \cup {[type |-> "cancel again", game |-> NoGame]}
      BY <2>1 DEF StillCancelled
    <3>2. \A c \in In(up') : c \in In(up) \/ c.type = "cancel again"
      BY <3>1, AskedTwice
    <3> QED BY <3>2
  <2>2. CASE m.type = "state" /\ StillLeft(m)
    <3>1. In(up') = In(up) \/ In(up') = In(up) \cup {[type |-> "leave again", game |-> app.leavePending]}
      BY <2>2 DEF StillLeft
    <3>2. \A c \in In(up') : c \in In(up) \/ c.type = "leave again"
      BY <3>1, AskedTwice
    <3> QED BY <3>2
  <2> QED BY <1>1, <2>1, <2>2 DEF IsShown
<1>8. \A g \in Games : app'.over = g => app.over = g \/ Settled(g)'
  <2>1. CASE m.type = "over" /\ EndIsShown(m) /\ ~m.removed
    <3>1. ASSUME NEW g \in Games, app'.over = g PROVE Settled(g)'
      <4>1. m.game = g /\ g \notin server.removed /\ server.truth[g] \in {"win", "loss", "none"}
        BY <1>t, <2>1, <3>1 DEF EndIsShown, Truthful, Outcomes
      <4>2. app'.counted[g] = Counted(app.counted[g], server.truth[g])
        BY <1>t, <2>1, <4>1 DEF EndIsShown, CountedWith, Truthful
      <4> QED BY <1>3, <4>1, <4>2, NoneAssumption DEF Settled, Counted
    <3> QED BY <3>1
  <2>2. CASE m.type = "over" /\ EndIsShown(m) /\ m.removed
    BY <2>2 DEF EndIsShown
  <2>3. CASE m.type = "state"
    BY <1>1, <2>3, GamesAreDealt DEF StillCancelled, StillLeft, IsShown
  <2> QED BY <1>1, <2>1, <2>2, <2>3 DEF ReturnedAs
<1>9. ASSUME server.known
      PROVE  Fresh(down, StateOf(server)) /\ (app.cancelPending => "cancel again" \in app.calls \/ m.type = "state")
  BY <1>1, <1>3, <1>9 DEF CountInv, StatesAreFresh, Begins
<1>10. StatesAreFresh'
  <2> SUFFICES ASSUME server.known
               PROVE  /\ Fresh(down', StateOf(server))
                      /\ app'.cancelPending => "cancel again" \in app'.calls
    BY <1>3 DEF StatesAreFresh
  <2>1. Fresh(down', StateOf(server))
    BY <1>0, <1>1, <1>9, FreshTail
  <2>2. app'.cancelPending => "cancel again" \in app'.calls
    <3>1. CASE m.type = "state"
      BY <1>1, <3>1 DEF StillCancelled, StillLeft, IsShown
    <3>2. CASE m.type = "reply" /\ m.to \in app.calls /\ ReturnedAs(app, m.to, m.code, app')
      <4>1. CASE m.to = "cancel again"
        <5>1. m.code = "ok"
          BY <1>1, <3>2, <4>1 DEF CountInv, CancelsEnd, RepeatedCancel
        <5> QED BY <3>2, <4>1, <5>1 DEF ReturnedAs
      <4>2. CASE m.to # "cancel again"
        <5>1. app'.calls = app.calls \ {m.to}
          BY <3>2 DEF ReturnedAs
        <5>2. app.cancelPending => "cancel again" \in app.calls
          BY <1>9, <3>2
        <5> QED BY <1>5, <4>2, <5>1, <5>2
      <4> QED BY <4>1, <4>2
    <3>3. CASE m.type = "reply" /\ UNCHANGED app
      BY <1>9, <3>3
    <3>4. CASE m.type = "over" /\ EndIsShown(m)
      BY <1>9, <3>4 DEF EndIsShown
    <3> QED BY <1>1, <3>1, <3>2, <3>3, <3>4
  <2> QED BY <2>1, <2>2
<1>11. OpenIsTold'
  <2> SUFFICES ASSUME server.known, NEW g \in Games, Uncounted(g)'
               PROVE  Told(down', app'.cancelPending, g) \/ Held(g)'
    BY <1>3 DEF OpenIsTold
  <2>1. Uncounted(g) /\ app'.counted[g] = None /\ Due(server, g)
    BY <1>3, <1>4 DEF Uncounted, CountsRightly
  <2>2. ~(m.type = "over" /\ m.game = g)
    BY <1>1, <1>e, <2>1
  <2>3. m.type = "state" /\ ~StillCancelled(m) => m.last # g /\ app'.cancelPending = FALSE
    BY <1>1, <1>s, <2>1 DEF StillLeft, IsShown
  <2>4. CASE \E n \in In(down) : n.type = "over" /\ n.game = g
    BY <1>2, <2>2, <2>4 DEF Told
  <2>5. CASE Brings(down, app.cancelPending, g)
    <3>1. CASE m.type # "state" \/ StillCancelled(m)
      <4>1. \/ down[1].type # "state"
            \/ app.cancelPending /\ down[1].activity = "matchmaking"
        BY <1>1, <3>1 DEF StillCancelled
      <4>2. Brings(Tail(down), app.cancelPending, g)
        BY <1>0, <1>1, <2>5, <4>1, BringsTail
      <4>3. Brings(down', app'.cancelPending, g)
        BY <1>0, <1>1, <1>3, <1>5, <4>2, BringsWeaker
      <4> QED BY <4>3 DEF Told
    <3>2. CASE m.type = "state" /\ ~StillCancelled(m)
      <4>1. m.last # g /\ app'.cancelPending = FALSE
        BY <2>3, <3>2
      <4>2. Brings(down, FALSE, g)
        BY <1>0, <2>5, BringsWeaker
      <4>3. Brings(Tail(down), FALSE, g)
        BY <1>0, <1>1, <4>1, <4>2, BringsTail
      <4> QED BY <1>1, <4>1, <4>3 DEF Told
    <3> QED BY <3>1, <3>2
  <2>6. CASE Held(g)
    <3>1. CASE app'.cancelPending
      BY <1>1, <1>3, <2>6, <3>1 DEF Held
    <3>2. CASE ~app'.cancelPending
      <4>1. m.type = "state" /\ ~StillCancelled(m)
        <5>1. app.cancelPending /\ ~RepeatedCancel(m)
          BY <1>1, <2>6 DEF Held
        <5>2. ~(m.type = "reply" /\ m.to \in app.calls /\ ReturnedAs(app, m.to, m.code, app'))
          <6>1. ASSUME m.type = "reply", m.to \in app.calls, ReturnedAs(app, m.to, m.code, app') PROVE FALSE
            <7>1. m.to # "cancel again"
              BY <5>1, <6>1 DEF RepeatedCancel
            <7>2. CASE m.to = "cancel"
              BY <1>3, <3>2, <5>1, <6>1, <7>2 DEF ReturnedAs
            <7>3. CASE m.to # "cancel"
              BY <3>2, <5>1, <6>1, <7>1, <7>3 DEF ReturnedAs
            <7> QED BY <7>2, <7>3
          <6> QED BY <6>1
        <5>3. ~StillCancelled(m) /\ ~EndIsShown(m) /\ app' # app
          BY <3>2, <5>1 DEF StillCancelled, EndIsShown
        <5> QED BY <1>1, <5>2, <5>3
      <4>2. m.activity # "matchmaking"
        BY <1>1, <2>6, <4>1 DEF StillLeft, IsShown, Held
      <4>3. StateOf(server).activity = "matchmaking" /\ StateOf(server).last = g
        BY <1>0, <2>6, StateFits DEF Held
      <4>4. EndsWith(Tail(down), StateOf(server))
        BY <1>0, <1>1, <1>9, <4>1, <4>2, <4>3, FreshTail
      <4>5. Brings(Tail(down), FALSE, g)
        BY <4>3, <4>4 DEF EndsWith, Brings
      <4>6. app'.cancelPending = FALSE
        BY <2>3, <4>1
      <4> QED BY <1>1, <4>5, <4>6 DEF Told
    <3> QED BY <3>1, <3>2
  <2>7. Told(down, app.cancelPending, g) \/ Held(g)
    BY <1>3, <2>1 DEF CountInv, OpenIsTold
  <2> QED BY <2>4, <2>5, <2>6, <2>7 DEF Told
<1>12. \A n \in In(down') : n \in In(down)
  BY <1>1
<1> QED BY <1>3, <1>4, <1>6, <1>7, <1>8, <1>10, <1>11, <1>12, AppCounts

LEMMA DropCounts == ASSUME Sane, CountInv, Drop PROVE CountInv'
<1>1. /\ app' = Failed(app) /\ ~app'.connected /\ In(up') \subseteq In(up) /\ down' = <<>> /\ server' = server
  BY DropFits DEF Sane
<1>2. /\ app'.counted = app.counted /\ app'.over = app.over /\ app'.leavePending = app.leavePending
      /\ app'.game \in {app.game, NoGame}
  BY <1>1, FailedFits, AppFields, Bounds DEF Calls, Repeats
<1>3. server.game # NoGame /\ Knows(server.game)' => Knows(server.game)
  BY <1>1, <1>2 DEF Knows
<1>4. StatesAreFresh' /\ OpenIsTold'
  BY <1>1 DEF StatesAreFresh, OpenIsTold
<1>5. In(down') = {}
  BY <1>1, InFew
<1> QED BY <1>1, <1>2, <1>3, <1>4, <1>5, AppCounts

LEMMA ConnectCounts == ASSUME Sane, CountInv, Connect PROVE CountInv'
<1> DEFINE over == Over(server)
           first == <<StateOf(server)>>
           rest == Ended(server)
<1>0. Typed /\ server \in Servers /\ app \in Apps /\ server.game \in Numbers /\ app.cancelPending \in BOOLEAN
  BY Bounds, ServerFields, AppFields
<1>1. /\ app'.connected /\ ~app.connected /\ server.known /\ app'.game = app.game /\ app'.over = app.over
      /\ app'.cancelPending = app.cancelPending /\ app'.leavePending = app.leavePending /\ app'.counted = app.counted
      /\ up' = <<>> /\ server' = server /\ down' = first \o rest
      /\ In(down') = {StateOf(server)} \cup In(Ended(server))
  BY <1>0, ConnectFits
<1>2. /\ StateOf(server) \in Messages /\ StateOf(server).type = "state"
      /\ StateOf(server).activity = server.activity /\ StateOf(server).last = server.last
  BY <1>0, StateFits
<1>3. /\ Ended(server) \in Seq(Messages)
      /\ HasEnded(server) => In(Ended(server)) = {over}
      /\ ~HasEnded(server) => In(Ended(server)) = {}
  BY <1>0, EndedFits
<1>4. HasEnded(server) => over.type = "over" /\ over.game = server.game /\ Truthful(server, over)
  BY <1>0, OverFits, OverIsTruthful DEF HasEnded
<1>5. /\ first \in Seq(Messages) /\ EndsWith(first, StateOf(server)) /\ 1 \in DOMAIN first /\ first[1] = StateOf(server)
      /\ \A g, p : server.last = g /\ server.activity # "matchmaking" => Told(first, p, g)
  <2> DEFINE a == StateOf(server)
  <2>1. a \in Messages /\ a.type = "state"
    BY <1>2
  <2> HIDE DEF a
  <2>2. <<a>> \in Seq(Messages) /\ EndsWith(<<a>>, a) /\ 1 \in DOMAIN <<a>> /\ <<a>>[1] = a
    BY <2>1, FewEnd
  <2>3. \A g, p : server.last = g /\ server.activity # "matchmaking" => Told(first, p, g)
    BY <1>0, NewsFits
  <2> QED BY <2>2, <2>3 DEF a
<1>6. rest \in Seq(Messages) /\ In(rest) = In(Ended(server))
  BY <1>3
<1> HIDE DEF over, first, rest
<1>7. \A m \in In(rest) : m.type = "over" /\ Truthful(server, m)
  BY <1>3, <1>4, <1>6
<1>8. NoState(rest)
  BY <1>7 DEF NoState, In
<1>9. Fresh(down', StateOf(server))
  <2>1. Fresh(first, StateOf(server))
    BY <1>5 DEF Fresh
  <2> QED BY <1>1, <1>5, <1>6, <1>8, <2>1, FreshMore
<1>10. Begins(down')
  <2>1. Begins(first)
    BY <1>2, <1>5 DEF Begins
  <2> QED BY <1>1, <1>5, <1>6, <2>1, Grows
<1>11. StatesAreFresh'
  BY <1>1, <1>9, <1>10 DEF StatesAreFresh
<1>12. \A m \in In(down') : m = StateOf(server) \/ m \in In(rest)
  BY <1>1, <1>6
<1>13. OpenIsTold'
  <2> SUFFICES ASSUME NEW g \in Games, Uncounted(g) PROVE Told(down', app.cancelPending, g) \/ Held(g)'
    BY <1>1 DEF OpenIsTold, Uncounted
  <2>1. g # NoGame /\ g \in {server.game, server.last}
    BY <1>1, GamesAreDealt DEF CountInv, OpenIsRecent
  <2>2. CASE g = server.game
    <3>1. HasEnded(server)
      BY <2>1, <2>2, NoneAssumption DEF Uncounted, Due, HasEnded
    <3>2. over \in In(down')
      BY <1>1, <1>3, <3>1
    <3> QED BY <1>4, <2>2, <3>1, <3>2 DEF Told
  <2>3. CASE g = server.last
    <3>1. CASE server.activity # "matchmaking"
      <4>1. Told(first, app.cancelPending, g)
        BY <1>5, <2>3, <3>1
      <4> QED BY <1>0, <1>1, <1>5, <1>6, <4>1, Grows
    <3>2. CASE ~app.cancelPending
      <4>1. Brings(first, FALSE, g)
        BY <1>2, <1>5, <2>3 DEF Brings
      <4>2. app.cancelPending = FALSE
        BY <1>0, <3>2
      <4>3. Told(first, app.cancelPending, g)
        BY <4>1, <4>2 DEF Told
      <4> QED BY <1>0, <1>1, <1>5, <1>6, <4>3, Grows
    <3>3. CASE server.activity = "matchmaking" /\ app.cancelPending
      <4>1. \A m \in In(down') : ~RepeatedCancel(m)
        BY <1>2, <1>7, <1>12 DEF RepeatedCancel
      <4> QED BY <1>1, <2>3, <3>3, <4>1 DEF Held
    <3> QED BY <3>1, <3>2, <3>3
  <2> QED BY <2>1, <2>2, <2>3
<1>14. \A m \in In(down') : m \in In(down) \/ m = StateOf(server) \/ (m.type = "over" /\ Truthful(server, m))
  BY <1>7, <1>12
<1>15. In(up') = {}
  BY <1>1, InFew
<1>16. Knows(server.game)' => Knows(server.game)
  BY <1>1, <1>15 DEF Knows
<1>17. \A c \in In(up') : c.type = "again" => c \in In(up)
  BY <1>15
<1> QED BY <1>1, <1>11, <1>13, <1>14, <1>16, <1>17, AppCounts

LEMMA ReplaceCounts == ASSUME Sane, CountInv, ReplaceLostSession PROVE CountInv'
<1>1. /\ ~app'.connected /\ ~app.connected /\ ~server.known /\ app'.game = NoGame /\ app'.over = app.over
      /\ app'.counted = app.counted
      /\ server'.known = TRUE /\ server'.game = server.game
      /\ server'.last = server.last /\ server'.truth = server.truth
      /\ SameHistory /\ up' = <<>> /\ UNCHANGED down
  BY ReplaceFits DEF Sane
<1>2. /\ server.game = NoGame /\ server.last = NoGame /\ \A g \in Games : ~Uncounted(g)
  BY <1>1 DEF CountInv, NothingIsOpen
<1>3. down' = <<>> /\ In(down') = {} /\ In(up') = {}
  BY <1>1, InFew DEF Sane, AppNumbered
<1>4. Recorded'
  BY <1>1 DEF CountInv, Recorded, SameHistory
<1>5. \A g \in Games : ~Uncounted(g)'
  BY <1>1, <1>2 DEF Uncounted, Due, SameHistory
<1>6. OpenIsRecent' /\ NothingIsOpen'
  BY <1>1, <1>2, <1>3, <1>5 DEF OpenIsRecent, NothingIsOpen
<1>7. EndsAreKnown'
  <2>1. \A g \in Games : app.over = g => Settled(g)
    BY DEF CountInv, EndsAreKnown
  <2>2. \A g \in Games : app'.over = g => Settled(g)'
    BY <1>1, <2>1 DEF Settled, SameHistory
  <2> QED BY <1>3, <2>2 DEF EndsAreKnown
<1>8. CancelsEnd' /\ StatesAreFresh' /\ OpenIsTold'
  BY <1>1, <1>3 DEF CancelsEnd, StatesAreFresh, OpenIsTold
<1> QED BY <1>4, <1>6, <1>7, <1>8 DEF CountInv

LEMMA CountInvInit == Init => CountInv
<1> SUFFICES ASSUME Init PROVE CountInv
  OBVIOUS
<1>1. server = NewServer /\ up = <<>> /\ down = <<>> /\ app = NewApp
  BY DEF Init
<1>2. /\ server.game = NoGame /\ server.last = NoGame /\ server.known = TRUE /\ app.connected = FALSE /\ app.over = NoGame
      /\ server.removed = {} /\ \A g \in Games : server.truth[g] = None /\ app.counted[g] = None
  BY <1>1 DEF NewServer, NewApp
<1>3. In(up) = {} /\ In(down) = {}
  BY <1>1, InFew
<1>4. Recorded /\ NothingIsOpen /\ CancelsEnd /\ StatesAreFresh /\ OpenIsTold
  BY <1>2, <1>3, NoneAssumption DEF Recorded, NothingIsOpen, CancelsEnd, StatesAreFresh, OpenIsTold, Uncounted, Due
<1>5. OpenIsRecent /\ EndsAreKnown
  BY <1>2, <1>3, NoneAssumption, GamesAreDealt DEF OpenIsRecent, EndsAreKnown, Uncounted, Due
<1> QED BY <1>4, <1>5 DEF CountInv

LEMMA CountInvNext == ASSUME Sane, CountInv, [Next]_vars PROVE CountInv'
<1>1. CASE UNCHANGED vars
  <2>1. server' = server /\ up' = up /\ down' = down /\ app' = app
    BY <1>1 DEF vars
  <2>2. \A g : /\ (Uncounted(g)' <=> Uncounted(g)) /\ (Settled(g)' <=> Settled(g))
              /\ (Knows(g)' <=> Knows(g)) /\ (Held(g)' <=> Held(g))
    BY <2>1 DEF Uncounted, Settled, Knows, Held
  <2>3. Recorded' /\ NothingIsOpen' /\ OpenIsRecent'
    BY <2>1, <2>2 DEF CountInv, Recorded, NothingIsOpen, OpenIsRecent
  <2>4. EndsAreKnown' /\ CancelsEnd' /\ StatesAreFresh'
    BY <2>1, <2>2 DEF CountInv, EndsAreKnown, CancelsEnd, StatesAreFresh
  <2>5. OpenIsTold'
    BY <2>1, <2>2 DEF CountInv, OpenIsTold
  <2> QED BY <2>3, <2>4, <2>5 DEF CountInv
<1> QED
  BY <1>1, HandleCounts, DealCounts, RemoveCounts, DecideCounts, SearchEndsCounts, RestartCounts, ScreenCounts,
     OnMessageCounts, DropCounts, ConnectCounts, ReplaceCounts DEF Next

\* A match counts in the app as what the server made of it, or as lost for who
\* was removed; and no win and no loss of the session is missed for a drop or
\* for leaving offline (game_session.dart, _record).
THEOREM ResultsCount == Spec => []ResultsAreCounted
<1>1. Init => Sane /\ CountInv
  BY SaneInit, CountInvInit
<1>2. Sane /\ CountInv /\ [Next]_vars => (Sane /\ CountInv)'
  BY SaneNext, CountInvNext
<1>3. Sane /\ CountInv => ResultsAreCounted
  <2> SUFFICES ASSUME Sane, CountInv, NEW g \in Games
               PROVE  /\ app.counted[g] # None =>
                            app.counted[g] = server.truth[g] \/ (app.counted[g] = "loss" /\ g \in server.removed)
                      /\ Quiet /\ g > server.since /\ Verdict(g) \in {"win", "loss"} => app.counted[g] # None
    BY DEF ResultsAreCounted
  <2>1. app.counted[g] # None =>
            app.counted[g] = server.truth[g] \/ (app.counted[g] = "loss" /\ g \in server.removed)
    BY DEF CountInv, Recorded
  <2>2. ASSUME Quiet, g > server.since, Verdict(g) \in {"win", "loss"}, app.counted[g] = None PROVE FALSE
    <3>1. In(down) = {} /\ down = <<>> /\ app.connected /\ server.known /\ app.calls = {}
      BY <2>2, InFew DEF Quiet
    <3>2. ~app.cancelPending
      BY <3>1 DEF CountInv, StatesAreFresh, Begins
    <3>3. ~Brings(down, app.cancelPending, g)
      BY <3>1 DEF Brings
    <3>4. ~Told(down, app.cancelPending, g) /\ ~Held(g)
      BY <3>1, <3>2, <3>3 DEF Told, Held
    <3>5. Uncounted(g)
      BY <2>2 DEF Uncounted, Due, Verdict
    <3> QED BY <3>1, <3>4, <3>5 DEF CountInv, OpenIsTold
  <2> QED BY <2>1, <2>2
<1> QED BY <1>1, <1>2, <1>3, PTL DEF Spec

-----------------------------------------------------------------------------
(* Every call has one trace: a command, or an answer *)

Sent(to) == \E c \in In(up) : c.type = to
Answers(m, to) == m.type = "reply" /\ m.to = to
Answered(to) == \E m \in In(down) : Answers(m, to)

TypesOnce(q) == \A i, j \in DOMAIN q : q[i].type = q[j].type => i = j
AnswersOnce(q) == \A i, j \in DOMAIN q : q[i].type = "reply" /\ Answers(q[j], q[i].to) => i = j

OneTrace ==
    app.connected =>
        /\ TypesOnce(up) /\ \A c \in In(up) : c.type \in app.calls /\ ~Answered(c.type)
        /\ AnswersOnce(down) /\ \A m \in In(down) : m.type = "reply" => m.to \in app.calls
        /\ \A c, d \in app.calls \ Repeats : c = d

-----------------------------------------------------------------------------
(* Once all is quiet, app and server agree *)

Pending == app.cancelPending \/ app.leavePending # NoGame

\* The app has yet to see the first state of the connection.
Before ==
    /\ Begins(down) /\ app.calls \subseteq {"join"}
    /\ app.activity = (IF app.calls = {} THEN "none" ELSE "matchmaking")
    /\ down[1].activity # "none" => app.calls = {}

\* It has seen the search it cancelled, and told the server again, which will hear of it if it has to.
AfterCancel ==
    /\ app.cancelPending /\ app.calls = {"cancel again"} /\ app.activity = "none"
    /\ server.activity = "matchmaking" => Sent("cancel again")

\* The same of the match it left.
AfterLeave ==
    /\ app.leavePending # NoGame /\ app.calls = {"leave again"} /\ app.activity = "none"
    /\ app.left = app.leavePending
    /\ server.game = app.leavePending => \E c \in In(up) : c.type = "leave again" /\ c.game = app.leavePending

GivenUpAtHome ==
    server.known =>
        /\ app.cancelPending => app.leavePending = NoGame
        /\ ~app.connected /\ Pending => app.activity = "none"

Repeating == app.connected /\ server.known /\ Pending => Before \/ AfterCancel \/ AfterLeave

\* What is asked still fits the server, and what was answered.
LeaveIsOver(m) == server.activity = "none" \/ (m.code = "not_found" /\ server.game # app.left)

CallsFit ==
    app.connected /\ server.known =>
        /\ Sent("join") => server.activity = "none"
        /\ "cancel" \in app.calls => server.activity # "game"
        /\ "leave" \in app.calls => server.activity # "matchmaking"
        /\ \A c \in In(up) : c.type = "leave" => c.game = app.left
        /\ Answered("cancel") => server.activity = "none"
        /\ \A m \in In(down) :
              /\ Answers(m, "join") \/ Answers(m, "cancel") => m.code = "ok"
              /\ Answers(m, "leave") \/ Answers(m, "leave again") => m.code \in {"ok", "not_found"}
              /\ Answers(m, "leave") => LeaveIsOver(m)

Agrees == app.activity = server.activity /\ app.game = server.game /\ ~Pending

ShowsServer ==
    app.connected /\ server.known /\ NoState(down) =>
        \/ Agrees
        \/ Sent("join") /\ ~Pending
        \/ app.cancelPending /\ server.activity = "matchmaking"
        \/ app.leavePending # NoGame /\ server.game = app.leavePending

AgreeInv == GivenUpAtHome /\ Repeating /\ CallsFit /\ ShowsServer

LEMMA TypesTail ==
    ASSUME NEW S, NEW q \in Seq(S), q # <<>>, TypesOnce(q)
    PROVE  TypesOnce(Tail(q)) /\ \A c \in In(Tail(q)) : c.type # Head(q).type
<1> DEFINE t == Tail(q)
<1>1. /\ Len(q) \in Nat /\ Len(q) >= 1 /\ DOMAIN q = 1 .. Len(q) /\ DOMAIN t = 1 .. Len(q) - 1
      /\ (\A i \in 1 .. Len(q) - 1 : t[i] = q[i + 1]) /\ Head(q) = q[1]
  BY HeadTailProperties
<1> HIDE DEF t
<1>2. ASSUME NEW i \in DOMAIN t PROVE i + 1 \in DOMAIN q /\ i + 1 # 1 /\ t[i] = q[i + 1] /\ 1 \in DOMAIN q
  BY <1>1
<1>3. ASSUME NEW i \in DOMAIN t, NEW j \in DOMAIN t, t[i].type = t[j].type PROVE i = j
  <2> DEFINE k == i + 1
             l == j + 1
  <2>1. k \in DOMAIN q /\ l \in DOMAIN q /\ t[i] = q[k] /\ t[j] = q[l] /\ (k = l => i = j)
    BY <1>1, <1>2
  <2> HIDE DEF k, l
  <2> QED BY <1>3, <2>1 DEF TypesOnce
<1>4. ASSUME NEW i \in DOMAIN t PROVE t[i].type # Head(q).type
  <2> DEFINE k == i + 1
  <2>1. k \in DOMAIN q /\ 1 \in DOMAIN q /\ t[i] = q[k] /\ k # 1
    BY <1>2
  <2> HIDE DEF k
  <2> QED BY <1>1, <2>1 DEF TypesOnce
<1>5. TypesOnce(t) /\ \A c \in In(t) : c.type # Head(q).type
  BY <1>3, <1>4 DEF TypesOnce, In
<1> QED BY <1>5 DEF t

LEMMA TypesAppend ==
    ASSUME NEW S, NEW q \in Seq(S), NEW e \in S, TypesOnce(q), \A c \in In(q) : c.type # e.type
    PROVE  TypesOnce(Append(q, e))
<1> DEFINE t == Append(q, e)
<1>1. /\ Len(q) \in Nat /\ DOMAIN q = 1 .. Len(q) /\ DOMAIN t = 1 .. Len(q) + 1
      /\ (\A i \in 1 .. Len(q) : t[i] = q[i]) /\ t[Len(q) + 1] = e
  BY AppendProperties
<1> HIDE DEF t
<1>2. \A i \in DOMAIN t : \/ i \in DOMAIN q /\ t[i] = q[i] /\ t[i].type # e.type
                          \/ i = Len(q) + 1 /\ t[i] = e
  BY <1>1 DEF In
<1>3. TypesOnce(t)
  BY <1>2 DEF TypesOnce
<1> QED BY <1>3 DEF t

LEMMA AnswersTail ==
    ASSUME NEW S, NEW q \in Seq(S), q # <<>>, AnswersOnce(q)
    PROVE  /\ AnswersOnce(Tail(q))
           /\ Head(q).type = "reply" => \A m \in In(Tail(q)) : ~Answers(m, Head(q).to)
<1> DEFINE t == Tail(q)
<1>1. /\ Len(q) \in Nat /\ Len(q) >= 1 /\ DOMAIN q = 1 .. Len(q) /\ DOMAIN t = 1 .. Len(q) - 1
      /\ (\A i \in 1 .. Len(q) - 1 : t[i] = q[i + 1]) /\ Head(q) = q[1]
  BY HeadTailProperties
<1> HIDE DEF t
<1>2. ASSUME NEW i \in DOMAIN t PROVE i + 1 \in DOMAIN q /\ i + 1 # 1 /\ t[i] = q[i + 1] /\ 1 \in DOMAIN q
  BY <1>1
<1>3. ASSUME NEW i \in DOMAIN t, NEW j \in DOMAIN t, t[i].type = "reply", Answers(t[j], t[i].to) PROVE i = j
  <2> DEFINE k == i + 1
             l == j + 1
  <2>1. k \in DOMAIN q /\ l \in DOMAIN q /\ t[i] = q[k] /\ t[j] = q[l] /\ (k = l => i = j)
    BY <1>1, <1>2
  <2> HIDE DEF k, l
  <2> QED BY <1>3, <2>1 DEF AnswersOnce
<1>4. ASSUME NEW i \in DOMAIN t, Head(q).type = "reply" PROVE ~Answers(t[i], Head(q).to)
  <2> DEFINE k == i + 1
  <2>1. k \in DOMAIN q /\ 1 \in DOMAIN q /\ t[i] = q[k] /\ k # 1
    BY <1>2
  <2> HIDE DEF k
  <2> QED BY <1>1, <1>4, <2>1 DEF AnswersOnce
<1>5. AnswersOnce(t) /\ (Head(q).type = "reply" => \A m \in In(t) : ~Answers(m, Head(q).to))
  BY <1>3, <1>4 DEF AnswersOnce, In
<1> QED BY <1>5 DEF t

LEMMA AnswersMore ==
    ASSUME NEW S, NEW q \in Seq(S), NEW r \in Seq(S), AnswersOnce(q), AnswersOnce(r),
           \A m \in In(q), n \in In(r) : n.type = "reply" => ~Answers(m, n.to)
    PROVE  AnswersOnce(q \o r)
<1> DEFINE s == q \o r
<1>1. /\ Len(q) \in Nat /\ Len(r) \in Nat /\ DOMAIN q = 1 .. Len(q) /\ DOMAIN r = 1 .. Len(r)
      /\ DOMAIN s = 1 .. Len(q) + Len(r)
      /\ \A i \in 1 .. Len(q) + Len(r) : s[i] = IF i <= Len(q) THEN q[i] ELSE r[i - Len(q)]
  BY ConcatProperties
<1> HIDE DEF s
<1>2. ASSUME NEW i \in DOMAIN s, NEW j \in DOMAIN s, s[i].type = "reply", Answers(s[j], s[i].to) PROVE i = j
  <2>0. i \in Int /\ j \in Int
    BY <1>1
  <2>1. CASE i <= Len(q) /\ j <= Len(q)
    <3>1. i \in DOMAIN q /\ j \in DOMAIN q /\ s[i] = q[i] /\ s[j] = q[j]
      BY <1>1, <2>1
    <3> QED BY <1>2, <3>1 DEF AnswersOnce
  <2>2. CASE ~(i <= Len(q)) /\ ~(j <= Len(q))
    <3> DEFINE k == i - Len(q)
               l == j - Len(q)
    <3>1. k \in DOMAIN r /\ l \in DOMAIN r /\ s[i] = r[k] /\ s[j] = r[l] /\ (k = l => i = j)
      BY <1>1, <2>2
    <3> HIDE DEF k, l
    <3> QED BY <1>2, <3>1 DEF AnswersOnce
  <2>3. CASE i <= Len(q) /\ ~(j <= Len(q))
    <3> DEFINE l == j - Len(q)
    <3>1. i \in DOMAIN q /\ l \in DOMAIN r /\ s[i] = q[i] /\ s[j] = r[l]
      BY <1>1, <2>3
    <3> HIDE DEF l
    <3> QED BY <1>2, <3>1 DEF Answers, In
  <2>4. CASE ~(i <= Len(q)) /\ j <= Len(q)
    <3> DEFINE k == i - Len(q)
    <3>1. k \in DOMAIN r /\ j \in DOMAIN q /\ s[i] = r[k] /\ s[j] = q[j]
      BY <1>1, <2>4
    <3> HIDE DEF k
    <3> QED BY <1>2, <3>1 DEF Answers, In
  <2> QED BY <2>1, <2>2, <2>3, <2>4
<1>3. AnswersOnce(s)
  BY <1>2 DEF AnswersOnce
<1> QED BY <1>3 DEF s

\* r has at most one answer, to the call to.
AnswersOne(r, to) == r \in Seq(Messages) /\ AnswersOnce(r) /\ \A m \in In(r) : m.type = "reply" => m.to = to

LEMMA FewAnswer ==
    ASSUME NEW s \in Servers, NEW to \in Calls, NEW code \in Codes
    PROVE  /\ AnswersOne(<<Reply(to, code)>>, to)
           /\ AnswersOne(<<StateOf(s), Reply(to, code)>>, to)
<1> DEFINE a == StateOf(s)
           b == Reply(to, code)
           q == <<a, b>>
           r == <<b>>
<1>1. a \in Messages /\ b \in Messages /\ a.type = "state" /\ b.type = "reply" /\ b.to = to
  BY StateFits, ReplyFits
<1> HIDE DEF a, b
<1>2. /\ DOMAIN q = {1, 2} /\ q[1] = a /\ q[2] = b /\ DOMAIN r = {1} /\ r[1] = b
      /\ q \in Seq(Messages) /\ r \in Seq(Messages)
  BY <1>1
<1> HIDE DEF q, r
<1>3. AnswersOnce(q) /\ AnswersOnce(r)
  BY <1>1, <1>2 DEF AnswersOnce, Answers
<1>4. In(q) = {a, b} /\ In(r) = {b}
  BY <1>2 DEF In
<1>5. AnswersOne(q, to) /\ AnswersOne(r, to)
  BY <1>1, <1>2, <1>3, <1>4 DEF AnswersOne
<1> QED BY <1>5 DEF q, r, a, b

LEMMA NoAnswers ==
    ASSUME NEW r \in Seq(Messages), \A m \in In(r) : m.type # "reply", NEW to
    PROVE  AnswersOne(r, to)
BY DEF AnswersOne, AnswersOnce, In

\* The server sends news, or answers a command it has taken.
LEMMA ServerKeepsTrace ==
    ASSUME Typed, OneTrace, UNCHANGED app, up' \in Seq(Commands), In(up') \subseteq In(up),
           app.connected => TypesOnce(up'),
           NEW r, NEW to, AnswersOne(r, to), app.connected => down' = down \o r,
           \/ \A m \in In(r) : m.type # "reply"
           \/ Sent(to) /\ \A c \in In(up') : c.type # to
    PROVE  OneTrace'
<1> SUFFICES ASSUME app.connected PROVE OneTrace'
  BY DEF OneTrace
<1>1. /\ TypesOnce(up) /\ (\A c \in In(up) : c.type \in app.calls /\ ~Answered(c.type))
      /\ AnswersOnce(down) /\ (\A m \in In(down) : m.type = "reply" => m.to \in app.calls)
      /\ \A c, d \in app.calls \ Repeats : c = d
  BY DEF OneTrace
<1>2. down' = down \o r /\ r \in Seq(Messages) /\ down \in Seq(Messages) /\ AnswersOnce(r)
      /\ \A m \in In(r) : m.type = "reply" => m.to = to
  BY DEF AnswersOne, Typed
<1>3. In(down') = In(down) \cup In(r)
  BY <1>2, InConcat
<1>4. CASE \A m \in In(r) : m.type # "reply"
  <2>3. AnswersOnce(down')
    BY <1>1, <1>2, <1>4, AnswersMore
  <2>4. \A k : Answered(k)' => Answered(k)
    BY <1>3, <1>4 DEF Answered, Answers
  <2> QED BY <1>1, <1>3, <1>4, <2>3, <2>4 DEF OneTrace
<1>5. CASE Sent(to) /\ \A c \in In(up') : c.type # to
  <2>1. to \in app.calls /\ ~Answered(to)
    BY <1>1, <1>5 DEF Sent
  <2>2. AnswersOnce(down')
    BY <1>1, <1>2, <2>1, AnswersMore DEF Answered
  <2>3. \A k : Answered(k)' => Answered(k) \/ k = to
    BY <1>2, <1>3 DEF Answered, Answers
  <2>4. \A c \in In(up') : c.type \in app'.calls /\ ~Answered(c.type)'
    BY <1>1, <1>5, <2>3
  <2>5. \A m \in In(down') : m.type = "reply" => m.to \in app'.calls
    BY <1>1, <1>2, <1>3, <2>1
  <2> QED BY <1>1, <2>2, <2>4, <2>5 DEF OneTrace
<1> QED BY <1>4, <1>5

\* The app makes a call it has not under way.
LEMMA AskKeepsTrace ==
    ASSUME Typed, OneTrace, app.connected, NEW to \in Calls \ app.calls, NEW g \in Numbers,
           to \in Repeats \/ app.calls \subseteq Repeats,
           app'.calls = app.calls \cup {to}, up' = Append(up, [type |-> to, game |-> g]),
           AnswersOnce(down'), In(down') \subseteq In(down)
    PROVE  OneTrace'
<1> DEFINE new == [type |-> to, game |-> g]
<1>1. /\ TypesOnce(up) /\ (\A c \in In(up) : c.type \in app.calls /\ ~Answered(c.type))
      /\ (\A m \in In(down) : m.type = "reply" => m.to \in app.calls)
      /\ \A c, d \in app.calls \ Repeats : c = d
  BY DEF OneTrace
<1>2. new \in Commands /\ new.type = to /\ up \in Seq(Commands)
  BY DEF Commands, Typed
<1>3. up' = Append(up, new)
  OBVIOUS
<1> HIDE DEF new
<1>4. \A c \in In(up) : c.type # new.type
  BY <1>1, <1>2
<1>5. TypesOnce(up') /\ In(up') = In(up) \cup {new}
  BY <1>1, <1>2, <1>3, <1>4, TypesAppend, InAppend
<1>6. ~Answered(to) /\ \A k : Answered(k)' => Answered(k)
  BY <1>1 DEF Answered, Answers
<1>7. \A c \in In(up') : c.type \in app'.calls /\ ~Answered(c.type)'
  BY <1>1, <1>2, <1>5, <1>6
<1>8. \A c, d \in app'.calls \ Repeats : c = d
  BY <1>1
<1>9. \A m \in In(down') : m.type = "reply" => m.to \in app'.calls
  BY <1>1
<1> QED BY <1>5, <1>7, <1>8, <1>9 DEF OneTrace

\* A call is over that has no trace left.
LEMMA LessKeepsTrace ==
    ASSUME OneTrace, app'.connected => app.connected,
           app'.connected =>
              /\ In(up') \subseteq In(up) /\ TypesOnce(up') /\ In(down') \subseteq In(down) /\ AnswersOnce(down')
              /\ app'.calls \subseteq app.calls
              /\ \A to \in app.calls \ app'.calls : ~Sent(to)' /\ ~Answered(to)'
    PROVE  OneTrace'
<1> SUFFICES ASSUME app'.connected PROVE OneTrace'
  BY DEF OneTrace
<1>1. /\ (\A c \in In(up) : c.type \in app.calls /\ ~Answered(c.type))
      /\ (\A m \in In(down) : m.type = "reply" => m.to \in app.calls)
      /\ \A c, d \in app.calls \ Repeats : c = d
  BY DEF OneTrace
<1>2. \A k : Answered(k)' => Answered(k)
  BY DEF Answered
<1>3. \A c \in In(up') : c.type \in app'.calls /\ ~Answered(c.type)'
  BY <1>1, <1>2 DEF Sent
<1>4. \A m \in In(down') : m.type = "reply" => m.to \in app'.calls
  BY <1>1 DEF Answered, Answers
<1> QED BY <1>1, <1>3, <1>4 DEF OneTrace

\* The server sends r, in which there is at most the answer code, to the call to.
Said(r, to, code) ==
    /\ AnswersOne(r, to) /\ (app.connected => down' = down \o r)
    /\ \A m \in In(r) : m.type = "reply" => m.code = code

LEMMA SaysReply ==
    ASSUME Typed, NEW to \in Calls, NEW code \in Codes, Sends(<<Reply(to, code)>>)
    PROVE  \E r : Said(r, to, code) /\ NoState(r)
<1> DEFINE b == Reply(to, code)
           r == <<b>>
<1>1. b.type = "reply" /\ b.code = code
  BY ReplyFits
<1>2. AnswersOne(r, to)
  BY FewAnswer DEF Typed
<1>3. app.connected => down' = down \o r
  BY DEF Sends
<1>4. In(r) = {b} /\ DOMAIN r = {1} /\ r[1] = b
  BY InFew
<1> HIDE DEF r, b
<1>5. Said(r, to, code) /\ NoState(r)
  BY <1>1, <1>2, <1>3, <1>4 DEF Said, NoState
<1> QED BY <1>5

LEMMA SaysState ==
    ASSUME Typed, server' \in Servers, NEW to \in Calls, NEW code \in Codes, Sends(<<StateOf(server'), Reply(to, code)>>)
    PROVE  \E r : Said(r, to, code) /\ ~NoState(r)
<1> DEFINE a == StateOf(server')
           b == Reply(to, code)
           r == <<a, b>>
<1>1. a.type = "state" /\ b.type = "reply" /\ b.code = code
  BY ReplyFits, StateFits
<1>2. AnswersOne(r, to)
  BY FewAnswer
<1>3. app.connected => down' = down \o r
  BY DEF Sends
<1>4. In(r) = {a, b} /\ DOMAIN r = {1, 2} /\ r[1] = a
  BY InFew
<1> HIDE DEF r, a, b
<1>5. Said(r, to, code) /\ ~NoState(r)
  BY <1>1, <1>2, <1>3, <1>4 DEF Said, NoState
<1> QED BY <1>5

\* Refuses says of the command c that it changed nothing, Follows what it changed.
Refuses(c, r) ==
    /\ UNCHANGED server /\ NoState(r)
    /\ \/ c.type = "join" /\ server.activity # "none" /\ Said(r, c.type, "refused")
       \/ c.type = "again" /\ Said(r, c.type, "refused")
       \/ c.type \in {"cancel", "cancel again"} /\ server.activity # "matchmaking" /\ Said(r, c.type, "ok")
       \/ c.type \in {"leave", "leave again"} /\ server.game # c.game /\ Said(r, c.type, "not_found")

Follows(c, r) ==
    /\ server'.known = server.known /\ ~NoState(r) /\ Said(r, c.type, "ok") /\ server'.game = NoGame
    /\ \/ c.type \in {"join", "again"} /\ server'.activity = "matchmaking"
       \/ c.type \notin {"join", "again"} /\ server'.activity = "none"

LEMMA HandledAs ==
    ASSUME Sane, HandleCommand
    PROVE  /\ server.known /\ UNCHANGED app /\ up \in Seq(Commands) /\ up # <<>> /\ up' = Tail(up)
           /\ Head(up) \in In(up) /\ Head(up).type \in Calls /\ ServerGoesOn
           /\ \E r : Refuses(Head(up), r) \/ Follows(Head(up), r)
<1> DEFINE c == Head(up)
<1>1. /\ c \in Commands /\ c \in In(up) /\ server.known /\ up' = Tail(up) /\ UNCHANGED app
      /\ \/ c.type = "join" /\ Searches(server.activity = "none", c.type)
         \/ c.type = "again" /\ Searches(server.game = c.game /\ server.truth[c.game] # None, c.type)
         \/ c.type \in {"cancel", "cancel again"} /\ Cancels(c.type)
         \/ c.type \in {"leave", "leave again"} /\ Leaves(c.game, c.type)
  BY Handled DEF Sane
<1>2. up # <<>> /\ up \in Seq(Commands) /\ Typed
  BY DEF HandleCommand, Sane, Typed
<1> HIDE DEF c
<1>3. c.type \in Calls /\ c.game \in Numbers /\ (c.type \in {"leave", "leave again"} => c.game \in Games)
  <2>1. c.type \in Calls /\ c.game \in Numbers
    BY <1>1 DEF Commands
  <2>2. c.type \in {"leave", "leave again"} => c.game # NoGame
    BY <1>1 DEF Sane, QueuesNumbered
  <2>3. c.game # NoGame => c.game \in Games
    BY <2>1 DEF Numbers, Games, NoGame
  <2> QED BY <2>1, <2>2, <2>3
<1>4. ASSUME NEW free \in BOOLEAN, Searches(free, c.type), c.type \in {"join", "again"},
             c.type = "join" /\ ~free => server.activity # "none"
      PROVE  ServerGoesOn /\ \E r : Refuses(c, r) \/ Follows(c, r)
  <2>1. /\ ServerGoesOn
        /\ ~free => UNCHANGED server /\ Sends(<<Reply(c.type, "refused")>>)
        /\ free =>
             /\ server'.activity = "matchmaking" /\ server'.game = NoGame /\ server'.known = server.known
             /\ Sends(<<StateOf(server'), Reply(c.type, "ok")>>)
    BY <1>3, <1>4, SearchesFits
  <2>2. CASE free
    <3>1. server' \in Servers /\ "ok" \in Codes
      BY <2>1 DEF ServerGoesOn, Codes
    <3>2. PICK r : Said(r, c.type, "ok") /\ ~NoState(r)
      BY <1>2, <1>3, <2>1, <2>2, <3>1, SaysState
    <3>3. Follows(c, r)
      BY <1>4, <2>1, <2>2, <3>2 DEF Follows
    <3> QED BY <2>1, <3>3
  <2>3. CASE ~free
    <3>1. "refused" \in Codes
      BY DEF Codes
    <3>2. PICK r : Said(r, c.type, "refused") /\ NoState(r)
      BY <1>2, <1>3, <2>1, <2>3, <3>1, SaysReply
    <3>3. Refuses(c, r)
      BY <1>4, <2>1, <2>3, <3>2 DEF Refuses
    <3> QED BY <2>1, <3>3
  <2> QED BY <2>2, <2>3
<1>5. CASE c.type = "join" /\ Searches(server.activity = "none", c.type)
  <2> DEFINE free == server.activity = "none"
  <2>1. free \in BOOLEAN /\ Searches(free, c.type) /\ (~free => server.activity # "none")
    BY <1>5
  <2> HIDE DEF free
  <2>2. ServerGoesOn /\ \E r : Refuses(c, r) \/ Follows(c, r)
    BY <1>4, <1>5, <2>1
  <2> QED BY <1>1, <1>2, <1>3, <2>2 DEF c
<1>6. CASE c.type = "again" /\ Searches(server.game = c.game /\ server.truth[c.game] # None, c.type)
  <2> DEFINE free == server.game = c.game /\ server.truth[c.game] # None
  <2>1. free \in BOOLEAN /\ Searches(free, c.type)
    BY <1>6
  <2> HIDE DEF free
  <2>2. ServerGoesOn /\ \E r : Refuses(c, r) \/ Follows(c, r)
    BY <1>4, <1>6, <2>1
  <2> QED BY <1>1, <1>2, <1>3, <2>2 DEF c
<1>7. CASE c.type \in {"cancel", "cancel again"} /\ Cancels(c.type)
  <2>1. /\ ServerGoesOn
        /\ server.activity # "matchmaking" => UNCHANGED server /\ Sends(<<Reply(c.type, "ok")>>)
        /\ server.activity = "matchmaking" =>
             /\ server'.activity = "none" /\ server'.game = NoGame /\ server'.known = server.known
             /\ Sends(<<StateOf(server'), Reply(c.type, "ok")>>)
    BY <1>3, <1>7, CancelsFits
  <2>2. server' \in Servers /\ "ok" \in Codes
    BY <2>1 DEF ServerGoesOn, Codes
  <2>3. CASE server.activity = "matchmaking"
    <3>1. PICK r : Said(r, c.type, "ok") /\ ~NoState(r)
      BY <1>2, <1>3, <2>1, <2>2, <2>3, SaysState
    <3>2. Follows(c, r)
      BY <1>7, <2>1, <2>3, <3>1 DEF Follows
    <3> QED BY <1>1, <1>2, <1>3, <2>1, <3>2 DEF c
  <2>4. CASE server.activity # "matchmaking"
    <3>1. PICK r : Said(r, c.type, "ok") /\ NoState(r)
      BY <1>2, <1>3, <2>1, <2>2, <2>4, SaysReply
    <3>2. Refuses(c, r)
      BY <1>7, <2>1, <2>4, <3>1 DEF Refuses
    <3> QED BY <1>1, <1>2, <1>3, <2>1, <3>2 DEF c
  <2> QED BY <2>3, <2>4
<1>8. CASE c.type \in {"leave", "leave again"} /\ Leaves(c.game, c.type)
  <2>1. /\ ServerGoesOn
        /\ server.game # c.game => UNCHANGED server /\ Sends(<<Reply(c.type, "not_found")>>)
        /\ server.game = c.game =>
             /\ server'.activity = "none" /\ server'.game = NoGame /\ server'.known = server.known
             /\ Sends(<<StateOf(server'), Reply(c.type, "ok")>>)
    BY <1>3, <1>8, LeavesFits
  <2>2. server' \in Servers /\ "ok" \in Codes /\ "not_found" \in Codes
    BY <2>1 DEF ServerGoesOn, Codes
  <2>3. CASE server.game = c.game
    <3>1. PICK r : Said(r, c.type, "ok") /\ ~NoState(r)
      BY <1>2, <1>3, <2>1, <2>2, <2>3, SaysState
    <3>2. Follows(c, r)
      BY <1>8, <2>1, <2>3, <3>1 DEF Follows
    <3> QED BY <1>1, <1>2, <1>3, <2>1, <3>2 DEF c
  <2>4. CASE server.game # c.game
    <3>1. PICK r : Said(r, c.type, "not_found") /\ NoState(r)
      BY <1>2, <1>3, <2>1, <2>2, <2>4, SaysReply
    <3>2. Refuses(c, r)
      BY <1>8, <2>1, <2>4, <3>1 DEF Refuses
    <3> QED BY <1>1, <1>2, <1>3, <2>1, <3>2 DEF c
  <2> QED BY <2>3, <2>4
<1> QED BY <1>1, <1>5, <1>6, <1>7, <1>8

LEMMA HandleKeepsTrace == ASSUME Sane, OneTrace, HandleCommand PROVE OneTrace'
<1> DEFINE c == Head(up)
<1>1. /\ UNCHANGED app /\ up \in Seq(Commands) /\ up # <<>> /\ up' = Tail(up) /\ c \in In(up)
      /\ \E r : Refuses(c, r) \/ Follows(c, r)
  BY HandledAs
<1>2. PICK r : AnswersOne(r, c.type) /\ (app.connected => down' = down \o r)
  BY <1>1 DEF Refuses, Follows, Said
<1>3. up' \in Seq(Commands) /\ In(up') \subseteq In(up)
  BY <1>1, InTail
<1>4. app.connected => TypesOnce(up') /\ \A d \in In(up') : d.type # c.type
  BY <1>1, TypesTail DEF OneTrace
<1>5. Sent(c.type) /\ Typed
  BY <1>1 DEF Sent, Sane
<1> HIDE DEF c
<1>6. CASE app.connected
  BY <1>1, <1>2, <1>3, <1>4, <1>5, <1>6, ServerKeepsTrace
<1>7. CASE ~app.connected
  BY <1>1, <1>7 DEF OneTrace
<1> QED BY <1>6, <1>7

LEMMA NewsKeepTrace ==
    ASSUME Sane, OneTrace, UNCHANGED <<up, app>>, NEW r \in Seq(Messages), \A m \in In(r) : m.type # "reply",
           app.connected => down' = down \o r
    PROVE  OneTrace'
<1>1. AnswersOne(r, "join")
  BY NoAnswers
<1>2. Typed /\ up' \in Seq(Commands) /\ In(up') \subseteq In(up)
  BY DEF Sane, Typed
<1>3. app.connected => TypesOnce(up')
  BY DEF OneTrace
<1> QED BY <1>1, <1>2, <1>3, ServerKeepsTrace

\* What the server tells of its own accord: the state it is in now, or that the match is over.
LEMMA OwnNews ==
    ASSUME Sane, Deal \/ Decide \/ SearchEnds
    PROVE  /\ server.known /\ server'.known = server.known /\ UNCHANGED <<up, app>> /\ ServerGoesOn
           /\ \E r \in Seq(Messages) :
                 /\ app.connected => down' = down \o r
                 /\ \A m \in In(r) : m.type # "reply"
                 /\ \/ Decide /\ NoState(r) /\ server'.activity = server.activity /\ server'.game = server.game
                    \/ Deal /\ ~NoState(r) /\ server.activity = "matchmaking" /\ server'.activity = "game"
                            /\ server'.game = server.dealt + 1
                    \/ SearchEnds /\ ~NoState(r) /\ server.activity = "matchmaking"
                            /\ server'.activity = "none" /\ server'.game = NoGame
<1>0. ASSUME server' \in Servers
      PROVE  \E r \in Seq(Messages) : r = <<StateOf(server')>> /\ ~NoState(r) /\ \A m \in In(r) : m.type # "reply"
  <2> DEFINE a == StateOf(server')
             r == <<a>>
  <2>1. a \in Messages /\ a.type = "state"
    BY <1>0, StateFits
  <2>2. In(r) = {a} /\ DOMAIN r = {1} /\ r[1] = a
    BY InFew
  <2> HIDE DEF a
  <2>3. r \in Seq(Messages)
    BY <2>1
  <2> HIDE DEF r
  <2>4. ~NoState(r) /\ \A m \in In(r) : m.type # "reply"
    BY <2>1, <2>2 DEF NoState
  <2> QED BY <2>3, <2>4 DEF r, a
<1>1. CASE Deal
  <2>1. /\ ServerGoesOn /\ UNCHANGED <<up, app>> /\ server.known
        /\ server.activity = "matchmaking" /\ server'.activity = "game" /\ server'.game = server.dealt + 1
        /\ server'.known = server.known /\ Sends(<<StateOf(server')>>)
    BY <1>1, DealFits
  <2>2. PICK r \in Seq(Messages) : r = <<StateOf(server')>> /\ ~NoState(r) /\ \A m \in In(r) : m.type # "reply"
    BY <1>0, <2>1 DEF ServerGoesOn
  <2>3. app.connected => down' = down \o r
    BY <2>1, <2>2 DEF Sends
  <2> QED BY <1>1, <2>1, <2>2, <2>3
<1>2. CASE SearchEnds
  <2>1. /\ ServerGoesOn /\ UNCHANGED <<up, app>> /\ server.known
        /\ server.activity = "matchmaking" /\ server'.activity = "none" /\ server'.game = NoGame
        /\ server'.known = server.known /\ Sends(<<StateOf(server')>>)
    BY <1>2, SearchEndsFits
  <2>2. PICK r \in Seq(Messages) : r = <<StateOf(server')>> /\ ~NoState(r) /\ \A m \in In(r) : m.type # "reply"
    BY <1>0, <2>1 DEF ServerGoesOn
  <2>3. app.connected => down' = down \o r
    BY <2>1, <2>2 DEF Sends
  <2> QED BY <1>2, <2>1, <2>2, <2>3
<1>3. CASE Decide
  <2> DEFINE over == Over(server')
  <2>1. /\ ServerGoesOn /\ UNCHANGED <<up, app>> /\ server.known
        /\ server'.activity = server.activity /\ server'.game = server.game /\ server'.known = server.known
        /\ server.game \in Games
        /\ app.connected => \E messages \in Seq(Messages) :
              /\ down' = down \o messages /\ In(down') = In(down) \cup In(messages) /\ In(messages) = {over}
    BY <1>3, DecideFits
  <2>2. over.type = "over"
    BY DEF Over
  <2> HIDE DEF over
  <2>3. PICK r \in Seq(Messages) : (app.connected => down' = down \o r) /\ (In(r) = {over} \/ In(r) = {})
    <3>1. CASE app.connected
      BY <2>1, <3>1
    <3>2. CASE ~app.connected
      <4>1. <<>> \in Seq(Messages) /\ In(<<>>) = {}
        BY InFew
      <4> QED BY <3>2, <4>1
    <3> QED BY <3>1, <3>2
  <2>4. NoState(r) /\ \A m \in In(r) : m.type # "reply"
    BY <2>2, <2>3 DEF NoState, In
  <2> QED BY <1>3, <2>1, <2>3, <2>4
<1> QED BY <1>1, <1>2, <1>3

LEMMA ScreenKeepsTrace ==
    ASSUME Sane, OneTrace, StartSearch \/ PlayAgain \/ CancelSearch \/ LeaveGame
    PROVE  OneTrace'
<1>0. Typed /\ app \in Apps /\ app.game \in Numbers /\ NoGame \in Numbers
  BY AppFields, NumbersFit DEF Sane, Typed
<1>1. /\ ScreenIsIdle
      /\ \/ /\ app.connected
            /\ \E to \in {"join", "again", "cancel", "leave"}, g \in {NoGame, app.game} : Asks(to, g)
         \/ ~app.connected /\ ~app'.connected
  <2>1. CASE StartSearch
    BY <1>0, <2>1, StartSearchFits
  <2>2. CASE PlayAgain
    BY <1>0, <2>2, PlayAgainFits
  <2>3. CASE CancelSearch
    <3>1. ScreenIsIdle /\ ((app.connected /\ Asks("cancel", NoGame)) \/ Notes(TRUE, app.leavePending))
      BY <1>0, <2>3, CancelSearchFits
    <3> QED BY <3>1 DEF Notes
  <2>4. CASE LeaveGame
    <3>1. ScreenIsIdle /\ ((app.connected /\ Asks("leave", app.game)) \/ Notes(app.cancelPending, app.game))
      BY <1>0, <2>4, LeaveGameFits
    <3> QED BY <3>1 DEF Notes
  <2> QED BY <2>1, <2>2, <2>3, <2>4
<1>2. CASE ~app'.connected
  BY <1>2 DEF OneTrace
<1>3. ASSUME app.connected, NEW to \in {"join", "again", "cancel", "leave"}, NEW g \in {NoGame, app.game}, Asks(to, g)
      PROVE  OneTrace'
  <2>1. app.calls \subseteq Repeats /\ down' = down
    BY <1>1 DEF ScreenIsIdle
  <2>2. to \in Calls \ app.calls /\ g \in Numbers
    BY <1>0, <2>1 DEF Calls, Repeats
  <2>3. AnswersOnce(down') /\ In(down') \subseteq In(down)
    BY <1>3, <2>1 DEF OneTrace
  <2>4. app'.calls = app.calls \cup {to} /\ up' = Append(up, [type |-> to, game |-> g])
    BY <1>3 DEF Asks
  <2> QED BY <1>0, <1>3, <2>1, <2>2, <2>3, <2>4, AskKeepsTrace
<1> QED BY <1>1, <1>2, <1>3

LEMMA OnMessageKeepsTrace == ASSUME Sane, OneTrace, OnMessage PROVE OneTrace'
<1>m. PICK m : m = Head(down)
  OBVIOUS
<1>0. Typed /\ AppNumbered /\ down \in Seq(Messages) /\ up \in Seq(Commands) /\ app \in Apps
      /\ app.leavePending \in Numbers /\ NoGame \in Numbers
  BY Bounds, AppFields, NumbersFit DEF Typed
<1>1. /\ m \in Messages /\ m \in In(down) /\ down # <<>>
      /\ down' = Tail(down) /\ In(down') \subseteq In(down)
      /\ \/ m.type = "state" /\ (StillCancelled(m) \/ StillLeft(m) \/ IsShown(m))
         \/ m.type = "reply" /\ m.to \in app.calls /\ ReturnedAs(app, m.to, m.code, app') /\ UNCHANGED up
         \/ m.type = "reply" /\ m.to \notin app.calls /\ UNCHANGED <<app, up>>
         \/ m.type = "over" /\ EndIsShown(m) /\ UNCHANGED up
  BY <1>m, <1>0, OnMessageFits
<1>2. app.connected
  BY <1>0, <1>1 DEF AppNumbered
<1>3. TypesOnce(up) /\ (\A c \in In(up) : ~Answered(c.type)) /\ AnswersOnce(down)
  BY <1>2 DEF OneTrace
<1>4. AnswersOnce(down') /\ (m.type = "reply" => \A n \in In(down') : ~Answers(n, m.to))
  BY <1>m, <1>0, <1>1, <1>3, AnswersTail
<1>5. CASE m.type = "reply" /\ m.to \in app.calls /\ ReturnedAs(app, m.to, m.code, app') /\ UNCHANGED up
  <2>1. app'.connected = app.connected /\ app'.calls = app.calls \ {m.to}
    BY <1>5 DEF ReturnedAs
  <2>2. Answered(m.to)
    BY <1>1, <1>5 DEF Answered, Answers
  <2>3. ~Sent(m.to)' /\ ~Answered(m.to)'
    BY <1>3, <1>4, <1>5, <2>2 DEF Sent, Answered
  <2>4. \A to \in app.calls \ app'.calls : to = m.to
    BY <2>1
  <2>5. In(up') = In(up) /\ TypesOnce(up')
    BY <1>3, <1>5
  <2> QED BY <1>1, <1>2, <1>4, <2>1, <2>3, <2>4, <2>5, LessKeepsTrace
<1>6. ASSUME UNCHANGED up, app'.calls = app.calls PROVE OneTrace'
  <2>1. In(up') = In(up) /\ TypesOnce(up')
    BY <1>3, <1>6
  <2> QED BY <1>1, <1>2, <1>4, <1>6, <2>1, LessKeepsTrace
<1>7. CASE StillCancelled(m)
  <2>1. CASE "cancel again" \in app.calls /\ UNCHANGED up
    <3>1. app'.calls = app.calls \cup {"cancel again"}
      BY <1>7 DEF StillCancelled
    <3>2. app'.calls = app.calls
      BY <2>1, <3>1
    <3> QED BY <1>6, <2>1, <3>2
  <2>2. CASE "cancel again" \notin app.calls /\ up' = Append(up, [type |-> "cancel again", game |-> NoGame])
    <3>1. app'.calls = app.calls \cup {"cancel again"}
      BY <1>7 DEF StillCancelled
    <3>2. "cancel again" \in Calls \ app.calls /\ "cancel again" \in Repeats
      BY <2>2 DEF Calls, Repeats
    <3> QED BY <1>0, <1>1, <1>2, <1>4, <2>2, <3>1, <3>2, AskKeepsTrace
  <2> QED BY <1>7, <2>1, <2>2 DEF StillCancelled
<1>8. CASE StillLeft(m)
  <2>1. CASE "leave again" \in app.calls /\ UNCHANGED up
    <3>1. app'.calls = app.calls
      BY <1>8, <2>1 DEF StillLeft
    <3> QED BY <1>6, <2>1, <3>1
  <2>2. CASE "leave again" \notin app.calls /\ up' = Append(up, [type |-> "leave again", game |-> app.leavePending])
    <3>1. app'.calls = app.calls \cup {"leave again"}
      BY <1>8 DEF StillLeft
    <3>2. "leave again" \in Calls \ app.calls /\ "leave again" \in Repeats
      BY <2>2 DEF Calls, Repeats
    <3> QED BY <1>0, <1>1, <1>2, <1>4, <2>2, <3>1, <3>2, AskKeepsTrace
  <2> QED BY <1>8, <2>1, <2>2 DEF StillLeft
<1>9. CASE IsShown(m)
  BY <1>6, <1>9 DEF IsShown
<1>10. CASE m.type = "over" /\ EndIsShown(m) /\ UNCHANGED up
  BY <1>6, <1>10 DEF EndIsShown
<1> QED BY <1>1, <1>5, <1>6, <1>7, <1>8, <1>9, <1>10

LEMMA ConnectionKeepsTrace ==
    ASSUME Sane, OneTrace, Drop \/ Connect \/ ReplaceLostSession \/ Remove \/ Restart
    PROVE  OneTrace'
<1>0. Typed /\ AppNumbered
  BY Bounds
<1>1. CASE Drop
  BY <1>0, <1>1, DropFits DEF OneTrace
<1>2. CASE ReplaceLostSession
  BY <1>0, <1>2, ReplaceFits DEF OneTrace
<1>3. CASE Remove \/ Restart
  <2>1. up' = up /\ down' = down /\ app' = app
    BY <1>3, RemoveFits, RestartFits
  <2>2. \A k : Answered(k)' <=> Answered(k)
    BY <2>1 DEF Answered
  <2> QED BY <2>1, <2>2 DEF OneTrace
<1>4. CASE Connect
  <2>1. ~app.connected /\ app'.calls = app.calls /\ up' = <<>> /\ down' \in Seq(Messages)
        /\ In(down') = {StateOf(server)} \cup In(Ended(server))
    BY <1>0, <1>4, ConnectFits
  <2>2. app.calls = {}
    BY <1>0, <2>1 DEF AppNumbered
  <2>3. \A n \in In(down') : n.type # "reply"
    <3>1. server \in Servers /\ StateOf(server).type = "state"
      BY <1>0, StateFits DEF Typed
    <3>2. \A n \in In(Ended(server)) : n.type = "over"
      BY <3>1, EndsOnly
    <3> QED BY <2>1, <3>1, <3>2
  <2>4. AnswersOnce(down')
    BY <2>1, <2>3, NoAnswers DEF AnswersOne
  <2>5. In(up') = {} /\ TypesOnce(up')
    <3>1. DOMAIN up' = {}
      BY <2>1
    <3> QED BY <2>1, <3>1, InFew DEF TypesOnce
  <2> QED BY <2>1, <2>2, <2>3, <2>4, <2>5 DEF OneTrace
<1> QED BY <1>1, <1>2, <1>3, <1>4

LEMMA OneTraceInit == Init => OneTrace
BY DEF Init, NewApp, OneTrace

LEMMA OneTraceNext == ASSUME Sane, OneTrace, [Next]_vars PROVE OneTrace'
<1>1. CASE UNCHANGED vars
  <2>1. up' = up /\ down' = down /\ app' = app
    BY <1>1 DEF vars
  <2>2. \A k : Answered(k)' <=> Answered(k)
    BY <2>1 DEF Answered
  <2> QED BY <2>1, <2>2 DEF OneTrace
<1>2. CASE Deal \/ Decide \/ SearchEnds
  <2>1. UNCHANGED <<up, app>> /\ \E r \in Seq(Messages) :
           (app.connected => down' = down \o r) /\ \A m \in In(r) : m.type # "reply"
    BY <1>2, OwnNews
  <2> QED BY <2>1, NewsKeepTrace
<1> QED
  BY <1>1, <1>2, HandleKeepsTrace, ScreenKeepsTrace, OnMessageKeepsTrace, ConnectionKeepsTrace DEF Next

-----------------------------------------------------------------------------
(* What the server does leaves nothing behind *)

LEMMA NoStateIn == ASSUME NEW q PROVE NoState(q) <=> \A m \in In(q) : m.type # "state"
BY DEF NoState, In

LEMMA Grown ==
    ASSUME Typed, NEW r \in Seq(Messages), down' = down \o r
    PROVE  /\ In(down') = In(down) \cup In(r)
           /\ NoState(down') <=> NoState(down) /\ NoState(r)
           /\ Begins(down) => Begins(down') /\ down'[1] = down[1]
<1>1. /\ In(down') = In(down) \cup In(r) /\ DOMAIN down \subseteq DOMAIN down'
      /\ \A i \in DOMAIN down : down'[i] = down[i]
  BY InConcat DEF Typed
<1>2. NoState(down') <=> NoState(down) /\ NoState(r)
  BY <1>1, NoStateIn
<1>3. ASSUME Begins(down) PROVE Begins(down') /\ down'[1] = down[1]
  <2>1. down \in Seq(Messages) /\ down # <<>>
    BY <1>3 DEF Typed, Begins
  <2>2. 1 \in DOMAIN down
    BY <2>1, InTail
  <2>3. down'[1] = down[1] /\ down' # <<>>
    BY <1>1, <2>2
  <2> QED BY <1>3, <2>3 DEF Begins
<1> QED BY <1>1, <1>2, <1>3

LEMMA AwayAgrees ==
    ASSUME AgreeInv, ~app.connected, UNCHANGED app, server'.known = server.known
    PROVE  AgreeInv'
<1>1. GivenUpAtHome'
  BY DEF AgreeInv, GivenUpAtHome, Pending
<1> QED BY <1>1 DEF AgreeInv, Repeating, CallsFit, ShowsServer

\* A server that has the session sends r; nothing but up, down and the server's activity changes.
ServerSays(r) ==
    /\ app.connected /\ server.known /\ server'.known = server.known /\ UNCHANGED app /\ In(up') \subseteq In(up)
    /\ r \in Seq(Messages) /\ down' = down \o r

LEMMA BeforeStays ==
    ASSUME Typed, NEW r, ServerSays(r), Before
    PROVE  Before'
<1>1. Begins(down') /\ down'[1] = down[1]
  BY Grown DEF ServerSays, Before
<1> QED BY <1>1 DEF ServerSays, Before

\* The player is nowhere any more.
LEMMA GoneAgrees ==
    ASSUME Sane, AgreeInv, NEW r, ServerSays(r), ~NoState(r),
           server'.activity = "none", server'.game = NoGame,
           \A m \in In(r) : m.type = "reply" => m.code = "ok"
    PROVE  AgreeInv'
<1>0. Typed
  BY Bounds
<1>1. In(down') = In(down) \cup In(r) /\ ~NoState(down')
  BY <1>0, Grown DEF ServerSays
<1>2. GivenUpAtHome'
  BY DEF AgreeInv, GivenUpAtHome, Pending, ServerSays
<1>3. ASSUME Pending' PROVE Before' \/ AfterCancel' \/ AfterLeave'
  <2>1. Before \/ AfterCancel \/ AfterLeave
    BY <1>3 DEF AgreeInv, Repeating, Pending, ServerSays
  <2>2. AfterCancel => AfterCancel'
    BY DEF AfterCancel, ServerSays
  <2>3. AfterLeave => AfterLeave'
    BY DEF AfterLeave, ServerSays
  <2> QED BY <1>0, <2>1, <2>2, <2>3, BeforeStays
<1>4. CallsFit'
  <2>1. /\ \A c \in In(up) : c.type = "leave" => c.game = app.left
        /\ \A m \in In(down) :
              /\ Answers(m, "join") \/ Answers(m, "cancel") => m.code = "ok"
              /\ Answers(m, "leave") \/ Answers(m, "leave again") => m.code \in {"ok", "not_found"}
    BY DEF AgreeInv, CallsFit, ServerSays
  <2>2. \A m \in In(r) : \A to : Answers(m, to) => m.code = "ok"
    BY DEF Answers
  <2>3. \A m \in In(down') :
              /\ Answers(m, "join") \/ Answers(m, "cancel") => m.code = "ok"
              /\ Answers(m, "leave") \/ Answers(m, "leave again") => m.code \in {"ok", "not_found"}
    BY <1>1, <2>1, <2>2
  <2>4. \A c \in In(up') : c.type = "leave" => c.game = app'.left
    BY <2>1 DEF ServerSays
  <2>5. \A m : LeaveIsOver(m)'
    BY DEF LeaveIsOver
  <2>6. "none" # "game" /\ "none" # "matchmaking"
    OBVIOUS
  <2> QED BY <2>3, <2>4, <2>5, <2>6 DEF CallsFit
<1>5. Repeating'
  BY <1>3 DEF Repeating
<1>6. ShowsServer'
  BY <1>1 DEF ShowsServer
<1> QED BY <1>2, <1>4, <1>5, <1>6 DEF AgreeInv

\* The player is where they were.
LEMMA StaysAgrees ==
    ASSUME Sane, AgreeInv, NEW r, ServerSays(r), NoState(r),
           server'.activity = server.activity, server'.game = server.game,
           \A m \in In(r) :
              /\ ~Answers(m, "join")
              /\ Answers(m, "cancel") => m.code = "ok" /\ server.activity = "none"
              /\ Answers(m, "leave") \/ Answers(m, "leave again") => m.code \in {"ok", "not_found"}
              /\ Answers(m, "leave") => LeaveIsOver(m),
           \A c \in In(up) : \/ c \in In(up')
                             \/ /\ c.type # "join"
                                /\ c.type = "cancel again" => server.activity # "matchmaking"
                                /\ c.type = "leave again" => server.game # c.game
    PROVE  AgreeInv'
<1>0. Typed
  BY Bounds
<1>1. In(down') = In(down) \cup In(r) /\ (NoState(down') => NoState(down))
  BY <1>0, Grown DEF ServerSays
<1>2. GivenUpAtHome'
  BY DEF AgreeInv, GivenUpAtHome, Pending, ServerSays
<1>3. ASSUME Pending' PROVE Before' \/ AfterCancel' \/ AfterLeave'
  <2>1. Before \/ AfterCancel \/ AfterLeave
    BY <1>3 DEF AgreeInv, Repeating, Pending, ServerSays
  <2>2. AfterCancel => AfterCancel'
    BY DEF AfterCancel, Sent, ServerSays
  <2>3. AfterLeave => AfterLeave'
    BY DEF AfterLeave, ServerSays
  <2> QED BY <1>0, <2>1, <2>2, <2>3, BeforeStays
<1>4. CallsFit'
  <2>1. /\ Sent("join") => server.activity = "none"
        /\ "cancel" \in app.calls => server.activity # "game"
        /\ "leave" \in app.calls => server.activity # "matchmaking"
        /\ \A c \in In(up) : c.type = "leave" => c.game = app.left
        /\ Answered("cancel") => server.activity = "none"
        /\ \A m \in In(down) :
              /\ Answers(m, "join") \/ Answers(m, "cancel") => m.code = "ok"
              /\ Answers(m, "leave") \/ Answers(m, "leave again") => m.code \in {"ok", "not_found"}
              /\ Answers(m, "leave") => LeaveIsOver(m)
    BY DEF AgreeInv, CallsFit, ServerSays
  <2>2. \A m \in In(down') :
              /\ Answers(m, "join") \/ Answers(m, "cancel") => m.code = "ok"
              /\ Answers(m, "leave") \/ Answers(m, "leave again") => m.code \in {"ok", "not_found"}
              /\ Answers(m, "leave") => LeaveIsOver(m)
    BY <1>1, <2>1
  <2>3. \A m : LeaveIsOver(m) => LeaveIsOver(m)'
    BY DEF LeaveIsOver, ServerSays
  <2>4. Sent("join")' => Sent("join")
    BY DEF Sent, ServerSays
  <2>5. Answered("cancel")' => server.activity = "none"
    BY <1>1, <2>1 DEF Answered
  <2>6. app' = app /\ In(up') \subseteq In(up)
    BY DEF ServerSays
  <2> QED BY <2>1, <2>2, <2>3, <2>4, <2>5, <2>6 DEF CallsFit
<1>5. Repeating'
  BY <1>3 DEF Repeating
<1>6. ShowsServer'
  <2>1. Sent("join") => Sent("join")'
    BY DEF Sent
  <2>2. (Agrees => Agrees') /\ (Pending' => Pending)
    BY DEF Agrees, Pending, ServerSays
  <2>3. app' = app /\ server.known
    BY DEF ServerSays
  <2> QED BY <1>1, <2>1, <2>2, <2>3 DEF AgreeInv, ShowsServer
<1> QED BY <1>2, <1>4, <1>5, <1>6 DEF AgreeInv

\* What a screen asked is all it asked.
LEMMA OneScreenCall ==
    ASSUME OneTrace, app.connected, NEW to \in app.calls \ Repeats
    PROVE  \A k \in {"join", "again", "cancel", "leave"} : k # to => k \notin app.calls /\ ~Sent(k) /\ ~Answered(k)
<1> SUFFICES ASSUME NEW k \in {"join", "again", "cancel", "leave"}, k # to
             PROVE  k \notin app.calls /\ ~Sent(k) /\ ~Answered(k)
  OBVIOUS
<1>1. /\ \A c \in In(up) : c.type \in app.calls
      /\ \A m \in In(down) : m.type = "reply" => m.to \in app.calls
      /\ \A c, d \in app.calls \ Repeats : c = d
  BY DEF OneTrace
<1>2. k \notin Repeats
  BY DEF Repeats
<1>3. k \notin app.calls
  BY <1>1, <1>2
<1> QED BY <1>1, <1>3 DEF Sent, Answered, Answers

\* The player searches.
LEMMA SearchAgrees ==
    ASSUME Sane, OneTrace, AgreeInv, NEW r, ServerSays(r), ~NoState(r), NEW to \in {"join", "again"}, Sent(to), ~Sent(to)',
           server'.activity = "matchmaking", server'.game = NoGame,
           \A m \in In(r) : m.type = "reply" => m.to = to /\ m.code = "ok"
    PROVE  AgreeInv'
<1>0. Typed
  BY Bounds
<1>1. In(down') = In(down) \cup In(r) /\ ~NoState(down')
  BY <1>0, Grown DEF ServerSays
<1>2. GivenUpAtHome'
  BY DEF AgreeInv, GivenUpAtHome, Pending, ServerSays
<1>3. to \in app.calls \ Repeats
  BY DEF OneTrace, Sent, Repeats, ServerSays
<1>4. \A k \in {"join", "again", "cancel", "leave"} : k # to => k \notin app.calls /\ ~Sent(k) /\ ~Answered(k)
  BY <1>3, OneScreenCall DEF ServerSays
<1>5. ASSUME Pending' PROVE Before' \/ AfterCancel' \/ AfterLeave'
  <2>1. Before \/ AfterCancel \/ AfterLeave
    BY <1>5 DEF AgreeInv, Repeating, Pending, ServerSays
  <2>2. ~AfterCancel /\ ~AfterLeave
    BY <1>3 DEF AfterCancel, AfterLeave, Repeats
  <2> QED BY <1>0, <2>1, <2>2, BeforeStays
<1>6. CallsFit'
  <2>1. /\ \A c \in In(up) : c.type = "leave" => c.game = app.left
        /\ \A m \in In(down) :
              /\ Answers(m, "join") \/ Answers(m, "cancel") => m.code = "ok"
              /\ Answers(m, "leave") \/ Answers(m, "leave again") => m.code \in {"ok", "not_found"}
    BY DEF AgreeInv, CallsFit, ServerSays
  <2>2. \A m \in In(r) : \A k : Answers(m, k) => m.code = "ok" /\ k = to
    BY DEF Answers
  <2>3. \A m \in In(down') :
              /\ Answers(m, "join") \/ Answers(m, "cancel") => m.code = "ok"
              /\ Answers(m, "leave") \/ Answers(m, "leave again") => m.code \in {"ok", "not_found"}
              /\ ~Answers(m, "leave") /\ ~Answers(m, "cancel")
    BY <1>1, <1>4, <2>1, <2>2 DEF Answered
  <2>4. ~Sent("join")'
    BY <1>4 DEF Sent, ServerSays
  <2>5. ~Answered("cancel")'
    BY <2>3 DEF Answered
  <2>6. "cancel" \notin app.calls /\ "leave" \notin app.calls
    BY <1>4
  <2>7. app' = app /\ In(up') \subseteq In(up)
    BY DEF ServerSays
  <2> QED BY <2>1, <2>3, <2>4, <2>5, <2>6, <2>7 DEF CallsFit
<1>7. Repeating' /\ ShowsServer'
  BY <1>1, <1>5 DEF Repeating, ShowsServer
<1> QED BY <1>2, <1>6, <1>7 DEF AgreeInv

LEMMA HandleAgrees == ASSUME Sane, OneTrace, AgreeInv, HandleCommand PROVE AgreeInv'
<1>c. PICK c : c = Head(up)
  OBVIOUS
<1>1. /\ server.known /\ UNCHANGED app /\ up \in Seq(Commands) /\ up # <<>> /\ up' = Tail(up)
      /\ c \in In(up) /\ c.type \in Calls /\ \E r : Refuses(c, r) \/ Follows(c, r)
  BY <1>c, HandledAs
<1>2. PICK r : Refuses(c, r) \/ Follows(c, r)
  BY <1>1
<1>3. server'.known = server.known /\ AnswersOne(r, c.type) /\ (app.connected => down' = down \o r)
  BY <1>2 DEF Refuses, Follows, Said
<1>4. CASE ~app.connected
  BY <1>1, <1>3, <1>4, AwayAgrees
<1>5. CASE app.connected
  <2>1. In(up') \subseteq In(up) /\ \A d \in In(up) : d = c \/ d \in In(up')
    BY <1>c, <1>1, InTail, TailKeeps
  <2>2. ServerSays(r) /\ \A m \in In(r) : m.type = "reply" => m.to = c.type
    BY <1>1, <1>3, <1>5, <2>1 DEF ServerSays, AnswersOne
  <2>3. Sent(c.type)
    BY <1>1 DEF Sent
  <2>4. \A d \in In(up') : d.type # c.type
    BY <1>c, <1>1, <1>5, TypesTail DEF OneTrace
  <2>5. /\ Sent("join") => server.activity = "none"
        /\ c.type \in app.calls
        /\ "cancel" \in app.calls => server.activity # "game"
        /\ "leave" \in app.calls => server.activity # "matchmaking"
        /\ c.type = "leave" => c.game = app.left
    BY <1>1, <1>5 DEF AgreeInv, CallsFit, OneTrace
  <2>6. CASE Follows(c, r)
    <3>1. /\ ~NoState(r) /\ server'.game = NoGame
          /\ \A m \in In(r) : m.type = "reply" => m.code = "ok"
          /\ \/ c.type \in {"join", "again"} /\ server'.activity = "matchmaking"
             \/ c.type \notin {"join", "again"} /\ server'.activity = "none"
      BY <2>6 DEF Follows, Said
    <3>2. CASE c.type \in {"join", "again"} /\ server'.activity = "matchmaking"
      <4>1. PICK to \in {"join", "again"} : to = c.type
        BY <3>2
      <4>2. Sent(to) /\ ~Sent(to)' /\ \A m \in In(r) : m.type = "reply" => m.to = to /\ m.code = "ok"
        BY <2>2, <2>3, <2>4, <3>1, <4>1 DEF Sent
      <4> QED BY <2>2, <3>1, <3>2, <4>2, SearchAgrees
    <3>3. CASE server'.activity = "none"
      BY <2>2, <3>1, <3>3, GoneAgrees
    <3> QED BY <3>1, <3>2, <3>3
  <2>7. CASE Refuses(c, r)
    <3>1. /\ server' = server /\ NoState(r)
          /\ \/ c.type = "again"
             \/ c.type \in {"cancel", "cancel again"} /\ server.activity # "matchmaking"
                /\ \A m \in In(r) : m.type = "reply" => m.code = "ok"
             \/ c.type \in {"leave", "leave again"} /\ server.game # c.game
                /\ \A m \in In(r) : m.type = "reply" => m.code = "not_found"
      <4>1. c.type # "join" \/ server.activity = "none"
        BY <2>3, <2>5
      <4> QED BY <2>7, <4>1 DEF Refuses, Said
    <3>2. /\ c.type # "join"
          /\ c.type = "cancel again" => server.activity # "matchmaking"
          /\ c.type = "leave again" => server.game # c.game
      BY <3>1
    <3>3. server.activity \in {"none", "matchmaking", "game"}
      BY Bounds, ServerFields DEF Activities
    <3>4. c.type = "cancel" => server.activity = "none"
      BY <2>5, <3>1, <3>3
    <3>5. \A m \in In(r) :
              /\ ~Answers(m, "join")
              /\ Answers(m, "cancel") => m.code = "ok" /\ server.activity = "none"
              /\ Answers(m, "leave") \/ Answers(m, "leave again") => m.code \in {"ok", "not_found"}
              /\ Answers(m, "leave") => m.code = "not_found" /\ server.game # app.left
      BY <2>2, <2>5, <3>1, <3>4 DEF Answers
    <3>6. \A m \in In(r) : Answers(m, "leave") => LeaveIsOver(m)
      BY <3>5 DEF LeaveIsOver
    <3>7. \A d \in In(up) : d \in In(up') \/ d = c
      BY <2>1
    <3> QED BY <2>2, <3>1, <3>2, <3>5, <3>6, <3>7, StaysAgrees
  <2> QED BY <1>2, <2>6, <2>7
<1> QED BY <1>4, <1>5

\* A match is dealt while no cancel is on its way.
LEMMA DealAgrees ==
    ASSUME Sane, OneTrace, AgreeInv, "cancel" \notin app.calls, NEW r, ServerSays(r), ~NoState(r), UNCHANGED up,
           server.activity = "matchmaking", server'.activity = "game", server'.game = server.dealt + 1,
           \A m \in In(r) : m.type # "reply"
    PROVE  AgreeInv'
<1>0. Typed
  BY Bounds
<1>1. In(down') = In(down) \cup In(r) /\ ~NoState(down')
  BY <1>0, Grown DEF ServerSays
<1>2. GivenUpAtHome'
  BY DEF AgreeInv, GivenUpAtHome, Pending, ServerSays
<1>3. server'.game # app.leavePending
  <2>1. server.dealt \in Nat /\ app.leavePending \in 0 .. server.dealt
    BY Bounds
  <2> QED BY <2>1
<1>4. ASSUME Pending' PROVE Before' \/ AfterCancel' \/ AfterLeave'
  <2>1. Before \/ AfterCancel \/ AfterLeave
    BY <1>4 DEF AgreeInv, Repeating, Pending, ServerSays
  <2>2. AfterCancel => AfterCancel'
    BY DEF AfterCancel, ServerSays
  <2>3. AfterLeave => AfterLeave'
    BY <1>3 DEF AfterLeave, ServerSays
  <2> QED BY <1>0, <2>1, <2>2, <2>3, BeforeStays
<1>5. CallsFit'
  <2>1. /\ Sent("join") => server.activity = "none"
        /\ "leave" \in app.calls => server.activity # "matchmaking"
        /\ \A c \in In(up) : c.type = "leave" => c.game = app.left
        /\ Answered("cancel") => server.activity = "none"
        /\ \A m \in In(down) :
              /\ Answers(m, "join") \/ Answers(m, "cancel") => m.code = "ok"
              /\ Answers(m, "leave") \/ Answers(m, "leave again") => m.code \in {"ok", "not_found"}
              /\ Answers(m, "leave") => "leave" \in app.calls
    BY DEF AgreeInv, CallsFit, ServerSays, OneTrace, Answers
  <2>2. ~Sent("join") /\ ~Answered("cancel") /\ "leave" \notin app.calls
    BY <2>1
  <2>3. \A m \in In(down') :
              /\ Answers(m, "join") \/ Answers(m, "cancel") => m.code = "ok"
              /\ Answers(m, "leave") \/ Answers(m, "leave again") => m.code \in {"ok", "not_found"}
              /\ ~Answers(m, "leave") /\ ~Answers(m, "cancel")
    BY <1>1, <2>1, <2>2 DEF Answers, Answered
  <2>4. ~Sent("join")' /\ ~Answered("cancel")'
    BY <2>2, <2>3 DEF Sent, Answered
  <2>5. app' = app /\ up' = up
    BY DEF ServerSays
  <2> QED BY <2>1, <2>2, <2>3, <2>4, <2>5 DEF CallsFit
<1>6. Repeating' /\ ShowsServer'
  BY <1>1, <1>4 DEF Repeating, ShowsServer
<1> QED BY <1>2, <1>5, <1>6 DEF AgreeInv

LEMMA RemoveAgrees == ASSUME Sane, AgreeInv, Remove PROVE AgreeInv'
BY RemoveFits, AwayAgrees

LEMMA OnItsOwnAgrees ==
    ASSUME Races = {}, Sane, OneTrace, AgreeInv, Deal \/ Decide \/ SearchEnds
    PROVE  AgreeInv'
<1>1. server.known /\ server'.known = server.known /\ UNCHANGED <<up, app>>
  BY OwnNews
<1>2. PICK r \in Seq(Messages) :
         /\ app.connected => down' = down \o r
         /\ \A m \in In(r) : m.type # "reply"
         /\ \/ Decide /\ NoState(r) /\ server'.activity = server.activity /\ server'.game = server.game
            \/ Deal /\ ~NoState(r) /\ server.activity = "matchmaking" /\ server'.activity = "game"
                    /\ server'.game = server.dealt + 1
            \/ SearchEnds /\ ~NoState(r) /\ server.activity = "matchmaking"
                    /\ server'.activity = "none" /\ server'.game = NoGame
  BY OwnNews
<1>3. CASE ~app.connected
  BY <1>1, <1>3, AwayAgrees
<1>4. CASE app.connected
  <2>1. ServerSays(r)
    BY <1>1, <1>2, <1>4 DEF ServerSays
  <2>2. CASE Decide /\ NoState(r) /\ server'.activity = server.activity /\ server'.game = server.game
    <3>1. In(up') = In(up) /\ \A m \in In(r) : \A k : ~Answers(m, k)
      BY <1>1, <1>2 DEF Answers
    <3> QED BY <2>1, <2>2, <3>1, StaysAgrees
  <2>3. CASE Deal /\ ~NoState(r) /\ server.activity = "matchmaking" /\ server'.activity = "game"
             /\ server'.game = server.dealt + 1
    <3>1. "cancel" \notin app.calls
      BY <2>3 DEF Deal, CancelUnderWay
    <3> QED BY <1>1, <1>2, <2>1, <2>3, <3>1, DealAgrees
  <2>4. CASE SearchEnds /\ ~NoState(r) /\ server'.activity = "none" /\ server'.game = NoGame
    BY <1>2, <2>1, <2>4, GoneAgrees
  <2> QED BY <1>2, <2>2, <2>3, <2>4
<1> QED BY <1>3, <1>4

-----------------------------------------------------------------------------
(* What the app is asked fits what it will be told *)

\* The server is where the last state on its way says.
LEMMA LastStateTells ==
    ASSUME Sane, CountInv, app.connected, server.known, NEW activities,
           ~StateUnderWay(activities), server.activity \in activities
    PROVE  NoState(down)
<1>1. Fresh(down, StateOf(server))
  BY DEF CountInv, StatesAreFresh
<1>2. StateOf(server).type = "state" /\ StateOf(server).activity = server.activity
  BY StateFits DEF Sane, Typed
<1> DEFINE m == StateOf(server)
<1> HIDE DEF m
<1>3. ~EndsWith(down, m)
  BY <1>2 DEF EndsWith, StateUnderWay, m
<1> QED BY <1>1, <1>3 DEF Fresh, m

\* A screen that is not home's and has asked nothing shows where the player is.
LEMMA ScreenShows ==
    ASSUME OneTrace, AgreeInv, app.connected, server.known, app.calls \subseteq Repeats, app.activity # "none"
    PROVE  /\ ~Pending /\ (NoState(down) => Agrees)
           /\ \A k \in {"join", "again", "cancel", "leave"} : k \notin app.calls /\ ~Sent(k) /\ ~Answered(k)
<1>1. \A k \in {"join", "again", "cancel", "leave"} : k \notin app.calls
  BY DEF Repeats
<1>2. \A k \in {"join", "again", "cancel", "leave"} : ~Sent(k) /\ ~Answered(k)
  BY <1>1 DEF OneTrace, Sent, Answered, Answers
<1>3. ~Before /\ ~AfterCancel /\ ~AfterLeave
  <2>1. app.calls \subseteq {"join"} => app.calls = {}
    BY <1>1
  <2> QED BY <2>1 DEF Before, AfterCancel, AfterLeave
<1>4. ~Pending
  BY <1>3 DEF AgreeInv, Repeating
<1>5. NoState(down) => Agrees
  BY <1>2, <1>4 DEF AgreeInv, ShowsServer, Pending
<1> QED BY <1>1, <1>2, <1>4, <1>5

LEMMA AsksAgrees ==
    ASSUME OneTrace, AgreeInv, app.connected, server.known, ScreenIsIdle, app.activity # "none",
           NEW to \in {"again", "cancel", "leave"}, NEW g, Asks(to, g), app'.activity = app.activity,
           to = "cancel" => server.activity # "game",
           to = "leave" => server.activity # "matchmaking"
    PROVE  AgreeInv'
<1>1. /\ ~Pending /\ (NoState(down) => Agrees)
      /\ \A k \in {"join", "again", "cancel", "leave"} : k \notin app.calls /\ ~Sent(k) /\ ~Answered(k)
  BY ScreenShows DEF ScreenIsIdle
<1>2. /\ server' = server /\ down' = down /\ app'.calls = app.calls \cup {to}
      /\ app'.left = (IF to = "leave" THEN g ELSE app.left)
      /\ app'.connected = app.connected /\ app'.game = app.game
      /\ app'.cancelPending = app.cancelPending /\ app'.leavePending = app.leavePending
      /\ \A c \in In(up') : c \in In(up) \/ (c.type = to /\ c.game = g)
  BY AskedTwice DEF ScreenIsIdle, Asks
<1>3. ~Pending' /\ (NoState(down') => Agrees')
  BY <1>1, <1>2 DEF Pending, Agrees
<1>4. Repeating' /\ ShowsServer' /\ GivenUpAtHome'
  BY <1>2, <1>3 DEF Repeating, ShowsServer, GivenUpAtHome, Pending
<1>5. CallsFit'
  <2>1. ~Sent("join")' /\ \A k : Answered(k)' <=> Answered(k)
    BY <1>1, <1>2 DEF Sent, Answered
  <2>2. "cancel" \in app'.calls => to = "cancel"
    BY <1>1, <1>2
  <2>3. "leave" \in app'.calls => to = "leave"
    BY <1>1, <1>2
  <2>4. \A c \in In(up') : c.type = "leave" => c.game = app'.left
    BY <1>1, <1>2 DEF Sent
  <2>5. \A m \in In(down) :
              /\ Answers(m, "join") \/ Answers(m, "cancel") => m.code = "ok"
              /\ Answers(m, "leave") \/ Answers(m, "leave again") => m.code \in {"ok", "not_found"}
              /\ ~Answers(m, "leave")
    BY <1>1 DEF AgreeInv, CallsFit, Answered
  <2> QED BY <1>1, <1>2, <2>1, <2>2, <2>3, <2>4, <2>5 DEF CallsFit
<1> QED BY <1>4, <1>5 DEF AgreeInv

LEMMA StartSearchAgrees ==
    ASSUME Races = {}, Sane, CountInv, OneTrace, AgreeInv, server.known, StartSearch
    PROVE  AgreeInv'
<1>0. Typed /\ down \in Seq(Messages)
  BY Bounds DEF Typed
<1>1. /\ server' = server /\ down' = down /\ app.connected /\ app.activity = "none"
      /\ Asks("join", NoGame) /\ app'.activity = "matchmaking"
  BY <1>0, StartSearchFits DEF ScreenIsIdle
<1>2. app.calls = {} /\ ~StateUnderWay({"matchmaking", "game"})
  BY DEF StartSearch
<1>3. \A k : ~Sent(k) /\ ~Answered(k)
  BY <1>1, <1>2 DEF OneTrace, Sent, Answered, Answers
<1>4. Pending => Before /\ ~NoState(down) /\ down[1].activity = "none"
  <2> SUFFICES ASSUME Pending PROVE Before /\ ~NoState(down) /\ down[1].activity = "none"
    OBVIOUS
  <2>1. Before
    BY <1>1, <1>2 DEF AgreeInv, Repeating, AfterCancel, AfterLeave
  <2>2. down # <<>> /\ down[1].type = "state"
    BY <2>1 DEF Before, Begins
  <2>3. 1 \in DOMAIN down /\ down[1] \in Messages
    BY <1>0, <2>2, InTail
  <2> DEFINE m == down[1]
  <2>4. m.activity \in Activities
    BY <2>2, <2>3, MessageFields
  <2> HIDE DEF m
  <2>5. m.activity \notin {"matchmaking", "game"}
    BY <1>2, <2>2, <2>3 DEF StateUnderWay, m
  <2>6. m.activity = "none"
    BY <2>4, <2>5 DEF Activities
  <2> QED BY <2>1, <2>2, <2>3, <2>6 DEF NoState, m
<1>5. server.activity = "none"
  <2>1. CASE server.activity \in {"matchmaking", "game"}
    <3>1. NoState(down)
      BY <1>1, <1>2, <2>1, LastStateTells
    <3>2. Agrees
      BY <1>1, <1>3, <1>4, <3>1 DEF AgreeInv, ShowsServer, Pending
    <3> QED BY <1>1, <3>2 DEF Agrees
  <2>2. server.activity \in Activities
    BY <1>0, ServerFields DEF Typed
  <2> QED BY <2>1, <2>2 DEF Activities
<1>6. /\ app'.calls = {"join"} /\ app'.connected = app.connected /\ app'.left = app.left
      /\ app'.cancelPending = app.cancelPending /\ app'.leavePending = app.leavePending
      /\ \A c \in In(up') : c \in In(up) \/ (c.type = "join" /\ c.game = NoGame)
      /\ In(up') = In(up) \cup {[type |-> "join", game |-> NoGame]}
  BY <1>1, <1>2, AskedTwice DEF Asks
<1>7. Sent("join")'
  <2> DEFINE new == [type |-> "join", game |-> NoGame]
  <2>1. new.type = "join"
    OBVIOUS
  <2> HIDE DEF new
  <2> QED BY <1>6, <2>1 DEF Sent, new
<1>8. Pending' <=> Pending
  BY <1>6 DEF Pending
<1>9. Repeating'
  <2>1. Pending => Before'
    BY <1>1, <1>4, <1>6 DEF Before
  <2> QED BY <1>8, <2>1 DEF Repeating
<1>10. ShowsServer' /\ GivenUpAtHome'
  BY <1>1, <1>4, <1>6, <1>7, <1>8 DEF AgreeInv, ShowsServer, GivenUpAtHome
<1>11. CallsFit'
  <2>1. \A k : ~Answered(k)'
    BY <1>1, <1>3 DEF Answered
  <2>2. \A c \in In(up') : c.type # "leave"
    BY <1>3, <1>6 DEF Sent
  <2>3. \A m \in In(down') : \A k : ~Answers(m, k)
    BY <1>1, <1>3 DEF Answered
  <2> QED BY <1>1, <1>5, <1>6, <2>1, <2>2, <2>3 DEF CallsFit
<1> QED BY <1>9, <1>10, <1>11 DEF AgreeInv

\* What is given up offline is all that is.
LEMMA NotesAgree ==
    ASSUME AgreeInv, server.known, ScreenIsIdle, app.activity # "none", NEW leave,
           Notes(FALSE, leave) \/ Notes(TRUE, NoGame)
    PROVE  AgreeInv'
<1>1. ~app'.connected /\ app'.activity = "none" /\ (app'.cancelPending => app'.leavePending = NoGame)
  BY DEF Notes
<1> QED BY <1>1 DEF AgreeInv, GivenUpAtHome, Repeating, CallsFit, ShowsServer

LEMMA ScreenAgrees ==
    ASSUME Races = {}, Sane, CountInv, OneTrace, AgreeInv, StartSearch \/ PlayAgain \/ CancelSearch \/ LeaveGame
    PROVE  AgreeInv'
<1>0. Typed
  BY Bounds
<1>1. CASE StartSearch /\ server.known
  BY <1>1, StartSearchAgrees
<1>2. CASE ~server'.known
  BY <1>2 DEF AgreeInv, GivenUpAtHome, Repeating, CallsFit, ShowsServer
<1>3. ASSUME ~app.connected, server.known, app.activity # "none" PROVE ~app.cancelPending /\ app.leavePending = NoGame
  BY <1>3 DEF AgreeInv, GivenUpAtHome, Pending
<1>4. CASE PlayAgain /\ server'.known
  <2>1. /\ ScreenIsIdle /\ app.connected /\ app.activity = "game"
        /\ Asks("again", app.game) /\ app'.activity = app.activity
    BY <1>0, <1>4, PlayAgainFits
  <2>2. server.known /\ app.activity # "none"
    BY <1>4, <2>1 DEF ScreenIsIdle
  <2> QED BY <2>1, <2>2, AsksAgrees
<1>5. CASE CancelSearch /\ server'.known
  <2>1. /\ ScreenIsIdle /\ app.activity = "matchmaking"
        /\ \/ app.connected /\ Asks("cancel", NoGame) /\ app'.activity = app.activity
           \/ Notes(TRUE, app.leavePending)
    BY <1>0, <1>5, CancelSearchFits
  <2>2. server.known /\ app.activity # "none" /\ app.calls \subseteq Repeats
    BY <1>5, <2>1 DEF ScreenIsIdle
  <2>3. CASE Notes(TRUE, app.leavePending)
    <3>1. app.leavePending = NoGame
      BY <1>3, <2>2, <2>3 DEF Notes
    <3> QED BY <2>1, <2>2, <2>3, <3>1, NotesAgree
  <2>4. CASE app.connected /\ Asks("cancel", NoGame) /\ app'.activity = app.activity
    <3>1. ~StateUnderWay({"game"})
      BY <1>5 DEF CancelSearch
    <3>2. server.activity # "game"
      <4>1. CASE server.activity = "game"
        <5>1. NoState(down)
          BY <2>2, <2>4, <3>1, <4>1, LastStateTells
        <5>2. Agrees
          BY <2>2, <2>4, <5>1, ScreenShows
        <5> QED BY <2>1, <5>2 DEF Agrees
      <4> QED BY <4>1
    <3> QED BY <2>1, <2>2, <2>4, <3>2, AsksAgrees
  <2> QED BY <2>1, <2>3, <2>4
<1>6. CASE LeaveGame /\ server'.known
  <2>1. /\ ScreenIsIdle /\ app.activity = "game"
        /\ \/ app.connected /\ Asks("leave", app.game) /\ app'.activity = app.activity
           \/ Notes(app.cancelPending, app.game)
    BY <1>0, <1>6, LeaveGameFits
  <2>2. server.known /\ app.activity # "none" /\ app.calls \subseteq Repeats
    BY <1>6, <2>1 DEF ScreenIsIdle
  <2>3. CASE Notes(app.cancelPending, app.game)
    <3>1. app.cancelPending = FALSE
      <4>1. ~app.cancelPending /\ app.cancelPending \in BOOLEAN
        BY <1>0, <1>3, <2>2, <2>3, AppFields DEF Notes, Typed
      <4> QED BY <4>1
    <3>2. Notes(FALSE, app.game)
      BY <2>3, <3>1 DEF Notes
    <3> QED BY <2>1, <2>2, <3>2, NotesAgree
  <2>4. CASE app.connected /\ Asks("leave", app.game) /\ app'.activity = app.activity
    <3>1. ~StateUnderWay({"matchmaking"})
      BY <1>6 DEF LeaveGame
    <3>2. server.activity # "matchmaking"
      <4>1. CASE server.activity = "matchmaking"
        <5>1. NoState(down)
          BY <2>2, <2>4, <3>1, <4>1, LastStateTells
        <5>2. Agrees
          BY <2>2, <2>4, <5>1, ScreenShows
        <5> QED BY <2>1, <5>2 DEF Agrees
      <4> QED BY <4>1
    <3> QED BY <2>1, <2>2, <2>4, <3>2, AsksAgrees
  <2> QED BY <2>1, <2>3, <2>4
<1>7. CASE StartSearch /\ ~server.known
  <2>1. ~server'.known
    BY <1>0, <1>7, StartSearchFits DEF ScreenIsIdle
  <2> QED BY <1>2, <2>1
<1> QED BY <1>1, <1>2, <1>4, <1>5, <1>6, <1>7

\* Calls that are over, and answers that came, leave the others as they were.
LEMMA LessFits ==
    ASSUME CallsFit, app.connected, server.known, UNCHANGED <<server, up>>, In(down') \subseteq In(down),
           app'.calls \subseteq app.calls, app'.left = app.left
    PROVE  CallsFit'
<1>1. \A k : (Sent(k)' <=> Sent(k)) /\ (Answered(k)' => Answered(k))
  BY DEF Sent, Answered
<1>2. \A m : LeaveIsOver(m) => LeaveIsOver(m)'
  BY DEF LeaveIsOver
<1>3. /\ Sent("join") => server.activity = "none"
      /\ "cancel" \in app.calls => server.activity # "game"
      /\ "leave" \in app.calls => server.activity # "matchmaking"
      /\ \A c \in In(up) : c.type = "leave" => c.game = app.left
      /\ Answered("cancel") => server.activity = "none"
      /\ \A m \in In(down) :
            /\ Answers(m, "join") \/ Answers(m, "cancel") => m.code = "ok"
            /\ Answers(m, "leave") \/ Answers(m, "leave again") => m.code \in {"ok", "not_found"}
            /\ Answers(m, "leave") => LeaveIsOver(m)
  BY DEF CallsFit
<1> QED BY <1>1, <1>2, <1>3 DEF CallsFit

\* What is repeated fits whatever the server does.
LEMMA RepeatsFit ==
    ASSUME CallsFit, app.connected, server.known, OneTrace', app'.connected, app'.calls \subseteq Repeats,
           In(down') \subseteq In(down)
    PROVE  CallsFit'
<1>1. \A k \in {"join", "again", "cancel", "leave"} : k \notin app'.calls
  BY DEF Repeats
<1>2. \A c \in In(up') : c.type \in app'.calls
  BY DEF OneTrace
<1>3. \A m \in In(down') : m.type = "reply" => m.to \in app'.calls
  BY DEF OneTrace
<1>4. ~Sent("join")' /\ ~Answered("cancel")' /\ \A c \in In(up') : c.type # "leave"
  BY <1>1, <1>2, <1>3 DEF Sent, Answered, Answers
<1>5. \A m \in In(down') : /\ ~Answers(m, "join") /\ ~Answers(m, "cancel") /\ ~Answers(m, "leave")
                           /\ Answers(m, "leave again") => m.code \in {"ok", "not_found"}
  BY <1>1, <1>3 DEF CallsFit, Answers
<1> QED BY <1>1, <1>4, <1>5 DEF CallsFit

\* The message is taken; of the states on its way a last one is the server's.
Takes(m) ==
    /\ app.connected /\ server.known /\ UNCHANGED server /\ m \in In(down) /\ down # <<>> /\ m = down[1]
    /\ In(down') \subseteq In(down)
    /\ m.type = "state" /\ NoState(down') => m = StateOf(server)
    /\ m.type # "state" => (NoState(down') <=> NoState(down))

LEMMA StateAgrees ==
    ASSUME Sane, OneTrace', AgreeInv, NEW m, Takes(m), m.type = "state",
           StillCancelled(m) \/ StillLeft(m) \/ IsShown(m)
    PROVE  AgreeInv'
<1>1. /\ Pending => Before \/ AfterCancel \/ AfterLeave
      /\ app.cancelPending => app.leavePending = NoGame
      /\ CallsFit /\ app.cancelPending \in BOOLEAN
  BY Bounds, AppFields DEF AgreeInv, Repeating, GivenUpAtHome, Takes
<1>2. NoState(down') => m.activity = server.activity /\ m.game = server.game
  BY StateFits DEF Takes, Sane, Typed
<1>3. app'.connected = app.connected /\ server' = server /\ app.connected /\ server.known /\ In(down') \subseteq In(down)
  BY DEF Takes, StillCancelled, StillLeft, IsShown
<1>4. Before => (m.activity # "none" => app.calls = {} /\ app.activity = "none")
  BY DEF Before, Takes
<1>5. CASE StillCancelled(m)
  <2>1. /\ app.cancelPending /\ m.activity = "matchmaking" /\ app'.cancelPending = app.cancelPending
        /\ app'.leavePending = app.leavePending /\ app'.activity = app.activity
        /\ app'.calls = app.calls \cup {"cancel again"}
        /\ \/ "cancel again" \in app.calls /\ UNCHANGED up
           \/ /\ "cancel again" \notin app.calls
              /\ In(up') = In(up) \cup {[type |-> "cancel again", game |-> NoGame]}
    BY <1>5 DEF StillCancelled
  <2>2. app.leavePending = NoGame
    BY <1>1, <2>1
  <2>3. ASSUME Before PROVE AfterCancel'
    <3>1. app.calls = {} /\ app.activity = "none"
      BY <1>4, <2>1, <2>3
    <3> DEFINE new == [type |-> "cancel again", game |-> NoGame]
    <3>2. new \in In(up')
      BY <2>1, <3>1
    <3>3. new.type = "cancel again"
      OBVIOUS
    <3> HIDE DEF new
    <3>4. Sent("cancel again")'
      BY <3>2, <3>3 DEF Sent
    <3> QED BY <2>1, <3>1, <3>4 DEF AfterCancel
  <2>4. ASSUME AfterCancel PROVE AfterCancel'
    <3>1. app.calls = {"cancel again"} /\ up' = up /\ app.activity = "none"
      BY <2>1, <2>4 DEF AfterCancel
    <3>2. Sent("cancel again")' <=> Sent("cancel again")
      BY <3>1 DEF Sent
    <3> QED BY <1>3, <2>1, <2>4, <3>1, <3>2 DEF AfterCancel
  <2>5. AfterCancel'
    BY <1>1, <2>1, <2>2, <2>3, <2>4 DEF Pending, AfterLeave
  <2>6. app'.calls \subseteq Repeats
    BY <2>5 DEF AfterCancel, Repeats
  <2>7. CallsFit'
    BY <1>1, <1>3, <2>6, RepeatsFit
  <2>8. Repeating' /\ GivenUpAtHome'
    BY <1>3, <2>1, <2>2, <2>5 DEF Repeating, GivenUpAtHome
  <2>9. ShowsServer'
    BY <1>2, <1>3, <2>1 DEF ShowsServer
  <2> QED BY <2>7, <2>8, <2>9 DEF AgreeInv
<1>6. CASE StillLeft(m)
  <2>1. /\ app.leavePending # NoGame /\ m.game = app.leavePending /\ app'.cancelPending = FALSE
        /\ app'.leavePending = app.leavePending /\ app'.activity = app.activity
        /\ app'.calls = app.calls \cup {"leave again"}
        /\ \/ "leave again" \in app.calls /\ UNCHANGED up /\ app'.left = app.left
           \/ /\ "leave again" \notin app.calls
              /\ In(up') = In(up) \cup {[type |-> "leave again", game |-> app.leavePending]}
              /\ app'.left = app.leavePending
    BY <1>6 DEF StillLeft
  <2>2. m.activity = "game"
    BY <2>1 DEF Sane, QueuesNumbered, Takes, Dealt
  <2>3. ASSUME Before PROVE AfterLeave'
    <3>1. app.calls = {} /\ app.activity = "none"
      BY <1>4, <2>2, <2>3
    <3> DEFINE new == [type |-> "leave again", game |-> app.leavePending]
    <3>2. new \in In(up') /\ app'.left = app.leavePending
      BY <2>1, <3>1
    <3>3. new.type = "leave again" /\ new.game = app.leavePending
      OBVIOUS
    <3>4. \E c \in In(up') : c.type = "leave again" /\ c.game = app.leavePending
      <4> HIDE DEF new
      <4> QED BY <3>2, <3>3
    <3> QED BY <2>1, <3>1, <3>2, <3>4 DEF AfterLeave
  <2>4. ASSUME AfterLeave PROVE AfterLeave'
    <3>1. app.calls = {"leave again"} /\ up' = up /\ app.activity = "none" /\ app'.left = app.left
      BY <2>1, <2>4 DEF AfterLeave
    <3> QED BY <1>3, <2>1, <2>4, <3>1 DEF AfterLeave
  <2>5. AfterLeave'
    BY <1>1, <2>1, <2>3, <2>4 DEF Pending, AfterCancel
  <2>6. app'.calls \subseteq Repeats
    BY <2>5 DEF AfterLeave, Repeats
  <2>7. CallsFit'
    BY <1>1, <1>3, <2>6, RepeatsFit
  <2>8. Repeating' /\ GivenUpAtHome'
    BY <1>3, <2>1, <2>5 DEF Repeating, GivenUpAtHome
  <2>9. ShowsServer'
    BY <1>2, <1>3, <2>1 DEF ShowsServer
  <2> QED BY <2>7, <2>8, <2>9 DEF AgreeInv
<1>7. CASE IsShown(m)
  <2>1. /\ app'.cancelPending = FALSE /\ app'.leavePending = NoGame
        /\ app'.activity = m.activity /\ app'.game = m.game
        /\ app'.calls = app.calls /\ app'.left = app.left /\ UNCHANGED up
    BY <1>7 DEF IsShown
  <2>2. CallsFit'
    BY <1>1, <1>3, <2>1, LessFits
  <2>3. ~Pending'
    BY <2>1 DEF Pending
  <2>4. NoState(down') => Agrees'
    BY <1>2, <1>3, <2>1, <2>3 DEF Agrees
  <2>5. Repeating' /\ GivenUpAtHome' /\ ShowsServer'
    BY <2>1, <2>3, <2>4 DEF Repeating, GivenUpAtHome, ShowsServer
  <2> QED BY <2>2, <2>5 DEF AgreeInv
<1> QED BY <1>5, <1>6, <1>7

LEMMA EndAgrees ==
    ASSUME AgreeInv, NEW m, Takes(m), m.type # "state", EndIsShown(m), UNCHANGED up
    PROVE  AgreeInv'
<1>1. /\ app'.connected = app.connected /\ app'.activity = app.activity /\ app'.game = app.game
      /\ app'.calls = app.calls /\ app'.left = app.left /\ app'.cancelPending = app.cancelPending
      /\ app'.leavePending = app.leavePending
      /\ server' = server /\ app.connected /\ server.known /\ In(down') \subseteq In(down) /\ (NoState(down') => NoState(down))
  BY DEF EndIsShown, Takes
<1>2. CallsFit'
  BY <1>1, LessFits DEF AgreeInv
<1>3. \A k : Sent(k)' <=> Sent(k)
  BY DEF Sent
<1>4. ~Before
  BY DEF Takes, Before, Begins
<1>5. (AfterCancel => AfterCancel') /\ (AfterLeave => AfterLeave')
  BY <1>1, <1>3 DEF AfterCancel, AfterLeave
<1>6. (Pending' <=> Pending) /\ (Agrees => Agrees')
  BY <1>1 DEF Pending, Agrees
<1>7. Repeating'
  BY <1>1, <1>4, <1>5, <1>6 DEF AgreeInv, Repeating
<1>8. GivenUpAtHome'
  BY <1>1, <1>6 DEF AgreeInv, GivenUpAtHome
<1>9. ShowsServer'
  BY <1>1, <1>3, <1>6 DEF AgreeInv, ShowsServer
<1> QED BY <1>2, <1>7, <1>8, <1>9 DEF AgreeInv

LEMMA ReplyAgrees ==
    ASSUME Sane, CountInv, OneTrace, AgreeInv, NEW m, Takes(m), m.type = "reply", m.to \in app.calls,
           ReturnedAs(app, m.to, m.code, app'), UNCHANGED up
    PROVE  AgreeInv'
<1>1. /\ app'.connected = app.connected /\ app'.left = app.left /\ app'.calls = app.calls \ {m.to}
      /\ server' = server /\ app.connected /\ server.known /\ m \in In(down) /\ In(down') \subseteq In(down)
      /\ NoState(down') => NoState(down)
  BY DEF ReturnedAs, Takes
<1>2. CallsFit /\ CallsFit'
  BY <1>1, LessFits DEF AgreeInv
<1>3. /\ Pending => AfterCancel \/ AfterLeave
      /\ app.cancelPending => app.leavePending = NoGame
      /\ app.cancelPending \in BOOLEAN
  <2>1. ~Before
    BY DEF Takes, Before, Begins
  <2> QED BY <1>1, <2>1, Bounds, AppFields DEF AgreeInv, Repeating, GivenUpAtHome
<1>4. Answered(m.to) /\ ~Sent(m.to)
  <2>1. Answered(m.to)
    BY <1>1 DEF Answered, Answers
  <2> QED BY <1>1, <2>1 DEF OneTrace, Sent
<1>5. \A k : Answers(m, k) <=> k = m.to
  BY DEF Answers
<1>6. NoState(down) =>
        \/ Agrees
        \/ Sent("join") /\ ~Pending
        \/ app.cancelPending /\ server.activity = "matchmaking"
        \/ app.leavePending # NoGame /\ server.game = app.leavePending
  BY <1>1 DEF AgreeInv, ShowsServer
<1>7. \A k : Sent(k)' <=> Sent(k)
  BY DEF Sent
\* Nothing is given up any more, and what is shown is where the server has the player.
<1>8. ASSUME ~Pending', NoState(down) => Agrees' \/ Sent("join") PROVE AgreeInv'
  <2>1. Repeating' /\ ShowsServer'
    BY <1>1, <1>7, <1>8 DEF Repeating, ShowsServer
  <2>2. GivenUpAtHome'
    BY <1>1, <1>8 DEF GivenUpAtHome, Pending
  <2> QED BY <1>2, <2>1, <2>2 DEF AgreeInv
<1>9. CASE m.to = "cancel again"
  <2>1. m.code = "ok"
    BY <1>1, <1>9 DEF CountInv, CancelsEnd, RepeatedCancel
  <2>2. app'.cancelPending = FALSE /\ app'.leavePending = app.leavePending /\ app'.activity = app.activity /\ app'.game = app.game
    BY <1>9, <2>1 DEF ReturnedAs
  <2>3. ~AfterLeave
    BY <1>9 DEF AfterLeave
  <2>4. app.leavePending = NoGame
    BY <1>3, <2>3 DEF Pending, AfterCancel
  <2>5. ~Pending'
    BY <2>2, <2>4 DEF Pending
  <2>6. ~(app.cancelPending /\ server.activity = "matchmaking")
    <3>1. app.cancelPending => AfterCancel
      BY <1>3, <2>3 DEF Pending
    <3> QED BY <1>4, <1>9, <3>1 DEF AfterCancel
  <2>7. NoState(down) => Agrees' \/ Sent("join")
    BY <1>1, <1>6, <2>2, <2>4, <2>5, <2>6 DEF Agrees
  <2> QED BY <1>8, <2>5, <2>7
<1>10. CASE m.to = "leave again"
  <2>1. m.code \in {"ok", "not_found"}
    BY <1>1, <1>2, <1>5, <1>10 DEF CallsFit
  <2>2. /\ app'.leavePending = (IF app.leavePending = app.left THEN NoGame ELSE app.leavePending)
        /\ app'.cancelPending = app.cancelPending /\ app'.activity = app.activity /\ app'.game = app.game
    BY <1>10, <2>1 DEF ReturnedAs
  <2>3. ~AfterCancel
    BY <1>10 DEF AfterCancel
  <2>4. Pending => AfterLeave
    BY <1>3, <2>3
  <2>5. ~app.cancelPending
    BY <1>3, <2>4 DEF Pending, AfterLeave
  <2>6. ~Pending'
    BY <2>2, <2>4, <2>5 DEF Pending, AfterLeave
  <2>7. ~(app.leavePending # NoGame /\ server.game = app.leavePending)
    <3>1. app.leavePending # NoGame => AfterLeave
      BY <2>4 DEF Pending
    <3> QED BY <1>4, <1>10, <3>1 DEF AfterLeave, Sent
  <2>8. NoState(down) => Agrees' \/ Sent("join")
    BY <1>1, <1>6, <2>2, <2>5, <2>6, <2>7 DEF Agrees
  <2> QED BY <1>8, <2>6, <2>8
<1>11. CASE m.to \in {"join", "again", "cancel", "leave"}
  <2>1. ~AfterCancel /\ ~AfterLeave
    BY <1>11 DEF AfterCancel, AfterLeave
  <2>2. ~Pending /\ ~app.cancelPending /\ app.leavePending = NoGame
    BY <1>3, <2>1 DEF Pending
  <2>3. m.to = "join" \/ m.to = "cancel" => m.code = "ok"
    BY <1>1, <1>2, <1>5 DEF CallsFit
  <2>4. app'.leavePending = app.leavePending /\ app'.cancelPending = app.cancelPending
    BY <1>11, <2>3 DEF ReturnedAs
  <2>5. ~Pending'
    BY <2>2, <2>4 DEF Pending
  <2>6. NoState(down) => Agrees \/ Sent("join")
    BY <1>6, <2>2
  <2>7. CASE m.to \in {"join", "again"}
    <3>1. app'.activity = app.activity /\ app'.game = app.game
      BY <2>3, <2>7 DEF ReturnedAs
    <3> QED BY <1>1, <1>8, <2>5, <2>6, <3>1 DEF Agrees
  <2>8. CASE m.to = "cancel"
    <3>1. app'.activity = "none" /\ app'.game = NoGame
      BY <2>3, <2>8 DEF ReturnedAs
    <3>2. server.activity = "none" /\ server.game = NoGame
      BY <1>1, <1>2, <1>4, <2>8 DEF CallsFit, Sane, ServerNumbered
    <3> QED BY <1>1, <1>8, <2>5, <3>1, <3>2 DEF Agrees
  <2>9. CASE m.to = "leave"
    <3>1. LeaveIsOver(m) /\ m.code \in {"ok", "not_found"} /\ server.activity # "matchmaking"
      BY <1>1, <1>2, <1>5, <2>9 DEF CallsFit
    <3>2. ~Sent("join")
      BY <1>1, <2>9, OneScreenCall DEF Repeats
    <3>3. \/ m.code = "not_found" /\ app.activity = "game" /\ app.game # app.left
             /\ app'.activity = app.activity /\ app'.game = app.game
          \/ ~(m.code = "not_found" /\ app.activity = "game" /\ app.game # app.left)
             /\ app'.activity = "none" /\ app'.game = NoGame
      BY <2>9, <3>1 DEF ReturnedAs
    <3>4. server.activity \in Activities /\ (server.activity = "none" => server.game = NoGame)
      BY ServerFields DEF Sane, ServerNumbered, Typed
    <3>5. ASSUME Agrees PROVE app'.activity = server.activity /\ app'.game = server.game
      <4>1. app.activity = server.activity /\ app.game = server.game
        BY <3>5 DEF Agrees
      <4>2. CASE server.activity = "none"
        BY <3>3, <3>4, <4>1, <4>2
      <4>3. CASE server.activity = "game"
        BY <3>1, <3>3, <4>1, <4>3 DEF LeaveIsOver
      <4> QED BY <3>1, <3>4, <4>2, <4>3 DEF Activities
    <3>6. NoState(down) => Agrees'
      BY <1>1, <2>5, <2>6, <3>2, <3>5 DEF Agrees
    <3> QED BY <1>8, <2>5, <3>6
  <2> QED BY <1>11, <2>7, <2>8, <2>9
<1>12. m.to \in Calls
  BY AppFields DEF Sane, Typed
<1> QED BY <1>9, <1>10, <1>11, <1>12 DEF Calls, Repeats

LEMMA OnMessageAgrees == ASSUME Sane, CountInv, OneTrace, AgreeInv, OnMessage PROVE AgreeInv'
<1>m. PICK m : m = Head(down)
  OBVIOUS
<1>0. Typed /\ AppNumbered /\ down \in Seq(Messages)
  BY Bounds DEF Typed
<1>1. /\ m \in Messages /\ m \in In(down) /\ down # <<>> /\ m = down[1] /\ UNCHANGED server
      /\ down' = Tail(down) /\ In(down') \subseteq In(down)
      /\ \/ m.type = "state" /\ (StillCancelled(m) \/ StillLeft(m) \/ IsShown(m))
         \/ m.type = "reply" /\ m.to \in app.calls /\ ReturnedAs(app, m.to, m.code, app') /\ UNCHANGED up
         \/ m.type = "reply" /\ m.to \notin app.calls /\ UNCHANGED <<app, up>>
         \/ m.type = "over" /\ EndIsShown(m) /\ UNCHANGED up
  BY <1>m, <1>0, OnMessageFits
<1>2. app.connected
  BY <1>0, <1>1 DEF AppNumbered
<1>3. CASE ~server.known
  BY <1>1, <1>3 DEF AgreeInv, GivenUpAtHome, Repeating, CallsFit, ShowsServer
<1>4. CASE server.known
  <2>1. OneTrace'
    BY OnMessageKeepsTrace
  <2>2. m.type = "state" /\ NoState(down') => m = StateOf(server)
    <3> DEFINE last == StateOf(server)
    <3>1. Fresh(down, last)
      BY <1>2, <1>4 DEF CountInv, StatesAreFresh
    <3> HIDE DEF last
    <3>2. down[1].type = "state" /\ down[1] # last => EndsWith(down', last)
      BY <1>0, <1>1, <3>1, FreshTail
    <3>3. EndsWith(down', last) => ~NoState(down')
      BY DEF EndsWith, NoState
    <3> QED BY <1>1, <3>2, <3>3 DEF last
  <2>3. m.type # "state" => (NoState(down') <=> NoState(down))
    <3>1. \A n \in In(down) : n = m \/ n \in In(down')
      BY <1>m, <1>0, <1>1, TailKeeps
    <3> QED BY <1>1, <3>1, NoStateIn
  <2>4. Takes(m)
    BY <1>1, <1>2, <1>4, <2>2, <2>3 DEF Takes
  <2>5. m.type = "reply" => m.to \in app.calls
    BY <1>1, <1>2 DEF OneTrace
  <2>6. CASE m.type = "state" /\ (StillCancelled(m) \/ StillLeft(m) \/ IsShown(m))
    BY <2>1, <2>4, <2>6, StateAgrees
  <2>7. CASE m.type = "reply" /\ m.to \in app.calls /\ ReturnedAs(app, m.to, m.code, app') /\ UNCHANGED up
    BY <2>4, <2>7, ReplyAgrees
  <2>8. CASE m.type = "over" /\ EndIsShown(m) /\ UNCHANGED up
    BY <2>4, <2>8, EndAgrees
  <2> QED BY <1>1, <2>5, <2>6, <2>7, <2>8
<1> QED BY <1>3, <1>4

\* A call that failed is given up like one that was never made.
LEMMA DropAgrees == ASSUME Sane, AgreeInv, Drop PROVE AgreeInv'
<1>0. Typed /\ app \in Apps
  BY Bounds
<1>1. app' = Failed(app) /\ ~app'.connected /\ app.connected /\ UNCHANGED server
  BY <1>0, DropFits
<1>2. /\ app'.leavePending = app.leavePending
      /\ app.calls \subseteq Repeats =>
           app'.activity = app.activity /\ app'.cancelPending = app.cancelPending
      /\ ~(app.calls \subseteq Repeats) => \E to \in app.calls \ Repeats :
           /\ to = "join" => app'.activity = "none"
           /\ to = "cancel" => app'.activity = "none" /\ app'.cancelPending = TRUE
           /\ to # "cancel" => app'.cancelPending = app.cancelPending
  BY <1>0, <1>1, FailedFits
<1>3. ASSUME server.known
      PROVE  (app'.cancelPending => app'.leavePending = NoGame) /\ (Pending' => app'.activity = "none")
  <2>1. /\ Pending => Before \/ AfterCancel \/ AfterLeave
        /\ app.cancelPending => app.leavePending = NoGame
    BY <1>1, <1>3 DEF AgreeInv, Repeating, GivenUpAtHome
  <2>2. Pending => app.calls \subseteq {"join", "cancel again", "leave again"}
    BY <2>1 DEF Before, AfterCancel, AfterLeave
  <2>3. CASE app.calls \subseteq Repeats
    <3>1. Pending' => Pending
      BY <1>2, <2>3 DEF Pending
    <3>2. Before => app.activity = "none"
      BY <2>3 DEF Before, Repeats
    <3> QED BY <1>2, <2>1, <2>3, <3>1, <3>2 DEF AfterCancel, AfterLeave
  <2>4. CASE ~(app.calls \subseteq Repeats)
    <3>1. PICK to \in app.calls \ Repeats :
             /\ to = "join" => app'.activity = "none"
             /\ to = "cancel" => app'.activity = "none" /\ app'.cancelPending = TRUE
             /\ to # "cancel" => app'.cancelPending = app.cancelPending
      BY <1>2, <2>4
    <3>2. Pending => to = "join"
      BY <2>2, <3>1 DEF Repeats
    <3> QED BY <1>2, <2>1, <3>1, <3>2 DEF Pending
  <2> QED BY <2>3, <2>4
<1>4. GivenUpAtHome'
  BY <1>1, <1>3 DEF GivenUpAtHome
<1> QED BY <1>1, <1>4 DEF AgreeInv, Repeating, CallsFit, ShowsServer

\* A new connection begins with the server's state.
LEMMA ConnectAgrees == ASSUME Sane, AgreeInv, Connect PROVE AgreeInv'
<1>0. Typed /\ AppNumbered /\ server \in Servers
  BY Bounds
<1>1. /\ app'.connected /\ ~app.connected /\ server.known /\ UNCHANGED server
      /\ app'.activity = app.activity /\ app'.calls = app.calls /\ app'.cancelPending = app.cancelPending
      /\ app'.leavePending = app.leavePending /\ up' = <<>>
      /\ down' = <<StateOf(server)>> \o Ended(server) /\ In(down') = {StateOf(server)} \cup In(Ended(server))
  BY <1>0, ConnectFits
<1>2. app'.calls = {} /\ In(up') = {}
  BY <1>0, <1>1, InFew DEF AppNumbered
<1>3. StateOf(server) \in Messages /\ StateOf(server).type = "state" /\ Ended(server) \in Seq(Messages)
  BY <1>0, StateFits, EndedFits
<1>4. \A m \in In(down') : m.type # "reply"
  <2>1. \A m \in In(Ended(server)) : m.type = "over"
    BY <1>0, EndsOnly
  <2> QED BY <1>1, <1>3, <2>1
<1>5. Begins(down') /\ ~NoState(down')
  <2> DEFINE first == StateOf(server)
             q == <<first>>
  <2>1. first \in Messages /\ first.type = "state"
    BY <1>3
  <2> HIDE DEF first
  <2>2. q \in Seq(Messages) /\ 1 \in DOMAIN q /\ q[1] = first
    BY <2>1
  <2>3. down' = q \o Ended(server)
    BY <1>1 DEF first
  <2> HIDE DEF q
  <2>4. 1 \in DOMAIN down' /\ down'[1] = first
    BY <1>3, <2>2, <2>3, InConcat
  <2>5. down' # <<>>
    BY <2>4
  <2> QED BY <2>1, <2>4, <2>5 DEF Begins, NoState
<1>6. Pending' => Before'
  <2>1. Pending' => app'.activity = "none"
    BY <1>1 DEF AgreeInv, GivenUpAtHome, Pending
  <2> QED BY <1>2, <1>5, <2>1 DEF Before
<1>7. GivenUpAtHome'
  BY <1>1 DEF AgreeInv, GivenUpAtHome
<1>8. CallsFit'
  BY <1>2, <1>4 DEF CallsFit, Sent, Answered, Answers
<1> QED BY <1>5, <1>6, <1>7, <1>8 DEF AgreeInv, Repeating, ShowsServer

LEMMA ReplaceAgrees == ASSUME Sane, ReplaceLostSession \/ Restart PROVE AgreeInv'
<1>0. Typed
  BY Bounds
<1>1. CASE ReplaceLostSession
  <2>1. ~app'.connected /\ app'.cancelPending = FALSE /\ app'.leavePending = NoGame
    BY <1>0, <1>1, ReplaceFits
  <2> QED BY <2>1 DEF AgreeInv, GivenUpAtHome, Repeating, CallsFit, ShowsServer, Pending
<1>2. CASE Restart
  <2>1. ~server'.known
    BY <1>2, RestartFits
  <2> QED BY <2>1 DEF AgreeInv, GivenUpAtHome, Repeating, CallsFit, ShowsServer
<1> QED BY <1>1, <1>2

LEMMA AgreeInvInit == Init => AgreeInv
<1> SUFFICES ASSUME Init PROVE AgreeInv
  OBVIOUS
<1>1. app.connected = FALSE /\ app.cancelPending = FALSE /\ app.leavePending = NoGame
  BY DEF Init, NewApp
<1> QED BY <1>1 DEF AgreeInv, GivenUpAtHome, Repeating, CallsFit, ShowsServer, Pending

LEMMA AgreeInvNext ==
    ASSUME Races = {}, Sane, CountInv, OneTrace, AgreeInv, [Next]_vars
    PROVE  AgreeInv'
<1>1. CASE UNCHANGED vars
  <2>1. server' = server /\ up' = up /\ down' = down /\ app' = app
    BY <1>1 DEF vars
  <2>2. \A k : (Sent(k)' <=> Sent(k)) /\ (Answered(k)' <=> Answered(k))
    BY <2>1 DEF Sent, Answered
  <2>3. \A m : LeaveIsOver(m)' <=> LeaveIsOver(m)
    BY <2>1 DEF LeaveIsOver
  <2>4. (Pending' <=> Pending) /\ (Agrees' <=> Agrees) /\ (Before' <=> Before)
    BY <2>1 DEF Pending, Agrees, Before
  <2>5. (AfterCancel' <=> AfterCancel) /\ (AfterLeave' <=> AfterLeave)
    BY <2>1, <2>2 DEF AfterCancel, AfterLeave
  <2>6. GivenUpAtHome' /\ Repeating' /\ ShowsServer'
    BY <2>1, <2>2, <2>4, <2>5 DEF AgreeInv, GivenUpAtHome, Repeating, ShowsServer
  <2>7. CallsFit'
    BY <2>1, <2>2, <2>3 DEF AgreeInv, CallsFit
  <2> QED BY <2>6, <2>7 DEF AgreeInv
<1> QED
  BY <1>1, HandleAgrees, RemoveAgrees, OnItsOwnAgrees, ScreenAgrees, OnMessageAgrees, DropAgrees, ConnectAgrees,
     ReplaceAgrees DEF Next

\* Once nothing is on its way the app shows where the server has the player,
\* and nothing given up offline is left to tell: of searches and matches given
\* up at any moment, over any number of drops and restarts, none comes back
\* (game_session.dart, _onMessage), provided that no screen calls into a state
\* it has not seen.
THEOREM QuietAgreement == Races = {} => (Spec => []QuietAppAgrees)
<1> SUFFICES ASSUME Races = {} PROVE Spec => []QuietAppAgrees
  OBVIOUS
<1> DEFINE IInv == Sane /\ CountInv /\ OneTrace /\ AgreeInv
<1>1. Init => IInv
  BY SaneInit, CountInvInit, OneTraceInit, AgreeInvInit
<1>2. IInv /\ [Next]_vars => IInv'
  BY SaneNext, CountInvNext, OneTraceNext, AgreeInvNext
<1>3. IInv => QuietAppAgrees
  <2> SUFFICES ASSUME IInv, Quiet
               PROVE  /\ app.activity = server.activity /\ app.game = server.game
                      /\ ~app.cancelPending /\ app.leavePending = NoGame
    BY DEF QuietAppAgrees
  <2>1. app.connected /\ server.known /\ up = <<>> /\ down = <<>> /\ app.calls = {}
    BY DEF Quiet
  <2>2. In(up) = {} /\ In(down) = {}
    BY <2>1, InFew
  <2>3. ~Pending
    BY <2>1 DEF AgreeInv, Repeating, Before, Begins, AfterCancel, AfterLeave
  <2>4. NoState(down) /\ ~Sent("join")
    BY <2>2, NoStateIn DEF Sent
  <2>5. Agrees
    BY <2>1, <2>3, <2>4 DEF AgreeInv, ShowsServer, Pending
  <2> QED BY <2>5 DEF Agrees, Pending
<1> HIDE DEF IInv
<1> QED BY <1>1, <1>2, <1>3, PTL DEF Spec
=============================================================================
