----------------------------- MODULE PanelProofs -----------------------------
(***************************************************************************)
(* Theorems about the setup of the web panel and the handlers it calls: the  *)
(* login and its account, a corrected price, the address and the bot's step. *)
(* A part of the panel takes the steps of its own module and of no other, so *)
(* an invariant of a part is proved from that module's actions and holds in  *)
(* Panel where the part is followed.                                         *)
(***************************************************************************)
EXTENDS Panel, SequenceTheorems, TLAPS

\* The panel follows one part, which takes the steps of its module.
LEMMA PartStays ==
  ASSUME [Next]_vars
  PROVE  /\ part' = part
         /\ part = "login" => [Login!Next]_<<srv, net>>
         /\ part = "manual" => [Manual!Next]_<<srv, net>>
         /\ part = "address" => [Address!Next]_<<srv, ui, net>>
         /\ part = "groups" => [Groups!Next]_<<srv, ui, net>>
         /\ part = "bot" => [Bot!Next]_<<srv, ui, net>>
BY DEF Next, vars

-----------------------------------------------------------------------------
(* The login of the Telegram account: a login is numbered when its code is     *)
(* sent, and its number is the session's, a dropped one's or its own.          *)

\* The calls that wait for the lock.
Waiting == Login!Kinds \cup Login!Starts
LoginState ==
  [cred : BOOLEAN, session : 0..MaxLogins, login : Login!Pending \cup {Nothing},
   logins : 0..MaxLogins, finishing : Login!Pending \cup {Nothing}, queue : Seq(Waiting),
   holding : BOOLEAN, dropped : SUBSET Login!Logins]
Numbered(s, l) == l.id <= s.logins /\ l.id \notin s.dropped /\ l.id # s.session
LoginOk(s) ==
  /\ s \in LoginState
  /\ s.session <= s.logins /\ s.session \notin s.dropped
  /\ \A n \in s.dropped : n <= s.logins
  /\ s.login # Nothing => Numbered(s, s.login)
  /\ s.finishing # Nothing => Numbered(s, s.finishing) /\ s.login = Nothing /\ Login!Answering(s)
  /\ s.holding => s.queue # <<>>
  /\ Login!Answering(s) => s.login # Nothing \/ s.finishing # Nothing

\* No login is under way at the start.
LEMMA LoginInit == ASSUME Login!Init PROVE LoginOk(srv)
<1>1. srv = [cred |-> FALSE, session |-> 0, login |-> Nothing, logins |-> 0,
             finishing |-> Nothing, queue |-> <<>>, holding |-> FALSE, dropped |-> {}]
  BY DEF Login!Init, Login!NoSession
<1>2. <<>> \in Seq(Waiting) /\ 0 \in 0..MaxLogins
  BY PanelAssumption
<1>3. srv \in LoginState
  BY <1>1, <1>2 DEF LoginState
<1>4. QED
  BY <1>1, <1>3 DEF LoginOk, Login!Answering

\* A call at the end of the queue leaves its head, one served leaves the rest.
LEMMA QueueFacts ==
  ASSUME NEW S, NEW q \in Seq(S), NEW k \in S
  PROVE  /\ Append(q, k) \in Seq(S) /\ Append(q, k) # <<>>
         /\ q # <<>> => Head(Append(q, k)) = Head(q) /\ Tail(q) \in Seq(S)
<1>1. Append(q, k) \in Seq(S) /\ Append(q, k) # <<>>
  BY AppendProperties
<1>2. q # <<>> => Head(Append(q, k)) = Head(q)
  BY AppendProperties, HeadTailProperties, LenProperties, EmptySeq
<1>3. q # <<>> => Tail(q) \in Seq(S)
  BY HeadTailProperties
<1>4. QED
  BY <1>1, <1>2, <1>3

\* A login that is dropped is numbered like the others, and is the session of none.
LEMMA DiscardedKeeps ==
  ASSUME NEW s, LoginOk(s)
  PROVE  LET after == Login!Discarded(s) IN
         /\ after = [s EXCEPT !.login = Nothing, !.dropped = after.dropped]
         /\ after.dropped \in SUBSET Login!Logins /\ s.session \notin after.dropped
         /\ \A n \in after.dropped : n <= s.logins
<1> DEFINE d == IF s.login = Nothing THEN s.dropped ELSE s.dropped \cup {s.login.id}
<1>1. s \in LoginState
  BY DEF LoginOk
<1>2. s.login # Nothing => s.login.id \in Login!Logins
  BY <1>1 DEF LoginState, Login!Pending
<1>3. d \in SUBSET Login!Logins
  BY <1>1, <1>2 DEF LoginState
<1>4. s.session \notin d
  BY DEF LoginOk, Numbered
<1>5. \A n \in d : n <= s.logins
  BY DEF LoginOk, Numbered
<1>6. Login!Discarded(s) = [s EXCEPT !.login = Nothing, !.dropped = d]
  BY <1>1 DEF Login!Discarded, LoginState
<1>7. Login!Discarded(s).dropped = d
  BY <1>1, <1>6 DEF LoginState
<1> HIDE DEF d
<1>8. QED
  BY <1>3, <1>4, <1>5, <1>6, <1>7

\* A call at the end of the queue waits for those before it.
LEMMA QueuedOk ==
  ASSUME NEW s, LoginOk(s), NEW kind \in Waiting
  PROVE  LoginOk([s EXCEPT !.queue = Append(@, kind)])
<1> DEFINE t == [s EXCEPT !.queue = Append(@, kind)]
<1>1. s \in LoginState /\ s.queue \in Seq(Waiting)
  BY DEF LoginOk, LoginState
<1>2. Append(s.queue, kind) \in Seq(Waiting) /\ Append(s.queue, kind) # <<>>
      /\ (s.queue # <<>> => Head(Append(s.queue, kind)) = Head(s.queue))
  BY <1>1, QueueFacts
<1>3. t \in LoginState
  BY <1>1, <1>2 DEF LoginState
<1>4. /\ t.queue = Append(s.queue, kind) /\ t.session = s.session /\ t.dropped = s.dropped
      /\ t.logins = s.logins /\ t.login = s.login /\ t.holding = s.holding
      /\ t.finishing = s.finishing
  BY <1>1 DEF LoginState
<1> HIDE DEF t
<1>7. Login!Answering(t) <=> Login!Answering(s)
  BY <1>2, <1>4 DEF LoginOk, Login!Answering
<1>5. LoginOk(t)
  BY <1>2, <1>3, <1>4, <1>7 DEF LoginOk, Numbered
<1>6. QED
  BY <1>5 DEF t

\* Whoever gives the lock back leaves the others in the queue.
LEMMA ReleasedOk ==
  ASSUME NEW s, LoginOk(s), s.queue # <<>>, s.finishing = Nothing
  PROVE  LoginOk(Login!Released(s)) /\ Login!Released(s).login = s.login
         /\ Login!Released(s).finishing = Nothing
         /\ Login!Released(s).logins = s.logins /\ ~Login!Released(s).holding
         /\ Login!Released(s).session = s.session /\ Login!Released(s).dropped = s.dropped
<1> DEFINE t == Login!Released(s)
<1>1. s \in LoginState /\ s.queue \in Seq(Waiting)
  BY DEF LoginOk, LoginState
<1>2. Tail(s.queue) \in Seq(Waiting)
  BY <1>1, HeadTailProperties
<1>3. t = [s EXCEPT !.queue = Tail(s.queue), !.holding = FALSE]
  BY <1>1 DEF Login!Released, LoginState
<1>4. t \in LoginState
  BY <1>1, <1>2, <1>3 DEF LoginState
<1>5. /\ t.session = s.session /\ t.dropped = s.dropped
      /\ t.logins = s.logins /\ t.login = s.login /\ ~t.holding /\ t.finishing = Nothing
  BY <1>1, <1>3 DEF LoginState
<1> HIDE DEF t
<1>6. LoginOk(t)
  BY <1>4, <1>5 DEF LoginOk, Numbered, Login!Answering
<1>7. QED
  BY <1>5, <1>6 DEF t

\* Without the login that waited, unless Telegram is asked about its answer.
LEMMA DiscardedOk ==
  ASSUME NEW s, LoginOk(s), ~Login!Answering(s)
  PROVE  LoginOk(Login!Discarded(s)) /\ Login!Discarded(s).queue = s.queue
         /\ Login!Discarded(s).holding = s.holding /\ Login!Discarded(s).finishing = Nothing
<1> DEFINE t == Login!Discarded(s)
<1>1. s \in LoginState
  BY DEF LoginOk
<1>2. /\ t = [s EXCEPT !.login = Nothing, !.dropped = t.dropped]
      /\ t.dropped \in SUBSET Login!Logins /\ s.session \notin t.dropped
      /\ \A n \in t.dropped : n <= s.logins
  BY DiscardedKeeps
<1> HIDE DEF t
<1>3. t \in LoginState
  BY <1>1, <1>2 DEF LoginState
<1>4. /\ t.session = s.session /\ t.logins = s.logins /\ t.login = Nothing
      /\ t.queue = s.queue /\ t.holding = s.holding /\ t.finishing = Nothing
  BY <1>1, <1>2 DEF LoginState, LoginOk
<1>5. LoginOk(t)
  BY <1>2, <1>3, <1>4 DEF LoginOk, Login!Answering
<1>6. QED
  BY <1>4, <1>5 DEF t

\* A login that is given up as its call ends is given up once the lock is free.
LEMMA DroppedThenReleased ==
  ASSUME NEW s, LoginOk(s), s.queue # <<>>, s.finishing = Nothing
  PROVE  LoginOk(Login!Released(Login!Discarded(s)))
<1>1. s \in LoginState
  BY DEF LoginOk
<1>2. Login!Released(Login!Discarded(s)) = Login!Discarded(Login!Released(s))
  BY <1>1 DEF Login!Released, Login!Discarded, LoginState
<1>3. QED
  BY <1>2, ReleasedOk, DiscardedOk DEF Login!Answering

\* The login whose answer was right waits no more, and is being finished.
LEMMA FinishingOk ==
  ASSUME NEW s, LoginOk(s), s.login # Nothing, Login!Answering(s)
  PROVE  LoginOk(Login!Finishing(s))
<1> DEFINE t == Login!Finishing(s)
<1>1. s \in LoginState /\ s.login \in Login!Pending
  BY DEF LoginOk, LoginState
<1>2. t = [s EXCEPT !.login = Nothing, !.finishing = s.login]
  BY DEF Login!Finishing
<1>3. t \in LoginState
  BY <1>1, <1>2 DEF LoginState
<1>4. /\ t.session = s.session /\ t.login = Nothing /\ t.finishing = s.login
      /\ t.dropped = s.dropped /\ t.logins = s.logins /\ t.queue = s.queue /\ t.holding = s.holding
  BY <1>1, <1>2 DEF LoginState
<1> HIDE DEF t
<1>5. Login!Answering(t)
  BY <1>4 DEF Login!Answering
<1>6. LoginOk(t)
  BY <1>3, <1>4, <1>5 DEF LoginOk, Numbered
<1>7. QED
  BY <1>6 DEF t

\* The login that was finished becomes the session.
LEMMA FinishEndsOk == ASSUME LoginOk(srv), Login!FinishEnds PROVE LoginOk(srv')
<1>1. /\ srv \in LoginState /\ srv.queue \in Seq(Waiting) /\ srv.queue # <<>>
      /\ srv.finishing \in Login!Pending /\ srv.login = Nothing /\ Numbered(srv, srv.finishing)
  BY DEF LoginOk, LoginState, Login!Answering, Login!FinishEnds
<1>2. srv.finishing.id \in 0..MaxLogins
  BY <1>1, PanelAssumption DEF Login!Pending, Login!Logins
<1>3. Tail(srv.queue) \in Seq(Waiting)
  BY <1>1, HeadTailProperties
<1>4. srv' = [srv EXCEPT !.queue = Tail(srv.queue), !.holding = FALSE,
                         !.session = srv.finishing.id, !.finishing = Nothing]
  BY <1>1 DEF Login!FinishEnds, Login!Released, LoginState
<1>5. srv' \in LoginState
  BY <1>1, <1>2, <1>3, <1>4 DEF LoginState
<1>6. /\ srv'.session = srv.finishing.id /\ srv'.login = Nothing /\ srv'.finishing = Nothing
      /\ srv'.dropped = srv.dropped /\ srv'.logins = srv.logins /\ ~srv'.holding
  BY <1>1, <1>4 DEF LoginState
<1>7. QED
  BY <1>1, <1>5, <1>6 DEF LoginOk, Numbered, Login!Answering

\* A login that goes on keeps its number, whatever it waits for next.
LEMMA ChangedOk ==
  ASSUME NEW s, LoginOk(s), s.login # Nothing,
         NEW l \in Login!Pending, l.id = s.login.id
  PROVE  LoginOk([s EXCEPT !.login = l])
<1> DEFINE t == [s EXCEPT !.login = l]
<1>1. s \in LoginState
  BY DEF LoginOk
<1>2. t \in LoginState
  BY <1>1 DEF LoginState
<1>3. /\ t.session = s.session /\ t.login = l /\ t.dropped = s.dropped
      /\ t.logins = s.logins /\ t.holding = s.holding /\ t.queue = s.queue
      /\ t.finishing = s.finishing
  BY <1>1 DEF LoginState
<1>4. l # Nothing
  BY PanelAssumption
<1> HIDE DEF t
<1>5. LoginOk(t)
  BY <1>2, <1>3, <1>4 DEF LoginOk, Numbered, Login!Answering
<1>6. QED
  BY <1>5 DEF t

\* The code that was sent begins a login of its own.
LEMMA StartedOk ==
  ASSUME NEW s, LoginOk(s), s.queue # <<>>, s.finishing = Nothing, s.logins < MaxLogins,
         NEW early \in BOOLEAN
  PROVE  LoginOk([Login!Released(s) EXCEPT !.logins = @ + 1,
             !.login = [id |-> s.logins + 1, stage |-> "code", live |-> TRUE, bad |-> 0,
                        early |-> early]])
<1> DEFINE r == Login!Released(s)
           l == [id |-> s.logins + 1, stage |-> "code", live |-> TRUE, bad |-> 0, early |-> early]
           t == [r EXCEPT !.logins = @ + 1, !.login = l]
<1>1. LoginOk(r) /\ r.logins = s.logins /\ ~r.holding /\ r.finishing = Nothing
  BY ReleasedOk
<1> HIDE DEF r
<1>2. r \in LoginState /\ r.logins \in 0..MaxLogins
  BY <1>1 DEF LoginOk, LoginState
<1>3. l.id = s.logins + 1 /\ l \in Login!Pending
  BY <1>1, <1>2, PanelAssumption DEF Login!Pending, Login!Logins, Login!Stages
<1> HIDE DEF l
<1>10. r.logins + 1 \in 0..MaxLogins
  BY <1>1, <1>2, PanelAssumption
<1> HIDE DEF t
<1>11. t = [r EXCEPT !.logins = r.logins + 1, !.login = l]
  BY <1>2 DEF t, LoginState
<1>4. t \in LoginState
  BY <1>2, <1>3, <1>10, <1>11 DEF LoginState
<1>5. /\ t.session = r.session /\ t.login = l /\ t.dropped = r.dropped
      /\ t.logins = r.logins + 1 /\ ~t.holding /\ t.finishing = Nothing
  BY <1>1, <1>2, <1>11 DEF LoginState
<1>6. r.session \in Int /\ r.session <= r.logins /\ \A n \in r.dropped : n \in Int /\ n <= r.logins
  BY <1>1, <1>2 DEF LoginOk, LoginState, Login!Logins
<1>7. t.login.id = t.logins /\ t.login.id \notin t.dropped /\ t.login.id # t.session
  BY <1>1, <1>2, <1>3, <1>5, <1>6
<1>8. LoginOk(t)
  BY <1>1, <1>2, <1>4, <1>5, <1>6, <1>7 DEF LoginOk, Numbered, Login!Answering
<1>9. QED
  BY <1>8 DEF t, r, l

\* The lock is had, with a login there is an answer for.
LEMMA HoldingOk ==
  ASSUME NEW s, LoginOk(s), s.queue # <<>>, s.finishing = Nothing,
         Head(s.queue) \in Login!Stages => s.login # Nothing
  PROVE  LoginOk(Login!Holding(s))
<1> DEFINE t == Login!Holding(s)
<1>1. s \in LoginState
  BY DEF LoginOk
<1>2. t \in LoginState
  BY <1>1 DEF LoginState, Login!Holding
<1>3. /\ t.session = s.session /\ t.login = s.login /\ t.dropped = s.dropped
      /\ t.logins = s.logins /\ t.queue = s.queue /\ t.finishing = Nothing
  BY <1>1 DEF LoginState, Login!Holding
<1> HIDE DEF t
<1>4. LoginOk(t)
  BY <1>2, <1>3 DEF LoginOk, Numbered, Login!Answering
<1>5. QED
  BY <1>4 DEF t

\* Telegram's answer is about a login that is still there.
LEMMA AnswerOk ==
  ASSUME LoginOk(srv), NEW kind \in Login!Stages, NEW verdict \in Login!Verdicts,
         Login!SignedIn(kind, verdict)
  PROVE  LoginOk(srv')
<1>1. /\ srv \in LoginState /\ srv.queue # <<>> /\ srv.login # Nothing /\ srv.finishing = Nothing
      /\ Login!Answering(srv)
  BY DEF LoginOk, Login!SignedIn, Login!Answering
<1>2. srv.login \in Login!Pending
  BY <1>1 DEF LoginState
<1>3. LoginOk(Login!Released(srv)) /\ Login!Released(srv).login = srv.login
  BY <1>1, ReleasedOk
<1>4. CASE verdict = "right"
  BY <1>1, <1>4, FinishingOk DEF Login!SignedIn
<1>5. CASE verdict = "password needed"
  <2> DEFINE l == [srv.login EXCEPT !.stage = "password"]
  <2>1. l \in Login!Pending /\ l.id = srv.login.id
    BY <1>2 DEF Login!Pending, Login!Stages
  <2>2. srv' = [Login!Released(srv) EXCEPT !.login = l]
    BY <1>1, <1>5 DEF Login!SignedIn, Login!Released, LoginState
  <2>3. QED
    BY <1>1, <1>3, <2>1, <2>2, ChangedOk
<1>6. CASE verdict \notin {"right", "password needed"}
  <2>1. srv' = Login!Released(Login!Failed(srv, verdict))
    BY <1>6 DEF Login!SignedIn
  <2>2. CASE verdict = "wrong" /\ srv.login.bad + 1 < MAX_CODE_ATTEMPTS
    <3> DEFINE l == [srv.login EXCEPT !.bad = @ + 1]
    <3>1. l \in Login!Pending /\ l.id = srv.login.id
      BY <1>2, <2>2, PanelAssumption DEF Login!Pending
    <3>2. srv' = [Login!Released(srv) EXCEPT !.login = l]
      BY <1>1, <2>1, <2>2 DEF Login!Failed, Login!Released, LoginState
    <3>3. QED
      BY <1>1, <1>3, <3>1, <3>2, ChangedOk
  <2>3. CASE ~(verdict = "wrong" /\ srv.login.bad + 1 < MAX_CODE_ATTEMPTS)
    BY <1>1, <2>1, <2>3, DroppedThenReleased DEF Login!Failed
  <2>4. QED
    BY <2>2, <2>3
<1>7. QED
  BY <1>4, <1>5, <1>6

\* Every step of the login keeps the invariant, whoever has the lock.
LEMMA NextLogin == ASSUME LoginOk(srv), [Login!Next]_<<srv, net>> PROVE LoginOk(srv')
<1>1. srv \in LoginState
  BY DEF LoginOk
<1>2. ASSUME NEW kind \in Waiting, Login!Appended(kind) PROVE LoginOk(srv')
  BY <1>2, QueuedOk DEF Login!Appended
<1>3. ASSUME NEW kind, Login!HasTurn(kind)
      PROVE  /\ srv.queue # <<>> /\ Head(srv.queue) = kind /\ ~srv.holding /\ srv.finishing = Nothing
             /\ LoginOk(Login!Released(srv)) /\ LoginOk(Login!Released(Login!Discarded(srv)))
  BY <1>3, ReleasedOk, DroppedThenReleased DEF Login!HasTurn, LoginOk, Login!Answering
<1>4. CASE UNCHANGED srv
  BY <1>4
<1>5. CASE Login!SaveCredentials
  <2>1. [srv EXCEPT !.cred = TRUE] \in LoginState
    BY <1>1 DEF LoginState
  <2>2. LoginOk([srv EXCEPT !.cred = TRUE])
    BY <1>1, <2>1 DEF LoginOk, LoginState, Numbered, Login!Answering
  <2>3. QED
    BY <1>5, <2>2 DEF Login!SaveCredentials
<1>6. CASE \/ Login!ServeStart \/ Login!ServeCancel \/ Login!ServeDisconnect
           \/ \E kind \in Login!Stages : Login!ServeAnswer(kind)
  BY <1>2, <1>6 DEF Login!ServeStart, Login!ServeCancel, Login!ServeDisconnect, Login!Queued,
                    Login!ServeAnswer, Waiting, Login!Kinds, Login!Starts, Login!Stages
<1>7. CASE Login!TurnStart
  <2>1. /\ srv.queue # <<>> /\ Head(srv.queue) \in Login!Starts /\ ~srv.holding
        /\ srv.finishing = Nothing /\ LoginOk(Login!Released(srv))
    BY <1>3, <1>7 DEF Login!TurnStart
  <2>2. /\ LoginOk(Login!Discarded(srv)) /\ Login!Discarded(srv).queue = srv.queue
        /\ Login!Discarded(srv).finishing = Nothing
    BY <2>1, DiscardedOk DEF Login!Answering
  <2>3. Head(srv.queue) \notin Login!Stages
    BY <2>1 DEF Login!Starts, Login!Stages
  <2>4. LoginOk(Login!Holding(Login!Discarded(srv)))
    BY <2>1, <2>2, <2>3, HoldingOk
  <2>5. QED
    BY <1>7, <2>1, <2>4 DEF Login!TurnStart
<1>8. CASE \E kind \in Login!Stages : Login!TurnAnswer(kind)
  <2>1. PICK kind \in Login!Stages : Login!TurnAnswer(kind)
    BY <1>8
  <2>3. srv.queue # <<>> /\ srv.finishing = Nothing /\ LoginOk(Login!Released(srv))
    BY <1>3, <2>1 DEF Login!TurnAnswer
  <2>4. Login!Live(srv) => LoginOk(Login!Holding(srv))
    BY <2>3, HoldingOk DEF Login!Live
  <2>5. QED
    BY <2>1, <2>3, <2>4 DEF Login!TurnAnswer
<1>9. CASE Login!TurnCancel
  BY <1>3, <1>9 DEF Login!TurnCancel
<1>10. CASE Login!TurnDisconnect
  <2> DEFINE r == Login!Released(Login!Discarded(srv))
             t == [r EXCEPT !.session = Login!NoSession, !.cred = FALSE]
  <2>1. LoginOk(r) /\ srv.queue # <<>> /\ srv.finishing = Nothing /\ srv' = t
    BY <1>3, <1>10 DEF Login!TurnDisconnect
  <2>2. r.login = Nothing /\ ~r.holding /\ r.finishing = Nothing
    BY <1>1, <2>1 DEF Login!Released, Login!Discarded, LoginState
  <2> HIDE DEF r
  <2>3. r \in LoginState
    BY <2>1 DEF LoginOk
  <2>10. Login!NoSession \in 0..MaxLogins
    BY PanelAssumption DEF Login!NoSession
  <2>4. t \in LoginState
    BY <2>3, <2>10 DEF LoginState
  <2>5. /\ t.session = 0 /\ t.login = Nothing /\ ~t.holding /\ t.finishing = Nothing
        /\ t.dropped = r.dropped /\ t.logins = r.logins
    BY <2>2, <2>3 DEF LoginState, Login!NoSession
  <2>6. 0 <= r.logins /\ r.dropped \subseteq 1..MaxLogins
    BY <2>3, PanelAssumption DEF LoginState, Login!Logins
  <2>7. 0 \notin r.dropped
    BY <2>6
  <2> HIDE DEF t
  <2>8. LoginOk(t)
    BY <2>1, <2>4, <2>5, <2>6, <2>7 DEF LoginOk, Login!Answering
  <2>9. QED
    BY <2>1, <2>8
<1>11. CASE \E sent \in BOOLEAN : Login!CodeSent(sent)
  <2>1. srv.queue # <<>> /\ srv.logins < MaxLogins /\ srv.finishing = Nothing
    BY <1>11 DEF LoginOk, Login!CodeSent, Login!Answering, Login!Starts, Login!Stages
  <2>2. QED
    BY <1>11, <2>1, ReleasedOk, StartedOk DEF Login!CodeSent
<1>12. CASE \E kind \in Login!Stages, verdict \in Login!Verdicts : Login!SignedIn(kind, verdict)
  BY <1>12, AnswerOk
<1>13. CASE Login!LoginExpires
  <2> DEFINE l == [srv.login EXCEPT !.live = FALSE]
  <2>1. srv.login # Nothing /\ srv.login \in Login!Pending
    BY <1>1, <1>13 DEF Login!LoginExpires, Login!Live, LoginState
  <2>2. l \in Login!Pending /\ l.id = srv.login.id
    BY <2>1 DEF Login!Pending
  <2>3. srv' = [srv EXCEPT !.login = l]
    BY <1>1, <1>13 DEF Login!LoginExpires, LoginState
  <2>4. QED
    BY <2>1, <2>2, <2>3, ChangedOk
<1>14. CASE Login!ExpireLater
  BY <1>14, DiscardedOk DEF Login!ExpireLater, Login!Answering
<1>15. CASE Login!Restart
  <2> DEFINE lost == {login.id : login \in {srv.login, srv.finishing} \ {Nothing}}
             d == srv.dropped \cup lost
  <2>1. srv' = [srv EXCEPT !.login = Nothing, !.finishing = Nothing, !.dropped = d,
                           !.queue = <<>>, !.holding = FALSE]
    BY <1>1, <1>15 DEF Login!Restart, LoginState
  <2>2. \A n \in lost : n \in Login!Logins /\ n <= srv.logins /\ n # srv.session
    BY <1>1 DEF LoginOk, LoginState, Numbered, Login!Pending
  <2>3. /\ d \in SUBSET Login!Logins /\ srv.session \notin d /\ \A n \in d : n <= srv.logins
    BY <1>1, <2>2 DEF LoginOk, LoginState
  <2> HIDE DEF d, lost
  <2>7. <<>> \in Seq(Waiting)
    OBVIOUS
  <2>4. srv' \in LoginState
    BY <1>1, <2>1, <2>3, <2>7 DEF LoginState
  <2>5. /\ srv'.session = srv.session /\ srv'.logins = srv.logins /\ srv'.login = Nothing
        /\ srv'.finishing = Nothing /\ srv'.dropped = d /\ ~srv'.holding
    BY <1>1, <2>1 DEF LoginState
  <2>6. QED
    BY <2>3, <2>4, <2>5 DEF LoginOk, Login!Answering
<1>16. CASE \E kind \in Login!Kinds : Login!Send(kind)
  BY <1>4, <1>16 DEF Login!Send
<1>17. CASE Login!FinishEnds
  BY <1>17, FinishEndsOk
<1>18. QED
  BY <1>4, <1>5, <1>6, <1>7, <1>8, <1>9, <1>10, <1>11, <1>12, <1>13, <1>14, <1>15, <1>16, <1>17
     DEF Login!Next

\* A login that was cancelled, given up or lost by a restart never becomes the
\* session, and what Telegram is asked about is still there when it answers.
THEOREM DroppedStaysDropped == Spec => []DroppedIsNeverSession
<1> DEFINE Inv == part = "login" => LoginOk(srv)
<1>1. Init => Inv
  BY LoginInit DEF Init
<1>2. Inv /\ [Next]_vars => Inv'
  BY PartStays, NextLogin
<1>3. Inv => DroppedIsNeverSession
  BY DEF LoginOk, DroppedIsNeverSession, Login!DroppedIsNeverSession
<1> HIDE DEF Inv
<1>4. QED
  BY <1>1, <1>2, <1>3, PTL DEF Spec

-----------------------------------------------------------------------------
(* The alerts of a corrected price: a recipient is one request's to call, from  *)
(* its reservation until the outcome is in its row or the request is cut short. *)

AnyRow == [price : Manual!Price \cup {Nothing}, source : {Nothing, "manual", "parsed"},
           original : Manual!Price \cup {Nothing}]
Outcome == {"none", "sent", "failed", "not_configured"}
RequestState ==
  [st : {"new", "read", "reserved", "next", "calling", "accepted", "done"},
   seen : AnyRow, price : Manual!Price, todo : SUBSET Recipients,
   who : Recipients \cup {Nothing}, got : [Recipients -> Outcome]]
Requests == Manual!Patches \cup Manual!Reverts
DatabaseState ==
  [row : AnyRow \cup {Nothing}, delivery : [Recipients -> Manual!Status], target : RuleTargets,
   configured : BOOLEAN, lock : Manual!Patches \cup {Nothing}]
CallState ==
  [req : [Requests -> RequestState], calls : [Recipients -> Nat], accepted : [Recipients -> Nat],
   overlap : BOOLEAN, cut : BOOLEAN, faults : Nat]

Active(q) == q.st \in {"reserved", "next", "calling", "accepted"}
Busy(q) == q.st \in {"calling", "accepted"}
Has(q, r) == Active(q) /\ (r \in q.todo \/ (Busy(q) /\ r = q.who) \/ q.got[r] # "none")

\* What a request knows of its recipients is what was done about them.
RequestOk(n, q) ==
  /\ Busy(q) =>
       /\ q.who \in Recipients /\ q.who \notin q.todo /\ q.got[q.who] = "none"
       /\ n.calls[q.who] = 1 /\ n.accepted[q.who] = (IF q.st = "accepted" THEN 1 ELSE 0)
  /\ q.st = "reserved" => q.got = Manual!NoOutcome
  /\ q.st \in {"new", "read"} => q.todo = {} /\ q.got = Manual!NoOutcome
  /\ Active(q) =>
       \A r \in Recipients :
         /\ r \in q.todo => n.calls[r] = 0 /\ n.accepted[r] = 0 /\ q.got[r] = "none"
         /\ q.got[r] = "sent" => n.accepted[r] = 1
\* A recipient without a row was not called, and a row says what was done.
RecipientOk(s, n, r) ==
  /\ s.row # Nothing /\ s.delivery[r] = "none" => n.calls[r] = 0 /\ n.accepted[r] = 0
  /\ s.delivery[r] = "sent" => n.accepted[r] = 1
  /\ n.calls[r] <= 1
Followed(s, n, r) ==
  s.delivery[r] = "pending" => n.cut \/ \E p \in Manual!Patches : Has(n.req[p], r)
ManualOk(s, n) ==
  /\ s \in DatabaseState /\ n \in CallState
  /\ s.row = Nothing => s.delivery = Manual!NoOutcome
  /\ \A p \in Manual!Patches :
       /\ RequestOk(n, n.req[p])
       /\ \A r \in Recipients : Has(n.req[p], r) =>
            /\ s.row # Nothing => s.delivery[r] = "pending"
            /\ \A q \in Manual!Patches : Has(n.req[q], r) => p = q
  /\ \A r \in Recipients : RecipientOk(s, n, r) /\ Followed(s, n, r)

\* A step of one request, which touches its own recipients and those nobody has.
Mine(s, n, p, r) == Has(n.req[p], r) \/ (s.row # Nothing /\ s.delivery[r] = "none")
PatchStep(s, n, t, m, p) ==
  /\ t \in DatabaseState /\ m \in CallState
  /\ \A q \in Manual!Patches \ {p} : m.req[q] = n.req[q]
  /\ n.cut => m.cut
  /\ s.row = Nothing <=> t.row = Nothing
  /\ t.row = Nothing => t.delivery = Manual!NoOutcome
  /\ RequestOk(m, m.req[p])
  /\ \A r \in Recipients :
       /\ Mine(s, n, p, r) \/ (/\ m.calls[r] = n.calls[r] /\ m.accepted[r] = n.accepted[r]
                               /\ t.delivery[r] = s.delivery[r])
       /\ Has(m.req[p], r) => Mine(s, n, p, r) /\ (t.row # Nothing => t.delivery[r] = "pending")
       /\ Mine(s, n, p, r) =>
            /\ RecipientOk(t, m, r)
            /\ t.delivery[r] = "pending" => m.cut \/ Has(m.req[p], r)

LEMMA PatchStepOk ==
  ASSUME NEW s, NEW n, NEW t, NEW m, NEW p \in Manual!Patches,
         ManualOk(s, n), PatchStep(s, n, t, m, p)
  PROVE  ManualOk(t, m)
<1>1. ASSUME NEW q \in Manual!Patches, NEW r \in Recipients, q # p, Has(n.req[q], r)
      PROVE  ~Mine(s, n, p, r)
  BY <1>1 DEF ManualOk, Mine
<1>2. ASSUME NEW q \in Manual!Patches, q # p PROVE m.req[q] = n.req[q]
  BY <1>2 DEF PatchStep
<1>3. n \in CallState /\ \A q \in Manual!Patches : n.req[q] \in RequestState
  BY DEF ManualOk, CallState, Requests
<1>4. ASSUME NEW q \in Manual!Patches PROVE RequestOk(m, m.req[q])
  <2>1. CASE q = p
    BY <2>1 DEF PatchStep
  <2>2. CASE q # p
    <3> DEFINE x == n.req[q]
    <3>1. m.req[q] = x /\ RequestOk(n, x) /\ x \in RequestState
      BY <1>2, <1>3, <2>2 DEF ManualOk
    <3>2. \A r \in Recipients : Has(x, r) => m.calls[r] = n.calls[r] /\ m.accepted[r] = n.accepted[r]
      BY <1>1, <2>2 DEF PatchStep
    <3> HIDE DEF x
    <3>3. RequestOk(m, x)
      BY <3>1, <3>2 DEF RequestOk, Has, Active, Busy, RequestState
    <3>4. QED
      BY <3>1, <3>3
  <2>3. QED
    BY <2>1, <2>2
<1>5. ASSUME NEW r \in Recipients, NEW q \in Manual!Patches, Has(m.req[q], r)
      PROVE  /\ t.row # Nothing => t.delivery[r] = "pending"
             /\ \A o \in Manual!Patches : Has(m.req[o], r) => q = o
  <2>1. CASE q = p
    <3>1. Mine(s, n, p, r) /\ (t.row # Nothing => t.delivery[r] = "pending")
      BY <1>5, <2>1 DEF PatchStep
    <3>2. \A o \in Manual!Patches : Has(m.req[o], r) => o = p
      BY <1>1, <1>2, <3>1
    <3>3. QED
      BY <2>1, <3>1, <3>2
  <2>2. CASE q # p
    <3>1. Has(n.req[q], r) /\ ~Mine(s, n, p, r)
      BY <1>1, <1>2, <1>5, <2>2
    <3>2. t.delivery[r] = s.delivery[r] /\ ~Has(m.req[p], r)
      BY <3>1 DEF PatchStep
    <3>3. t.row # Nothing => t.delivery[r] = "pending"
      BY <3>1, <3>2 DEF PatchStep, ManualOk
    <3>4. \A o \in Manual!Patches : Has(m.req[o], r) => q = o
      BY <1>2, <3>1, <3>2 DEF ManualOk
    <3>5. QED
      BY <3>3, <3>4
  <2>3. QED
    BY <2>1, <2>2
<1>6. ASSUME NEW r \in Recipients PROVE RecipientOk(t, m, r) /\ Followed(t, m, r)
  <2>1. CASE Mine(s, n, p, r)
    BY <2>1 DEF PatchStep, Followed
  <2>2. CASE ~Mine(s, n, p, r)
    <3>1. /\ m.calls[r] = n.calls[r] /\ m.accepted[r] = n.accepted[r]
          /\ t.delivery[r] = s.delivery[r] /\ (s.row = Nothing <=> t.row = Nothing) /\ (n.cut => m.cut)
      BY <2>2 DEF PatchStep
    <3>2. RecipientOk(s, n, r) /\ Followed(s, n, r)
      BY DEF ManualOk
    <3>3. RecipientOk(t, m, r)
      BY <3>1, <3>2 DEF RecipientOk
    <3>4. ASSUME t.delivery[r] = "pending", ~m.cut PROVE \E q \in Manual!Patches : Has(m.req[q], r)
      <4>1. PICK q \in Manual!Patches : Has(n.req[q], r)
        BY <3>1, <3>2, <3>4 DEF Followed
      <4>2. q # p
        BY <2>2, <4>1 DEF Mine
      <4>3. QED
        BY <1>2, <4>1, <4>2
    <3>5. QED
      BY <3>3, <3>4 DEF Followed
  <2>3. QED
    BY <2>1, <2>2
<1>7. QED
  BY <1>4, <1>5, <1>6 DEF ManualOk, PatchStep

LEMMA RequestTyped ==
  ASSUME NEW s, NEW n, ManualOk(s, n), NEW p \in Requests
  PROVE  /\ s \in DatabaseState /\ n \in CallState /\ n.req[p] \in RequestState
         /\ n.req \in [Requests -> RequestState]
BY DEF ManualOk, CallState

\* Reverts are other requests than corrections.
LEMMA PatchesAreRequests ==
  /\ Manual!Patches \subseteq Requests
  /\ \A v \in Manual!Reverts : v \in Requests /\ v \notin Manual!Patches
BY PanelAssumption DEF Requests, Manual!Patches, Manual!Reverts

\* A step of one request that neither calls nor writes a row.
LEMMA QuietStep ==
  ASSUME NEW s, NEW n, NEW p \in Manual!Patches, ManualOk(s, n),
         NEW x \in RequestState, NEW c \in BOOLEAN, NEW f \in Nat,
         NEW l \in Manual!Patches \cup {Nothing},
         n.cut => c, RequestOk(n, x),
         \A r \in Recipients :
           /\ Has(x, r) => Has(n.req[p], r)
           /\ Has(n.req[p], r) /\ s.delivery[r] = "pending" => c \/ Has(x, r)
  PROVE  ManualOk([s EXCEPT !.lock = l], [n EXCEPT !.req[p] = x, !.cut = c, !.faults = f])
<1> DEFINE t == [s EXCEPT !.lock = l]
           m == [n EXCEPT !.req[p] = x, !.cut = c, !.faults = f]
<1>1. p \in Requests /\ s \in DatabaseState /\ n \in CallState
      /\ n.req \in [Requests -> RequestState]
  BY PatchesAreRequests, RequestTyped
<1>2. t \in DatabaseState /\ t.row = s.row /\ t.delivery = s.delivery
  BY <1>1 DEF DatabaseState
<1>3. m \in CallState
  BY <1>1 DEF CallState
<1>4. /\ m.req = [n.req EXCEPT ![p] = x] /\ m.calls = n.calls /\ m.accepted = n.accepted /\ m.cut = c
  BY <1>1 DEF CallState
<1>5. m.req[p] = x /\ \A q \in Manual!Patches \ {p} : m.req[q] = n.req[q]
  BY <1>1, <1>4, PatchesAreRequests
<1> HIDE DEF t, m
<1>6. RequestOk(m, x)
  BY <1>4 DEF RequestOk
<1>7. \A r \in Recipients : RecipientOk(s, n, r) /\ Followed(s, n, r)
  BY DEF ManualOk
<1>8. \A r \in Recipients : RecipientOk(t, m, r)
  BY <1>2, <1>4, <1>7 DEF RecipientOk
<1>9. ASSUME NEW r \in Recipients, Has(x, r)
      PROVE  Mine(s, n, p, r) /\ (t.row # Nothing => t.delivery[r] = "pending")
  BY <1>2, <1>9 DEF Mine, ManualOk
<1>10. ASSUME NEW r \in Recipients, Mine(s, n, p, r), t.delivery[r] = "pending"
       PROVE  m.cut \/ Has(m.req[p], r)
  BY <1>2, <1>4, <1>5, <1>10 DEF Mine
<1>11. s.row = Nothing => s.delivery = Manual!NoOutcome
  BY DEF ManualOk
<1>12. PatchStep(s, n, t, m, p)
  BY <1>2, <1>3, <1>4, <1>5, <1>6, <1>8, <1>9, <1>10, <1>11 DEF PatchStep
<1>13. QED
  BY <1>12, PatchStepOk DEF t, m

\* A correction is read, or comes to its end, before it has anybody to call.
LEMMA ReadOk ==
  ASSUME ManualOk(srv, net), NEW p \in Manual!Patches,
         Manual!PatchRead(p) \/ Manual!PatchEnds(p)
  PROVE  ManualOk(srv', net')
<1> DEFINE q == net.req[p]
<1>1. p \in Requests /\ srv \in DatabaseState /\ net \in CallState /\ q \in RequestState
      /\ RequestOk(net, q) /\ net.req \in [Requests -> RequestState]
  BY PatchesAreRequests, RequestTyped DEF ManualOk
<1>2. PICK x \in RequestState :
        /\ net' = [net EXCEPT !.req[p] = x] /\ UNCHANGED srv
        /\ x.st \in {"read", "done"} /\ x.todo = q.todo /\ x.got = q.got
  <2>1. CASE Manual!PatchRead(p)
    <3>1. PICK price \in Corrections :
            net' = [net EXCEPT !.req[p].st = "read", !.req[p].seen = srv.row, !.req[p].price = price]
      BY <2>1 DEF Manual!PatchRead
    <3> DEFINE x == [q EXCEPT !.st = "read", !.seen = srv.row, !.price = price]
    <3>2. srv.row \in AnyRow /\ price \in Manual!Price /\ UNCHANGED srv
      BY <1>1, <2>1 DEF Manual!PatchRead, DatabaseState, Manual!Price
    <3>3. x \in RequestState /\ x.st = "read" /\ x.todo = q.todo /\ x.got = q.got
      BY <1>1, <3>2 DEF RequestState
    <3>4. net' = [net EXCEPT !.req[p] = x]
      BY <1>1, <3>1 DEF CallState, RequestState
    <3>5. QED
      BY <3>2, <3>3, <3>4
  <2>2. CASE Manual!PatchEnds(p)
    <3> DEFINE x == [q EXCEPT !.st = "done"]
    <3>1. x \in RequestState /\ x.st = "done" /\ x.todo = q.todo /\ x.got = q.got
      BY <1>1 DEF RequestState
    <3>2. net' = [net EXCEPT !.req[p] = x] /\ UNCHANGED srv
      BY <1>1, <2>2 DEF Manual!PatchEnds, CallState, RequestState
    <3>3. QED
      BY <3>1, <3>2
  <2>3. QED
    BY <2>1, <2>2
<1>3. q.st \in {"new", "read"} /\ q.todo = {} /\ q.got = Manual!NoOutcome
  BY <1>1 DEF Manual!PatchRead, Manual!PatchEnds, Manual!At, RequestOk
<1>4. RequestOk(net, x)
  BY <1>2, <1>3 DEF RequestOk, Active, Busy
<1>5. \A r \in Recipients : ~Has(x, r) /\ ~Has(q, r)
  BY <1>2, <1>3 DEF Has, Active
<1>6. /\ net' = [net EXCEPT !.req[p] = x, !.cut = net.cut, !.faults = net.faults]
      /\ srv' = [srv EXCEPT !.lock = srv.lock]
  BY <1>1, <1>2 DEF CallState, DatabaseState
<1>7. net.cut \in BOOLEAN /\ net.faults \in Nat /\ srv.lock \in Manual!Patches \cup {Nothing}
  BY <1>1 DEF CallState, DatabaseState
<1>8. QED
  BY <1>4, <1>5, <1>6, <1>7, QuietStep

\* Rows that are left pending by a lowered target are known to be.
LEMMA CheckOk ==
  ASSUME ManualOk(srv, net), NEW p \in Manual!Patches, Manual!PatchCheck(p)
  PROVE  ManualOk(srv', net')
<1> DEFINE q == net.req[p]
           hit == Manual!TargetHit(q.price, srv.target)
           st == IF q.todo # {} /\ hit THEN "next" ELSE "done"
           c == net.cut \/ (q.todo # {} /\ ~hit)
           x == [q EXCEPT !.st = st]
<1>1. p \in Requests /\ srv \in DatabaseState /\ net \in CallState /\ q \in RequestState
      /\ RequestOk(net, q) /\ net.req \in [Requests -> RequestState]
  BY PatchesAreRequests, RequestTyped DEF ManualOk
<1>2. q.st = "reserved" /\ q.got = Manual!NoOutcome
  BY <1>1 DEF Manual!PatchCheck, RequestOk
<1>3. x \in RequestState /\ x.st = st /\ x.todo = q.todo /\ x.got = q.got
  BY <1>1 DEF RequestState
<1>4. c \in BOOLEAN /\ (net.cut => c)
  OBVIOUS
<1>5. net' = [net EXCEPT !.req[p] = x, !.cut = c] /\ UNCHANGED srv
  BY <1>1 DEF Manual!PatchCheck, CallState, RequestState
<1>6. RequestOk(net, x)
  BY <1>1, <1>2, <1>3 DEF RequestOk, Active, Busy
<1>7. \A r \in Recipients : Manual!NoOutcome[r] = "none"
  BY DEF Manual!NoOutcome
<1>8. ASSUME NEW r \in Recipients
      PROVE  (Has(x, r) => Has(q, r)) /\ (Has(q, r) => c \/ Has(x, r))
  BY <1>2, <1>3, <1>7 DEF Has, Active, Busy
<1> HIDE DEF c, x
<1>9. /\ net' = [net EXCEPT !.req[p] = x, !.cut = c, !.faults = net.faults]
      /\ srv' = [srv EXCEPT !.lock = srv.lock]
  BY <1>1, <1>5 DEF CallState, DatabaseState
<1>10. net.faults \in Nat /\ srv.lock \in Manual!Patches \cup {Nothing}
  BY <1>1 DEF CallState, DatabaseState
<1>11. QED
  BY <1>3, <1>4, <1>6, <1>8, <1>9, <1>10, QuietStep

\* A request that cannot get the lock is cut short with what it has not written.
LEMMA LockedOk ==
  ASSUME ManualOk(srv, net), NEW p \in Manual!Patches, Manual!PatchLocked(p)
  PROVE  ManualOk(srv', net')
<1> DEFINE q == net.req[p]
           c == net.cut \/ q.st = "next"
           held == srv.lock \notin {Nothing, p}
           f == IF held THEN net.faults ELSE net.faults + 1
           x == [q EXCEPT !.st = "done"]
<1>1. p \in Requests /\ srv \in DatabaseState /\ net \in CallState /\ q \in RequestState
      /\ RequestOk(net, q) /\ net.req \in [Requests -> RequestState]
  BY PatchesAreRequests, RequestTyped DEF ManualOk
<1>2. q.st \in {"read", "next"}
  BY DEF Manual!PatchLocked
<1>3. x \in RequestState /\ x.st = "done"
  BY <1>1 DEF RequestState
<1>4. c \in BOOLEAN /\ (net.cut => c)
  OBVIOUS
<1>5. f \in Nat
  BY <1>1 DEF CallState
<1>6. net' = [net EXCEPT !.req[p] = x, !.cut = c, !.faults = f] /\ srv' = [srv EXCEPT !.lock = srv.lock]
  BY <1>1 DEF Manual!PatchLocked, CallState, RequestState, DatabaseState
<1>7. RequestOk(net, x)
  BY <1>3 DEF RequestOk, Active, Busy
<1>8. ASSUME NEW r \in Recipients PROVE ~Has(x, r) /\ (Has(q, r) => c)
  BY <1>2, <1>3 DEF Has, Active
<1>9. srv.lock \in Manual!Patches \cup {Nothing}
  BY <1>1 DEF DatabaseState
<1> HIDE DEF c, x, f
<1>10. QED
  BY <1>3, <1>4, <1>5, <1>6, <1>7, <1>8, <1>9, QuietStep

\* The outcome of a call, which Telegram has accepted if it is called sent.
LEMMA AnswersOk ==
  ASSUME ManualOk(srv, net), NEW p \in Manual!Patches, Manual!BotAnswers(p)
  PROVE  ManualOk(srv', net')
<1> DEFINE q == net.req[p]
<1>1. p \in Requests /\ srv \in DatabaseState /\ net \in CallState /\ q \in RequestState
      /\ RequestOk(net, q) /\ net.req \in [Requests -> RequestState]
  BY PatchesAreRequests, RequestTyped DEF ManualOk
<1>2. PICK o \in {"sent", "failed"} :
        /\ o = "sent" => q.st = "accepted"
        /\ net' = [net EXCEPT !.req[p].st = "next", !.req[p].who = Nothing,
                              !.req[p].got[q.who] = o,
                              !.faults = IF o = "failed" THEN @ + 1 ELSE @]
  BY DEF Manual!BotAnswers, Manual!At
<1> DEFINE x == [q EXCEPT !.st = "next", !.who = Nothing, !.got = [@ EXCEPT ![q.who] = o]]
           f == IF o = "failed" THEN net.faults + 1 ELSE net.faults
<1>3. Busy(q) /\ q.who \in Recipients /\ UNCHANGED srv
  BY <1>1 DEF Manual!BotAnswers, Busy, RequestOk
<1>4. q.got \in [Recipients -> Outcome] /\ o \in Outcome
  BY <1>1 DEF RequestState, Outcome
<1>5. /\ x.st = "next" /\ x.todo = q.todo /\ x.got = [q.got EXCEPT ![q.who] = o]
      /\ x \in RequestState
  BY <1>1, <1>3, <1>4 DEF RequestState
<1>6. /\ x.got[q.who] = o
      /\ \A r \in Recipients : r # q.who => x.got[r] = q.got[r]
  BY <1>3, <1>4, <1>5
<1>7. net' = [net EXCEPT !.req[p] = x, !.cut = net.cut, !.faults = f]
      /\ srv' = [srv EXCEPT !.lock = srv.lock]
  <2>1. srv' = [srv EXCEPT !.lock = srv.lock]
    BY <1>1, <1>3 DEF DatabaseState
  <2>2. [[[q EXCEPT !.st = "next"] EXCEPT !.who = Nothing] EXCEPT !.got[q.who] = o] = x
    BY <1>1 DEF RequestState
  <2> DEFINE y == [q EXCEPT !.st = "next"]
             z == [y EXCEPT !.who = Nothing]
             a == [net EXCEPT !.req[p] = y]
             b == [net EXCEPT !.req[p] = z]
             d == [net EXCEPT !.req[p] = x]
  <2>5. net' = [[[[net EXCEPT !.req[p].st = "next"] EXCEPT !.req[p].who = Nothing]
                  EXCEPT !.req[p].got[q.who] = o] EXCEPT !.faults = IF o = "failed" THEN @ + 1 ELSE @]
    BY <1>2
  <2>6. [net EXCEPT !.req[p].st = "next"] = a
    OBVIOUS
  <2>7. a.req[p] = y /\ [a EXCEPT !.req[p] = z] = b
    BY <1>1 DEF CallState
  <2>8. [a EXCEPT !.req[p].who = Nothing] = b
    BY <2>7
  <2>9. b.req[p] = z /\ [b EXCEPT !.req[p] = x] = d
    BY <1>1 DEF CallState
  <2>10. [b EXCEPT !.req[p].got[q.who] = o] = d
    <3>1. [b EXCEPT !.req[p].got[q.who] = o] = [b EXCEPT !.req[p] = [b.req[p] EXCEPT !.got[q.who] = o]]
      OBVIOUS
    <3>2. QED
      BY <2>2, <2>9, <3>1
  <2>11. d.faults = net.faults
    BY <1>1 DEF CallState
  <2>3. net' = [d EXCEPT !.faults = f]
    BY <2>5, <2>6, <2>8, <2>10, <2>11
  <2>4. QED
    BY <1>1, <2>1, <2>3 DEF CallState
<1>8. f \in Nat /\ net.cut \in BOOLEAN /\ srv.lock \in Manual!Patches \cup {Nothing}
  BY <1>1 DEF CallState, DatabaseState
<1> HIDE DEF x, f
<1>9. RequestOk(net, x)
  BY <1>1, <1>2, <1>3, <1>5, <1>6 DEF RequestOk, Active, Busy
<1>10. ASSUME NEW r \in Recipients
       PROVE  Has(x, r) <=> Has(q, r)
  BY <1>3, <1>5, <1>6 DEF Has, Active, Busy
<1>11. QED
  BY <1>5, <1>7, <1>8, <1>9, <1>10, QuietStep

\* The changes of a request's record, and the calls that are counted.
Put(n, p, x) == [n EXCEPT !.req[p] = x]
Called(n, r) == [n EXCEPT !.calls[r] = @ + 1]
Delivered(n, r) == [n EXCEPT !.accepted[r] = @ + 1]

LEMMA PutKeeps ==
  ASSUME NEW n \in CallState, NEW p \in Requests, NEW x \in RequestState
  PROVE  /\ Put(n, p, x) \in CallState /\ Put(n, p, x).req = [n.req EXCEPT ![p] = x]
         /\ Put(n, p, x).calls = n.calls /\ Put(n, p, x).accepted = n.accepted
         /\ Put(n, p, x).cut = n.cut
BY DEF Put, CallState
LEMMA PutTwice ==
  ASSUME NEW n \in CallState, NEW p \in Requests, NEW x, NEW y
  PROVE  Put(n, p, x).req[p] = x /\ Put(Put(n, p, x), p, y) = Put(n, p, y)
BY DEF Put, CallState
LEMMA CalledKeeps ==
  ASSUME NEW n \in CallState, NEW r \in Recipients
  PROVE  /\ Called(n, r) \in CallState /\ Called(n, r).req = n.req /\ Called(n, r).cut = n.cut
         /\ Called(n, r).calls = [n.calls EXCEPT ![r] = @ + 1]
         /\ Called(n, r).accepted = n.accepted
<1>1. Called(n, r) \in CallState
  BY DEF Called, CallState
<1>2. QED
  BY <1>1 DEF Called, CallState
LEMMA DeliveredKeeps ==
  ASSUME NEW n \in CallState, NEW r \in Recipients
  PROVE  /\ Delivered(n, r) \in CallState /\ Delivered(n, r).req = n.req
         /\ Delivered(n, r).cut = n.cut /\ Delivered(n, r).calls = n.calls
         /\ Delivered(n, r).accepted = [n.accepted EXCEPT ![r] = @ + 1]
<1>1. Delivered(n, r) \in CallState
  BY DEF Delivered, CallState
<1>2. QED
  BY <1>1 DEF Delivered, CallState

\* Telegram has the message of the recipient that is called.
LEMMA AcceptsOk ==
  ASSUME ManualOk(srv, net), NEW p \in Manual!Patches, Manual!BotAccepts(p)
  PROVE  ManualOk(srv', net')
<1> DEFINE q == net.req[p]
           x == [q EXCEPT !.st = "accepted"]
<1>1. p \in Requests /\ srv \in DatabaseState /\ net \in CallState /\ q \in RequestState
      /\ RequestOk(net, q) /\ net.req \in [Requests -> RequestState]
  BY PatchesAreRequests, RequestTyped DEF ManualOk
<1>2. PICK w \in Recipients : w = q.who
  BY <1>1 DEF Manual!BotAccepts, Manual!At, RequestOk, Busy
<1>3. /\ q.st = "calling" /\ w \notin q.todo /\ q.got[w] = "none"
      /\ net.calls[w] = 1 /\ net.accepted[w] = 0
  BY <1>1, <1>2 DEF Manual!BotAccepts, Manual!At, RequestOk, Busy
<1>4. x \in RequestState /\ x.st = "accepted" /\ x.who = w /\ x.todo = q.todo /\ x.got = q.got
  BY <1>1, <1>2 DEF RequestState
<1>5. net' = [net EXCEPT !.req[p] = x, !.accepted[w] = @ + 1] /\ UNCHANGED srv
  BY <1>2 DEF Manual!BotAccepts
<1> HIDE DEF x
<1>6. /\ net'.req = [net.req EXCEPT ![p] = x]
      /\ net'.accepted = [net.accepted EXCEPT ![w] = @ + 1]
      /\ net'.calls = net.calls /\ net'.cut = net.cut /\ net' \in CallState
  <2>1. net' = Delivered(Put(net, p, x), w)
    BY <1>5 DEF Put, Delivered
  <2>2. /\ Put(net, p, x) \in CallState /\ Put(net, p, x).req = [net.req EXCEPT ![p] = x]
        /\ Put(net, p, x).calls = net.calls /\ Put(net, p, x).accepted = net.accepted
        /\ Put(net, p, x).cut = net.cut
    BY <1>1, <1>4, PutKeeps
  <2>3. QED
    BY <2>1, <2>2, DeliveredKeeps
<1>7. net'.req[p] = x /\ \A o \in Manual!Patches \ {p} : net'.req[o] = net.req[o]
  BY <1>1, <1>6, PatchesAreRequests
<1>8. net.accepted \in [Recipients -> Nat]
  BY <1>1 DEF CallState
<1>9. net'.accepted[w] = 1 /\ \A r \in Recipients : r # w => net'.accepted[r] = net.accepted[r]
  BY <1>3, <1>6, <1>8
<1>10. RequestOk(net', x)
  BY <1>1, <1>3, <1>4, <1>6, <1>9 DEF RequestOk, Busy, Active
<1>11. \A r \in Recipients : Has(x, r) <=> Has(q, r)
  BY <1>2, <1>3, <1>4 DEF Has, Active, Busy
<1>12. /\ \A r \in Recipients : RecipientOk(srv, net, r)
       /\ \A r \in Recipients : Has(q, r) /\ srv.row # Nothing => srv.delivery[r] = "pending"
       /\ srv.row = Nothing => srv.delivery = Manual!NoOutcome
  BY DEF ManualOk
<1>13. Has(q, w)
  BY <1>2, <1>3 DEF Has, Active, Busy
<1>14. srv.delivery[w] # "sent" /\ (srv.row # Nothing => srv.delivery[w] # "none")
  BY <1>12, <1>13 DEF Manual!NoOutcome
<1>15. \A r \in Recipients : RecipientOk(srv, net', r)
  BY <1>3, <1>6, <1>9, <1>12, <1>14 DEF RecipientOk
<1>16. PatchStep(srv, net, srv', net', p)
  <2>1. srv' = srv
    BY <1>5
  <2>2. ASSUME NEW r \in Recipients
        PROVE  /\ Mine(srv, net, p, r) \/ net'.accepted[r] = net.accepted[r]
               /\ Has(x, r) => Mine(srv, net, p, r) /\ (srv.row # Nothing => srv.delivery[r] = "pending")
               /\ Mine(srv, net, p, r) /\ srv.delivery[r] = "pending" => Has(x, r)
    BY <1>9, <1>11, <1>12, <1>13 DEF Mine
  <2>3. QED
    BY <1>1, <1>6, <1>7, <1>10, <1>12, <1>15, <2>1, <2>2 DEF PatchStep
<1>17. QED
  BY <1>16, PatchStepOk

\* The next recipient is called for the first time, if the bot is configured.
LEMMA CallOk ==
  ASSUME ManualOk(srv, net), NEW p \in Manual!Patches, Manual!NextCall(p)
  PROVE  ManualOk(srv', net')
<1> DEFINE q == net.req[p]
           l == IF Manual!Unwritten(p) THEN p ELSE srv.lock
<1>1. p \in Requests /\ srv \in DatabaseState /\ net \in CallState /\ q \in RequestState
      /\ RequestOk(net, q) /\ net.req \in [Requests -> RequestState]
  BY PatchesAreRequests, RequestTyped DEF ManualOk
<1>2. PICK r \in q.todo :
        IF srv.row = Nothing
        THEN net' = [net EXCEPT !.req[p].st = "done"] /\ UNCHANGED srv
        ELSE /\ srv' = [srv EXCEPT !.lock = IF Manual!Unwritten(p) THEN p ELSE @]
             /\ net' = IF srv.configured
                         THEN [net EXCEPT !.req[p].st = "calling", !.req[p].who = r,
                                          !.req[p].todo = @ \ {r}, !.calls[r] = @ + 1]
                         ELSE [net EXCEPT !.req[p].got[r] = "not_configured", !.req[p].todo = @ \ {r}]
  BY DEF Manual!NextCall
<1>3. /\ q.st = "next" /\ r \in Recipients /\ q.got[r] = "none" /\ q.todo \subseteq Recipients
      /\ net.calls[r] = 0 /\ net.accepted[r] = 0
  BY <1>1 DEF Manual!NextCall, Manual!At, RequestOk, RequestState, Active
<1>4. net.cut \in BOOLEAN /\ net.faults \in Nat /\ srv.lock \in Manual!Patches \cup {Nothing}
      /\ net.calls \in [Recipients -> Nat] /\ q.got \in [Recipients -> Outcome]
  BY <1>1 DEF CallState, DatabaseState, RequestState
<1>5. CASE srv.row = Nothing
  <2> DEFINE x == [q EXCEPT !.st = "done"]
  <2>1. x \in RequestState /\ x.st = "done"
    BY <1>1 DEF RequestState
  <2>2. net' = [net EXCEPT !.req[p] = x] /\ UNCHANGED srv
    BY <1>2, <1>5
  <2> HIDE DEF x
  <2>3. /\ net' = [net EXCEPT !.req[p] = x, !.cut = net.cut, !.faults = net.faults]
        /\ srv' = [srv EXCEPT !.lock = srv.lock]
    BY <1>1, <2>2 DEF CallState, DatabaseState
  <2>4. RequestOk(net, x) /\ \A k \in Recipients : ~Has(x, k)
    BY <2>1 DEF RequestOk, Has, Active, Busy
  <2>5. \A k \in Recipients : srv.delivery[k] = "none"
    BY <1>5 DEF ManualOk, Manual!NoOutcome
  <2>6. QED
    BY <1>4, <2>1, <2>3, <2>4, <2>5, QuietStep
<1>6. CASE srv.row # Nothing /\ ~srv.configured
  <2> DEFINE y == [q EXCEPT !.got[r] = "not_configured"]
             x == [y EXCEPT !.todo = @ \ {r}]
  <2>1. y \in RequestState /\ y.got = [q.got EXCEPT ![r] = "not_configured"]
        /\ y.st = q.st /\ y.who = q.who /\ y.todo = q.todo
    BY <1>1, <1>3, <1>4 DEF RequestState, Outcome
  <2>2. x \in RequestState /\ x.st = "next" /\ x.todo = q.todo \ {r} /\ x.got = y.got
    BY <1>3, <2>1 DEF RequestState
  <2>3. x.got[r] = "not_configured" /\ \A k \in Recipients : k # r => x.got[k] = q.got[k]
    BY <1>3, <1>4, <2>1, <2>2
  <2>4. net' = Put(net, p, x)
    <3>1. net' = [net EXCEPT !.req[p].got[r] = "not_configured", !.req[p].todo = @ \ {r}]
      BY <1>2, <1>6
    <3>2. PICK one : one = [net EXCEPT !.req[p].got[r] = "not_configured"]
      OBVIOUS
    <3>3. net' = [one EXCEPT !.req[p].todo = @ \ {r}]
      BY <3>1, <3>2
    <3>4. one = Put(net, p, y)
      BY <3>2 DEF Put
    <3>5. one.req[p] = y /\ Put(one, p, x) = Put(net, p, x)
      BY <1>1, <3>4, PutTwice
    <3>6. [one EXCEPT !.req[p].todo = @ \ {r}] = Put(one, p, [one.req[p] EXCEPT !.todo = @ \ {r}])
      BY DEF Put
    <3>7. QED
      BY <3>3, <3>5, <3>6
  <2> HIDE DEF x, y
  <2>5. net' = [net EXCEPT !.req[p] = x, !.cut = net.cut, !.faults = net.faults]
    BY <1>1, <2>4 DEF CallState, Put
  <2>6. l \in Manual!Patches \cup {Nothing} /\ srv' = [srv EXCEPT !.lock = l]
    BY <1>2, <1>4, <1>6
  <2>7. RequestOk(net, x)
    BY <1>1, <1>3, <2>2, <2>3 DEF RequestOk, Active, Busy
  <2>8. \A k \in Recipients : Has(x, k) <=> Has(q, k)
    BY <1>3, <2>2, <2>3 DEF Has, Active, Busy
  <2>9. QED
    BY <1>4, <2>2, <2>5, <2>6, <2>7, <2>8, QuietStep
<1>7. CASE srv.row # Nothing /\ srv.configured
  <2> DEFINE y == [q EXCEPT !.st = "calling"]
             z == [y EXCEPT !.who = r]
             x == [z EXCEPT !.todo = @ \ {r}]
  <2>1. x \in RequestState /\ x.st = "calling" /\ x.who = r /\ x.todo = q.todo \ {r} /\ x.got = q.got
    BY <1>1, <1>3 DEF RequestState
  <2>2. net' = Called(Put(net, p, x), r)
    <3>1. net' = [net EXCEPT !.req[p].st = "calling", !.req[p].who = r, !.req[p].todo = @ \ {r},
                             !.calls[r] = @ + 1]
      BY <1>2, <1>7
    <3>2. PICK three : three = [net EXCEPT !.req[p].st = "calling", !.req[p].who = r,
                                           !.req[p].todo = @ \ {r}]
      OBVIOUS
    <3>3. PICK two : two = [net EXCEPT !.req[p].st = "calling", !.req[p].who = r]
      OBVIOUS
    <3>4. PICK one : one = [net EXCEPT !.req[p].st = "calling"]
      OBVIOUS
    <3>5. net' = Called(three, r)
      BY <3>1, <3>2 DEF Called
    <3>6. three = [two EXCEPT !.req[p].todo = @ \ {r}]
      BY <3>2, <3>3, ZenonT(60)
    <3>7. two = [one EXCEPT !.req[p].who = r]
      BY <3>3, <3>4, ZenonT(60)
    <3>8. one = Put(net, p, y)
      BY <3>4 DEF Put
    <3>9. one.req[p] = y /\ Put(one, p, z) = Put(net, p, z)
      BY <1>1, <3>8, PutTwice
    <3>10. [one EXCEPT !.req[p].who = r] = Put(one, p, [one.req[p] EXCEPT !.who = r])
      BY DEF Put
    <3>11. two = Put(net, p, z)
      BY <3>7, <3>9, <3>10
    <3>12. two.req[p] = z /\ Put(two, p, x) = Put(net, p, x)
      BY <1>1, <3>11, PutTwice
    <3>13. [two EXCEPT !.req[p].todo = @ \ {r}] = Put(two, p, [two.req[p] EXCEPT !.todo = @ \ {r}])
      BY DEF Put
    <3>14. three = Put(net, p, x)
      BY <3>6, <3>12, <3>13
    <3>15. QED
      BY <3>5, <3>14
  <2> HIDE DEF x, y, z
  <2>3. /\ net'.req = [net.req EXCEPT ![p] = x]
        /\ net'.calls = [net.calls EXCEPT ![r] = @ + 1]
        /\ net'.accepted = net.accepted /\ net'.cut = net.cut /\ net' \in CallState
    <3>1. /\ Put(net, p, x) \in CallState /\ Put(net, p, x).req = [net.req EXCEPT ![p] = x]
          /\ Put(net, p, x).calls = net.calls /\ Put(net, p, x).accepted = net.accepted
          /\ Put(net, p, x).cut = net.cut
      BY <1>1, <2>1, PutKeeps
    <3>2. QED
      BY <1>3, <2>2, <3>1, CalledKeeps
  <2>4. net'.req[p] = x /\ \A o \in Manual!Patches \ {p} : net'.req[o] = net.req[o]
    BY <1>1, <2>3, PatchesAreRequests
  <2>5. net'.calls[r] = 1 /\ \A k \in Recipients : k # r => net'.calls[k] = net.calls[k]
    BY <1>3, <1>4, <2>3
  <2>6. /\ srv' \in DatabaseState /\ srv'.row = srv.row /\ srv'.delivery = srv.delivery
    BY <1>1, <1>2, <1>4, <1>7 DEF DatabaseState
  <2>7. RequestOk(net', x)
    BY <1>1, <1>3, <2>1, <2>3, <2>5 DEF RequestOk, Busy, Active
  <2>8. \A k \in Recipients : Has(x, k) <=> Has(q, k)
    BY <1>3, <2>1 DEF Has, Active, Busy
  <2>9. /\ \A k \in Recipients : RecipientOk(srv, net, k)
        /\ \A k \in Recipients : Has(q, k) => srv.delivery[k] = "pending"
        /\ srv.row = Nothing => srv.delivery = Manual!NoOutcome
    BY <1>7 DEF ManualOk
  <2>10. Has(q, r)
    BY <1>3 DEF Has, Active
  <2>11. \A k \in Recipients : RecipientOk(srv', net', k)
    BY <1>3, <2>3, <2>5, <2>6, <2>9, <2>10 DEF RecipientOk
  <2>12. ASSUME NEW k \in Recipients
         PROVE  /\ Mine(srv, net, p, k) \/ net'.calls[k] = net.calls[k]
                /\ Has(x, k) => Mine(srv, net, p, k) /\ srv.delivery[k] = "pending"
                /\ Mine(srv, net, p, k) /\ srv.delivery[k] = "pending" => Has(x, k)
    BY <2>5, <2>8, <2>9, <2>10 DEF Mine
  <2>13. PatchStep(srv, net, srv', net', p)
    BY <1>1, <2>3, <2>4, <2>6, <2>7, <2>9, <2>11, <2>12 DEF PatchStep
  <2>14. QED
    BY <2>13, PatchStepOk
<1>8. QED
  BY <1>5, <1>6, <1>7

\* That two requests overlapped, or that one failed, is nobody's call.
LEMMA OverlapKeeps ==
  ASSUME NEW n \in CallState, NEW b \in BOOLEAN
  PROVE  LET m == [n EXCEPT !.overlap = b] IN
         /\ m \in CallState /\ m.req = n.req /\ m.calls = n.calls /\ m.accepted = n.accepted
         /\ m.cut = n.cut
BY DEF CallState
LEMMA FaultKeeps ==
  ASSUME NEW n \in CallState
  PROVE  LET m == [n EXCEPT !.faults = @ + 1] IN
         /\ m \in CallState /\ m.req = n.req /\ m.calls = n.calls /\ m.accepted = n.accepted
         /\ m.cut = n.cut
BY DEF CallState

\* A correction reserves the recipients without a row, who are nobody's yet.
LEMMA CommitOk ==
  ASSUME ManualOk(srv, net), NEW p \in Manual!Patches, Manual!PatchCommit(p)
  PROVE  ManualOk(srv', net')
<1> DEFINE q == net.req[p]
           new == Manual!Reserved(srv, q.price)
           row == Manual!Corrected(srv.row, q.seen, q.price)
           y == [q EXCEPT !.st = "reserved"]
           x == [y EXCEPT !.todo = new]
           b == net.overlap \/ srv.row # q.seen
<1>1. p \in Requests /\ srv \in DatabaseState /\ net \in CallState /\ q \in RequestState
      /\ RequestOk(net, q) /\ net.req \in [Requests -> RequestState]
  BY PatchesAreRequests, RequestTyped DEF ManualOk
<1>2. q.st = "read" /\ srv.row # Nothing /\ q.todo = {} /\ q.got = Manual!NoOutcome
  BY <1>1 DEF Manual!PatchCommit, RequestOk
<1>3. new \subseteq {r \in Recipients : srv.delivery[r] = "none"}
  BY DEF Manual!Reserved
<1>4. row \in AnyRow /\ row # Nothing
  <2>1. srv.row \in AnyRow /\ q.seen \in AnyRow /\ q.price \in Manual!Price
    BY <1>1, <1>2 DEF DatabaseState, RequestState
  <2>2. row \in AnyRow
    BY <2>1 DEF Manual!Corrected, AnyRow
  <2>3. QED
    BY <2>2, PanelAssumption DEF AnyRow
<1>5. x \in RequestState /\ x.st = "reserved" /\ x.todo = new /\ x.got = q.got
  BY <1>1, <1>3 DEF RequestState
<1>6. srv' = [srv EXCEPT !.row = row,
                         !.delivery = [r \in Recipients |-> IF r \in new THEN "pending" ELSE @[r]]]
  BY DEF Manual!PatchCommit
<1>7. /\ srv'.row = row
      /\ srv'.delivery = [r \in Recipients |-> IF r \in new THEN "pending" ELSE srv.delivery[r]]
      /\ srv' \in DatabaseState
  <2>1. [r \in Recipients |-> IF r \in new THEN "pending" ELSE srv.delivery[r]] \in [Recipients -> Manual!Status]
    BY <1>1 DEF DatabaseState, Manual!Status
  <2> HIDE DEF row, new
  <2>2. QED
    BY <1>1, <1>4, <1>6, <2>1 DEF DatabaseState
<1>8. \A r \in Recipients : srv'.delivery[r] = IF r \in new THEN "pending" ELSE srv.delivery[r]
  BY <1>7
<1>9. net' = [Put(net, p, x) EXCEPT !.overlap = b]
  <2>1. net' = [net EXCEPT !.req[p].st = "reserved", !.req[p].todo = new, !.overlap = b]
    BY <1>1 DEF Manual!PatchCommit, CallState
  <2> HIDE DEF b, new
  <2>2. PICK two : two = [net EXCEPT !.req[p].st = "reserved", !.req[p].todo = new]
    OBVIOUS
  <2>3. PICK one : one = [net EXCEPT !.req[p].st = "reserved"]
    OBVIOUS
  <2>4. net' = [two EXCEPT !.overlap = b]
    BY <2>1, <2>2
  <2>5. two = [one EXCEPT !.req[p].todo = new]
    BY <2>2, <2>3
  <2>6. one = Put(net, p, y)
    BY <2>3 DEF Put
  <2>7. one.req[p] = y /\ Put(one, p, x) = Put(net, p, x)
    BY <1>1, <2>6, PutTwice
  <2>8. [one EXCEPT !.req[p].todo = new] = Put(one, p, [one.req[p] EXCEPT !.todo = new])
    BY DEF Put
  <2>9. two = Put(net, p, x)
    BY <2>5, <2>7, <2>8
  <2>10. QED
    BY <2>4, <2>9
<1>10. /\ net'.req = [net.req EXCEPT ![p] = x] /\ net'.calls = net.calls
       /\ net'.accepted = net.accepted /\ net'.cut = net.cut /\ net' \in CallState
  <2>1. b \in BOOLEAN /\ net.cut \in BOOLEAN
    BY <1>1 DEF CallState
  <2>2. /\ Put(net, p, x) \in CallState /\ Put(net, p, x).req = [net.req EXCEPT ![p] = x]
        /\ Put(net, p, x).calls = net.calls /\ Put(net, p, x).accepted = net.accepted
        /\ Put(net, p, x).cut = net.cut
    BY <1>1, <1>5, PutKeeps
  <2> HIDE DEF b, x
  <2>3. QED
    BY <1>9, <2>1, <2>2, OverlapKeeps
<1>11. net'.req[p] = x /\ \A o \in Manual!Patches \ {p} : net'.req[o] = net.req[o]
  BY <1>1, <1>10, PatchesAreRequests
<1>12. \A r \in Recipients : RecipientOk(srv, net, r) /\ Manual!NoOutcome[r] = "none"
  BY DEF ManualOk, Manual!NoOutcome
<1>13. \A r \in new : srv.delivery[r] = "none" /\ net.calls[r] = 0 /\ net.accepted[r] = 0
  BY <1>2, <1>3, <1>12 DEF RecipientOk
<1> HIDE DEF new, x, row
<1>14. RequestOk(net', x)
  BY <1>2, <1>5, <1>10, <1>12, <1>13 DEF RequestOk, Active, Busy
<1>15. ASSUME NEW r \in Recipients PROVE (Has(x, r) <=> r \in new) /\ ~Has(q, r)
  BY <1>2, <1>5, <1>12 DEF Has, Active, Busy
<1>16. ASSUME NEW r \in Recipients PROVE RecipientOk(srv', net', r)
  BY <1>2, <1>8, <1>10, <1>12 DEF RecipientOk
<1>17. ASSUME NEW r \in Recipients
       PROVE  /\ Mine(srv, net, p, r) \/ srv'.delivery[r] = srv.delivery[r]
              /\ Has(x, r) => Mine(srv, net, p, r) /\ srv'.delivery[r] = "pending"
              /\ Mine(srv, net, p, r) /\ srv'.delivery[r] = "pending" => Has(x, r)
  BY <1>2, <1>8, <1>13, <1>15 DEF Mine
<1>18. PatchStep(srv, net, srv', net', p)
  BY <1>2, <1>4, <1>7, <1>10, <1>11, <1>14, <1>16, <1>17 DEF PatchStep
<1>19. QED
  BY <1>18, PatchStepOk

\* A request that ends with rows of its own written, each by what became of it.
LEMMA WrittenOk ==
  ASSUME ManualOk(srv, net), NEW p \in Manual!Patches, net.req[p].st \in {"reserved", "next"},
         NEW d \in [Recipients -> Manual!Status], srv'.delivery = d, srv'.row = srv.row,
         srv' \in DatabaseState, net' \in CallState,
         net'.req = [net.req EXCEPT ![p] = [@ EXCEPT !.st = "done"]],
         net'.calls = net.calls, net'.accepted = net.accepted, net'.cut = net.cut,
         \A r \in Recipients :
           IF srv.row # Nothing /\ Has(net.req[p], r)
           THEN d[r] \in {"failed", "not_configured"} \/ (d[r] = "sent" /\ net.accepted[r] = 1)
           ELSE d[r] = srv.delivery[r]
  PROVE  ManualOk(srv', net')
<1> DEFINE q == net.req[p]
           x == [q EXCEPT !.st = "done"]
<1>1. p \in Requests /\ srv \in DatabaseState /\ net \in CallState /\ q \in RequestState
      /\ RequestOk(net, q) /\ net.req \in [Requests -> RequestState]
  BY PatchesAreRequests, RequestTyped DEF ManualOk
<1>2. x.st = "done"
  BY <1>1 DEF RequestState
<1>3. net'.req[p] = x /\ \A o \in Manual!Patches \ {p} : net'.req[o] = net.req[o]
  BY <1>1, PatchesAreRequests
<1> HIDE DEF x
<1>4. RequestOk(net', x) /\ \A r \in Recipients : ~Has(x, r)
  BY <1>2 DEF RequestOk, Has, Active, Busy
<1>5. /\ \A r \in Recipients : RecipientOk(srv, net, r)
      /\ \A r \in Recipients : Has(q, r) /\ srv.row # Nothing => srv.delivery[r] = "pending"
      /\ srv.row = Nothing => srv.delivery = Manual!NoOutcome
  BY DEF ManualOk
<1>6. \A r \in Recipients : RecipientOk(srv', net', r)
  BY <1>5 DEF RecipientOk
<1>7. srv.row = Nothing => srv'.delivery = Manual!NoOutcome
  BY <1>1, <1>5 DEF DatabaseState
<1>8. ASSUME NEW r \in Recipients
      PROVE  /\ Mine(srv, net, p, r) \/ srv'.delivery[r] = srv.delivery[r]
             /\ Mine(srv, net, p, r) => srv'.delivery[r] # "pending"
  BY <1>5 DEF Mine, Manual!NoOutcome
<1>9. PatchStep(srv, net, srv', net', p)
  BY <1>3, <1>4, <1>6, <1>7, <1>8 DEF PatchStep
<1>10. QED
  BY <1>9, PatchStepOk

LEMMA RecordsOk ==
  ASSUME ManualOk(srv, net), NEW p \in Manual!Patches, Manual!RecordOutcomes(p)
  PROVE  ManualOk(srv', net')
<1> DEFINE q == net.req[p]
           d == IF srv.row = Nothing THEN srv.delivery ELSE Manual!Recorded(srv.delivery, q.got)
<1>1. p \in Requests /\ srv \in DatabaseState /\ net \in CallState /\ q \in RequestState
      /\ RequestOk(net, q) /\ net.req \in [Requests -> RequestState]
  BY PatchesAreRequests, RequestTyped DEF ManualOk
<1>2. q.st = "next" /\ q.todo = {}
  BY DEF Manual!RecordOutcomes, Manual!At
<1>3. q.got \in [Recipients -> Outcome] /\ srv.delivery \in [Recipients -> Manual!Status]
  BY <1>1 DEF RequestState, DatabaseState
<1>4. \A r \in Recipients : d[r] = IF srv.row # Nothing /\ q.got[r] # "none" THEN q.got[r] ELSE srv.delivery[r]
  BY DEF Manual!Recorded
<1>5. d \in [Recipients -> Manual!Status]
  BY <1>3 DEF Manual!Recorded, Outcome, Manual!Status
<1>6. srv' = [srv EXCEPT !.delivery = d, !.lock = Nothing]
  BY <1>1 DEF Manual!RecordOutcomes, DatabaseState
<1> HIDE DEF d
<1>7. srv'.delivery = d /\ srv'.row = srv.row /\ srv' \in DatabaseState
  BY <1>1, <1>5, <1>6 DEF DatabaseState
<1>8. /\ net' \in CallState /\ net'.req = [net.req EXCEPT ![p] = [@ EXCEPT !.st = "done"]]
      /\ net'.calls = net.calls /\ net'.accepted = net.accepted /\ net'.cut = net.cut
  <2>1. net' = [net EXCEPT !.req[p] = [q EXCEPT !.st = "done"]]
    BY DEF Manual!RecordOutcomes
  <2>2. [q EXCEPT !.st = "done"] \in RequestState
    BY <1>1 DEF RequestState
  <2>3. QED
    BY <1>1, <2>1, <2>2 DEF CallState
<1>9. \A r \in Recipients : Has(q, r) <=> q.got[r] # "none"
  BY <1>2 DEF Has, Active, Busy
<1>10. \A r \in Recipients : q.got[r] = "sent" => net.accepted[r] = 1
  BY <1>1, <1>2 DEF RequestOk, Active
<1>11. ASSUME NEW r \in Recipients
       PROVE  IF srv.row # Nothing /\ Has(q, r)
              THEN d[r] \in {"failed", "not_configured"} \/ (d[r] = "sent" /\ net.accepted[r] = 1)
              ELSE d[r] = srv.delivery[r]
  BY <1>3, <1>4, <1>9, <1>10 DEF Outcome
<1>12. QED
  BY <1>2, <1>5, <1>7, <1>8, <1>11, WrittenOk

LEMMA RaisesOk ==
  ASSUME ManualOk(srv, net), NEW p \in Manual!Patches, Manual!FactoryRaises(p)
  PROVE  ManualOk(srv', net')
<1> DEFINE q == net.req[p]
           d == [r \in Recipients |-> IF r \in q.todo /\ srv.row # Nothing THEN "failed" ELSE srv.delivery[r]]
           x == [q EXCEPT !.st = "done"]
<1>1. p \in Requests /\ srv \in DatabaseState /\ net \in CallState /\ q \in RequestState
      /\ RequestOk(net, q) /\ net.req \in [Requests -> RequestState]
  BY PatchesAreRequests, RequestTyped DEF ManualOk
<1>2. q.st = "reserved" /\ q.got = Manual!NoOutcome
  BY <1>1 DEF Manual!FactoryRaises, Manual!At, RequestOk
<1>3. srv.delivery \in [Recipients -> Manual!Status]
  BY <1>1 DEF DatabaseState
<1>4. d \in [Recipients -> Manual!Status]
  BY <1>3 DEF Manual!Status
<1>5. srv' = [srv EXCEPT !.delivery = d]
  BY <1>1 DEF Manual!FactoryRaises, DatabaseState
<1>6. \A r \in Recipients :
        d[r] = IF r \in q.todo /\ srv.row # Nothing THEN "failed" ELSE srv.delivery[r]
  OBVIOUS
<1> HIDE DEF d
<1>7. srv'.delivery = d /\ srv'.row = srv.row /\ srv' \in DatabaseState
  BY <1>1, <1>4, <1>5 DEF DatabaseState
<1>8. /\ net' \in CallState /\ net'.req = [net.req EXCEPT ![p] = [@ EXCEPT !.st = "done"]]
      /\ net'.calls = net.calls /\ net'.accepted = net.accepted /\ net'.cut = net.cut
  <2>1. net' = [net EXCEPT !.req[p].st = "done", !.faults = @ + 1]
    BY DEF Manual!FactoryRaises
  <2>2. x \in RequestState
    BY <1>1 DEF RequestState
  <2>3. net' = [Put(net, p, x) EXCEPT !.faults = @ + 1]
    BY <2>1 DEF Put
  <2>4. /\ Put(net, p, x) \in CallState /\ Put(net, p, x).req = [net.req EXCEPT ![p] = x]
        /\ Put(net, p, x).calls = net.calls /\ Put(net, p, x).accepted = net.accepted
        /\ Put(net, p, x).cut = net.cut
    BY <1>1, <2>2, PutKeeps
  <2> HIDE DEF x
  <2>5. /\ net' \in CallState /\ net'.req = [net.req EXCEPT ![p] = x]
        /\ net'.calls = net.calls /\ net'.accepted = net.accepted /\ net'.cut = net.cut
    BY <2>3, <2>4 DEF CallState
  <2>6. QED
    BY <2>5 DEF x
<1>9. \A r \in Recipients : Has(q, r) <=> r \in q.todo
  BY <1>2 DEF Has, Active, Busy, Manual!NoOutcome
<1>10. QED
  BY <1>2, <1>4, <1>6, <1>7, <1>8, <1>9, WrittenOk

\* A step of none of the corrections: it leaves their records, the rows they
\* write and whether there is a match.
LEMMA OtherStepOk ==
  ASSUME NEW s, NEW n, NEW t, NEW m, ManualOk(s, n), t \in DatabaseState, m \in CallState,
         \A p \in Manual!Patches : m.req[p] = n.req[p],
         m.calls = n.calls, m.accepted = n.accepted, n.cut => m.cut,
         s.row = Nothing <=> t.row = Nothing, t.delivery = s.delivery
  PROVE  ManualOk(t, m)
<1>1. \A p \in Manual!Patches : RequestOk(m, m.req[p])
  BY DEF ManualOk, RequestOk
<1>2. \A r \in Recipients : RecipientOk(s, n, r) /\ Followed(s, n, r)
  BY DEF ManualOk
<1>3. \A r \in Recipients : RecipientOk(t, m, r) /\ Followed(t, m, r)
  BY <1>2 DEF RecipientOk, Followed
<1>4. QED
  BY <1>1, <1>3 DEF ManualOk

\* A revert is no correction, and leaves a match where there is one.
LEMMA RevertOk ==
  ASSUME ManualOk(srv, net), NEW v \in Manual!Reverts,
         Manual!RevertRead(v) \/ Manual!RevertCommit(v) \/ Manual!RevertLocked(v)
  PROVE  ManualOk(srv', net')
<1> DEFINE q == net.req[v]
<1>1. v \in Requests /\ v \notin Manual!Patches /\ srv \in DatabaseState /\ net \in CallState
      /\ q \in RequestState /\ net.req \in [Requests -> RequestState]
  BY PatchesAreRequests, RequestTyped
<1>2. ASSUME NEW x \in RequestState
      PROVE  /\ Put(net, v, x) \in CallState
             /\ Put(net, v, x).calls = net.calls /\ Put(net, v, x).accepted = net.accepted
             /\ Put(net, v, x).cut = net.cut
             /\ \A p \in Manual!Patches : Put(net, v, x).req[p] = net.req[p]
  <2>1. Put(net, v, x).req = [net.req EXCEPT ![v] = x]
    BY <1>1, PutKeeps
  <2>2. \A p \in Manual!Patches : Put(net, v, x).req[p] = net.req[p]
    BY <1>1, <2>1, PatchesAreRequests
  <2>3. QED
    BY <1>1, <2>2, PutKeeps
<1>3. CASE Manual!RevertRead(v)
  <2> DEFINE st == IF srv.row.source = "manual" THEN "read" ELSE "done"
             y == [q EXCEPT !.st = st]
             x == [y EXCEPT !.seen = srv.row]
  <2>1. srv.row \in AnyRow /\ UNCHANGED srv
    BY <1>1, <1>3 DEF Manual!RevertRead, DatabaseState
  <2>2. x \in RequestState
    BY <1>1, <2>1 DEF RequestState
  <2>3. net' = [net EXCEPT !.req[v].st = st, !.req[v].seen = srv.row]
    BY <1>3 DEF Manual!RevertRead
  <2> HIDE DEF st
  <2>4. PICK one : one = [net EXCEPT !.req[v].st = st]
    OBVIOUS
  <2>5. net' = [one EXCEPT !.req[v].seen = srv.row]
    BY <2>3, <2>4
  <2>6. one = Put(net, v, y)
    BY <2>4 DEF Put
  <2>7. one.req[v] = y /\ Put(one, v, x) = Put(net, v, x)
    BY <1>1, <2>6, PutTwice
  <2>8. [one EXCEPT !.req[v].seen = srv.row] = Put(one, v, [one.req[v] EXCEPT !.seen = srv.row])
    BY DEF Put
  <2>9. net' = Put(net, v, x)
    BY <2>5, <2>7, <2>8
  <2> HIDE DEF x, y
  <2>10. QED
    BY <1>1, <1>2, <2>1, <2>2, <2>9, OtherStepOk
<1>4. CASE Manual!RevertLocked(v)
  <2> DEFINE x == [q EXCEPT !.st = "done"]
  <2>1. x \in RequestState
    BY <1>1 DEF RequestState
  <2>2. net' = Put(net, v, x) /\ UNCHANGED srv
    BY <1>4 DEF Manual!RevertLocked, Put
  <2> HIDE DEF x
  <2>3. QED
    BY <1>1, <1>2, <2>1, <2>2, OtherStepOk
<1>5. CASE Manual!RevertCommit(v)
  <2> DEFINE x == [q EXCEPT !.st = "done"]
             b == net.overlap \/ srv.row # q.seen
             row == IF srv.row = Nothing THEN Nothing ELSE Manual!Reverted(srv.row, q.seen)
  <2>1. x \in RequestState
    BY <1>1 DEF RequestState
  <2>2. b \in BOOLEAN
    BY <1>1 DEF CallState
  <2>3. net' = [Put(net, v, x) EXCEPT !.overlap = b]
    <3>1. net' = [net EXCEPT !.req[v].st = "done", !.overlap = b]
      BY <1>1, <1>5 DEF Manual!RevertCommit, CallState
    <3> HIDE DEF b
    <3>2. PICK one : one = [net EXCEPT !.req[v].st = "done"]
      OBVIOUS
    <3>3. net' = [one EXCEPT !.overlap = b]
      BY <3>1, <3>2
    <3>4. one = Put(net, v, x)
      BY <3>2 DEF Put
    <3>5. QED
      BY <3>3, <3>4
  <2> HIDE DEF x, b
  <2>4. /\ net' \in CallState /\ net'.req = Put(net, v, x).req /\ net'.cut = net.cut
        /\ net'.calls = net.calls /\ net'.accepted = net.accepted
    BY <1>2, <2>1, <2>2, <2>3, OverlapKeeps
  <2>5. \A p \in Manual!Patches : net'.req[p] = net.req[p]
    BY <1>2, <2>1, <2>4
  <2>6. row \in AnyRow \cup {Nothing} /\ (srv.row = Nothing <=> row = Nothing)
    <3>1. CASE srv.row = Nothing
      BY <3>1
    <3>2. CASE srv.row # Nothing
      <4>1. srv.row \in AnyRow /\ q.seen \in AnyRow
        BY <1>1, <3>2 DEF DatabaseState, RequestState
      <4>2. row \in AnyRow
        BY <3>2, <4>1 DEF Manual!Reverted, AnyRow
      <4>3. QED
        BY <3>2, <4>2, PanelAssumption DEF AnyRow
    <3>3. QED
      BY <3>1, <3>2
  <2>7. srv' = [srv EXCEPT !.row = row]
    BY <1>1, <1>5 DEF Manual!RevertCommit, DatabaseState
  <2> HIDE DEF row
  <2>8. srv' \in DatabaseState /\ srv'.row = row /\ srv'.delivery = srv.delivery
    BY <1>1, <2>6, <2>7 DEF DatabaseState
  <2>9. QED
    BY <2>4, <2>5, <2>6, <2>8, OtherStepOk
<1>6. QED
  BY <1>3, <1>4, <1>5

\* A deletion takes the rows with the match, a restart the requests; a saved
\* rule leaves both.
LEMMA AroundOk ==
  ASSUME ManualOk(srv, net), Manual!Delete \/ Manual!SaveRule \/ Manual!Restart
  PROVE  ManualOk(srv', net')
<1>1. srv \in DatabaseState /\ net \in CallState /\ net.req \in [Requests -> RequestState]
  BY DEF ManualOk, CallState
<1>2. net' = [net EXCEPT !.faults = @ + 1] =>
        /\ net' \in CallState /\ net'.req = net.req /\ net'.cut = net.cut
        /\ net'.calls = net.calls /\ net'.accepted = net.accepted
  BY <1>1, FaultKeeps
<1>3. \A p \in Manual!Patches : RequestOk(net, net.req[p])
  BY DEF ManualOk
<1>4. \A r \in Recipients : RecipientOk(srv, net, r) /\ Followed(srv, net, r)
  BY DEF ManualOk
<1>5. CASE Manual!SaveRule
  <2>1. /\ srv' \in DatabaseState /\ srv'.row = srv.row /\ srv'.delivery = srv.delivery
        /\ net' = [net EXCEPT !.faults = @ + 1]
    BY <1>1, <1>5 DEF Manual!SaveRule, DatabaseState
  <2>2. /\ net' \in CallState /\ net'.req = net.req /\ net'.cut = net.cut
        /\ net'.calls = net.calls /\ net'.accepted = net.accepted
    BY <1>2, <2>1
  <2>3. /\ \A p \in Manual!Patches : net'.req[p] = net.req[p]
        /\ srv.row = Nothing <=> srv'.row = Nothing
        /\ net.cut => net'.cut
    BY <2>1, <2>2
  <2>4. srv'.delivery = srv.delivery /\ srv' \in DatabaseState
    BY <2>1
  <2>5. QED
    BY <2>2, <2>3, <2>4, OtherStepOk
<1>6. CASE Manual!Delete
  <2>1. Manual!NoOutcome \in [Recipients -> Manual!Status] /\ \A r \in Recipients : Manual!NoOutcome[r] = "none"
    BY DEF Manual!NoOutcome, Manual!Status
  <2>2. /\ srv' \in DatabaseState /\ srv'.row = Nothing /\ srv'.delivery = Manual!NoOutcome
        /\ net' = [net EXCEPT !.faults = @ + 1]
    BY <1>1, <1>6, <2>1 DEF Manual!Delete, DatabaseState
  <2>3. \A p \in Manual!Patches : RequestOk(net', net'.req[p])
    BY <1>2, <1>3, <2>2 DEF RequestOk
  <2>4. \A r \in Recipients : RecipientOk(srv', net', r) /\ Followed(srv', net', r)
    BY <1>2, <1>4, <2>1, <2>2 DEF RecipientOk, Followed
  <2>5. QED
    BY <1>2, <2>2, <2>3, <2>4 DEF ManualOk
<1>7. CASE Manual!Restart
  <2> DEFINE ended == [o \in DOMAIN net.req |-> IF net.req[o].st = "new" THEN net.req[o]
                                                ELSE [net.req[o] EXCEPT !.st = "done"]]
  <2>1. net' = [net EXCEPT !.req = ended, !.cut = TRUE, !.faults = @ + 1]
    BY <1>1, <1>7 DEF Manual!Restart, CallState
  <2>2. \A x \in RequestState : [x EXCEPT !.st = "done"] \in RequestState
    BY DEF RequestState
  <2>3. ended \in [Requests -> RequestState]
    BY <1>1, <2>2
  <2>4. \A p \in Manual!Patches : \/ ended[p] = net.req[p] /\ net.req[p].st = "new"
                                  \/ ended[p].st = "done"
    BY <1>1, PatchesAreRequests DEF RequestState
  <2> HIDE DEF ended
  <2>5. /\ net' \in CallState /\ net'.req = ended /\ net'.cut
        /\ net'.calls = net.calls /\ net'.accepted = net.accepted
    <3>1. PICK m : m = [net EXCEPT !.req = ended, !.cut = TRUE]
      OBVIOUS
    <3>2. /\ m \in CallState /\ m.req = ended /\ m.cut
          /\ m.calls = net.calls /\ m.accepted = net.accepted /\ m.faults = net.faults
      BY <1>1, <2>3, <3>1 DEF CallState
    <3>3. net' = [m EXCEPT !.faults = @ + 1]
      BY <2>1, <3>1
    <3>4. QED
      BY <3>2, <3>3, FaultKeeps
  <2>6. srv' \in DatabaseState /\ srv'.row = srv.row /\ srv'.delivery = srv.delivery
    BY <1>1, <1>7 DEF Manual!Restart, DatabaseState
  <2>7. \A p \in Manual!Patches : RequestOk(net', net'.req[p]) /\ \A r \in Recipients : ~Has(net'.req[p], r)
    BY <1>3, <2>4, <2>5 DEF RequestOk, Has, Active, Busy
  <2>8. \A r \in Recipients : RecipientOk(srv', net', r) /\ Followed(srv', net', r)
    BY <1>4, <2>5, <2>6 DEF RecipientOk, Followed
  <2>9. QED
    BY <2>5, <2>6, <2>7, <2>8 DEF ManualOk
<1>8. QED
  BY <1>5, <1>6, <1>7

\* Nobody was called before the first request.
LEMMA ManualInit == ASSUME Manual!Init PROVE ManualOk(srv, net)
<1> DEFINE fresh == [st |-> "new", seen |-> Manual!Unseen, price |-> Detected, todo |-> {},
                     who |-> Nothing, got |-> Manual!NoOutcome]
           zero == [r \in Recipients |-> 0]
           reqs == [q \in Requests |-> fresh]
<1>1. Manual!Unseen \in AnyRow /\ Manual!Unseen # Nothing
  <2>1. Manual!Unseen \in AnyRow
    BY DEF Manual!Unseen, AnyRow, Manual!Price
  <2>2. QED
    BY <2>1, PanelAssumption DEF AnyRow
<1>2. /\ Manual!NoOutcome \in [Recipients -> Manual!Status] /\ Manual!NoOutcome \in [Recipients -> Outcome]
      /\ \A r \in Recipients : Manual!NoOutcome[r] = "none"
  BY DEF Manual!NoOutcome, Manual!Status, Outcome
<1>3. fresh \in RequestState
  BY <1>1, <1>2 DEF RequestState, Manual!Price
<1>4. fresh.st = "new" /\ fresh.todo = {} /\ fresh.got = Manual!NoOutcome
  OBVIOUS
<1>5. srv \in DatabaseState /\ srv.row # Nothing /\ srv.delivery = Manual!NoOutcome
  BY <1>1, <1>2 DEF Manual!Init, DatabaseState
<1> HIDE DEF fresh
<1>6. net = [req |-> reqs, calls |-> zero, accepted |-> zero, overlap |-> FALSE, cut |-> FALSE, faults |-> 0]
  BY DEF Manual!Init, fresh, Requests
<1>7. net \in CallState
  BY <1>3, <1>6 DEF CallState
<1>8. \A p \in Manual!Patches : net.req[p] = fresh
  BY <1>6, PatchesAreRequests
<1>9. \A r \in Recipients : net.calls[r] = 0 /\ net.accepted[r] = 0
  BY <1>6
<1>10. \A p \in Manual!Patches : RequestOk(net, net.req[p]) /\ \A r \in Recipients : ~Has(net.req[p], r)
  BY <1>4, <1>8 DEF RequestOk, Has, Active, Busy
<1>11. \A r \in Recipients : RecipientOk(srv, net, r) /\ Followed(srv, net, r)
  BY <1>2, <1>5, <1>9 DEF RecipientOk, Followed
<1>12. QED
  BY <1>5, <1>7, <1>10, <1>11 DEF ManualOk

LEMMA NextManual == ASSUME ManualOk(srv, net), [Manual!Next]_<<srv, net>> PROVE ManualOk(srv', net')
<1>1. CASE UNCHANGED <<srv, net>>
  BY <1>1
<1>2. CASE \E p \in Manual!Patches :
             \/ Manual!PatchRead(p) \/ Manual!PatchCommit(p) \/ Manual!PatchEnds(p) \/ Manual!PatchCheck(p)
             \/ Manual!NextCall(p) \/ Manual!BotAccepts(p) \/ Manual!BotAnswers(p)
             \/ Manual!RecordOutcomes(p) \/ Manual!FactoryRaises(p) \/ Manual!PatchLocked(p)
  BY <1>2, ReadOk, CommitOk, CheckOk, CallOk, AcceptsOk, AnswersOk, RecordsOk, RaisesOk, LockedOk
<1>3. CASE \E v \in Manual!Reverts :
             Manual!RevertRead(v) \/ Manual!RevertCommit(v) \/ Manual!RevertLocked(v)
  BY <1>3, RevertOk
<1>4. CASE Manual!Delete \/ Manual!SaveRule \/ Manual!Restart
  BY <1>4, AroundOk
<1>5. QED
  BY <1>1, <1>2, <1>3, <1>4 DEF Manual!Next

\* The target alert of a match goes to a recipient at most once, however often its
\* price is corrected, reverted and corrected again, and its row says what came of it.
THEOREM TargetAlertIsOnce == Spec => []TargetAlertedOnce
<1> DEFINE Inv == part = "manual" => ManualOk(srv, net)
<1>1. Init => Inv
  BY ManualInit DEF Init
<1>2. Inv /\ [Next]_vars => Inv'
  BY PartStays, NextManual
<1>3. Inv => TargetAlertedOnce
  <2> SUFFICES ASSUME ManualOk(srv, net), NEW r \in Recipients
               PROVE  /\ net.calls[r] <= 1
                      /\ srv.delivery[r] = "sent" => net.accepted[r] = 1
                      /\ srv.delivery[r] = "pending" =>
                           \/ net.cut
                           \/ \E p \in Manual!Patches :
                                net.req[p].st \notin {"new", "done"}
                                /\ (r \in net.req[p].todo \/ r = net.req[p].who \/ net.req[p].got[r] # "none")
    BY DEF TargetAlertedOnce, Manual!AlertedOnce
  <2>1. RecipientOk(srv, net, r) /\ Followed(srv, net, r)
    BY DEF ManualOk
  <2>2. QED
    BY <2>1 DEF RecipientOk, Followed, Has, Active, Busy
<1> HIDE DEF Inv
<1>4. QED
  BY <1>1, <1>2, <1>3, PTL DEF Spec

-----------------------------------------------------------------------------
(* The product of the address: the panel follows it, but misses a change that   *)
(* came after a click had left the address as it was.                           *)

ShownState ==
  [history : Seq(Products \cup {Nothing}), at : Nat, key : Products \cup {Nothing},
   phase : {"closed", "open", "closing"}, selfInitiated : BOOLEAN, exit : BOOLEAN, idle : BOOLEAN,
   missed : BOOLEAN]
\* The panel is where the address says, on its way out at most.
Shows(u, url) ==
  IF url = Nothing THEN u.phase # "open" ELSE u.phase = "open" /\ u.key = url
\* The timer runs exactly while the panel leaves; the hook expects a change of its
\* own only after an idle click; and what it has not missed it shows.
Follows(u, url) ==
  /\ u.exit <=> u.phase = "closing"
  /\ u.selfInitiated => u.idle
  /\ ~u.missed => Shows(u, url)
AddressOk(u) ==
  /\ u \in ShownState /\ u.at \in 1..Len(u.history)
  /\ Follows(u, Address!Url(u))

\* What the effect makes of an address that changed.
LEMMA EffectOk ==
  ASSUME NEW u \in ShownState, u.at \in 1..Len(u.history),
         u.exit <=> u.phase = "closing",
         u.selfInitiated /\ ~u.missed => Shows(u, Address!Url(u))
  PROVE  AddressOk(Address!UrlEffect(u))
<1>1. PICK url \in Products \cup {Nothing} : url = Address!Url(u)
  <2>1. u.history \in Seq(Products \cup {Nothing})
    BY DEF ShownState
  <2>2. QED
    BY <2>1, ElementOfSeq DEF Address!Url
<1>2. CASE u.selfInitiated
  <2>1. PICK t : t = [u EXCEPT !.selfInitiated = FALSE]
    OBVIOUS
  <2>2. t \in ShownState /\ t.history = u.history /\ t.at = u.at /\ t.phase = u.phase
        /\ t.exit = u.exit /\ t.key = u.key /\ ~t.selfInitiated /\ t.missed = u.missed
    BY <2>1 DEF ShownState
  <2>3. AddressOk(t)
    BY <1>1, <1>2, <2>2 DEF AddressOk, Follows, Shows, Address!Url
  <2>4. QED
    BY <1>2, <2>1, <2>3 DEF Address!UrlEffect
<1>3. CASE ~u.selfInitiated /\ url # Nothing
  <2>1. PICK t : t = [u EXCEPT !.exit = FALSE, !.key = url, !.phase = "open"]
    OBVIOUS
  <2>2. t \in ShownState /\ t.history = u.history /\ t.at = u.at /\ t.phase = "open"
        /\ ~t.exit /\ t.key = url /\ ~t.selfInitiated
    BY <1>3, <2>1 DEF ShownState
  <2>3. AddressOk(t)
    BY <1>1, <1>3, <2>2 DEF AddressOk, Follows, Shows, Address!Url
  <2>4. QED
    BY <1>1, <1>3, <2>1, <2>3 DEF Address!UrlEffect, Address!Opened
<1>4. CASE ~u.selfInitiated /\ url = Nothing /\ u.phase = "closed"
  BY <1>1, <1>4 DEF Address!UrlEffect, AddressOk, Follows, Shows
<1>5. CASE ~u.selfInitiated /\ url = Nothing /\ u.phase # "closed"
  <2>1. PICK t : t = [u EXCEPT !.phase = "closing", !.exit = TRUE]
    OBVIOUS
  <2>2. t \in ShownState /\ t.history = u.history /\ t.at = u.at /\ t.phase = "closing"
        /\ t.exit /\ ~t.selfInitiated
    BY <1>5, <2>1 DEF ShownState
  <2>3. AddressOk(t)
    BY <1>1, <1>5, <2>2 DEF AddressOk, Follows, Shows, Address!Url
  <2>4. QED
    BY <1>1, <1>5, <2>1, <2>3 DEF Address!UrlEffect, Address!Closing
<1>6. QED
  BY <1>2, <1>3, <1>4, <1>5

\* A click pushes its address: the panel was put where that address says, and the
\* click that changed nothing is told apart.
LEMMA ClickOk ==
  ASSUME AddressOk(ui), NEW u \in ShownState, NEW url \in Products \cup {Nothing},
         u.history = ui.history, u.at = ui.at, u.exit <=> u.phase = "closing",
         Shows(u, url), ui' = Address!Clicked(u, url)
  PROVE  AddressOk(ui')
<1>1. ui \in ShownState /\ ui.at \in 1..Len(ui.history)
      /\ u.history \in Seq(Products \cup {Nothing}) /\ u.at \in Nat
  BY DEF AddressOk, ShownState
<1>2. PICK h : h = Append(SubSeq(u.history, 1, u.at), url)
  OBVIOUS
<1>3. /\ SubSeq(u.history, 1, u.at) \in Seq(Products \cup {Nothing})
      /\ Len(SubSeq(u.history, 1, u.at)) = u.at
  BY <1>1, SubSeqProperties, LenProperties
<1>4. h \in Seq(Products \cup {Nothing}) /\ Len(h) = u.at + 1 /\ h[u.at + 1] = url
  BY <1>2, <1>3, AppendProperties
<1>5. PICK v : v = Address!Push(u, url)
  OBVIOUS
<1>6. v = [u EXCEPT !.history = h, !.at = u.at + 1]
  BY <1>2, <1>5 DEF Address!Push
<1> DEFINE b == url = Address!Url(ui)
<1>7. PICK w : w = [v EXCEPT !.idle = b, !.missed = FALSE]
  OBVIOUS
<1>8. ui' = Address!Rendered(w)
  BY <1>5, <1>7 DEF Address!Clicked
<1>9. b \in BOOLEAN
  OBVIOUS
<1> HIDE DEF b
<1>10. PICK n \in Nat : n = u.at + 1
  BY <1>1
<1>11. w = [u EXCEPT !.history = h, !.at = n, !.idle = b, !.missed = FALSE]
  BY <1>6, <1>7, <1>10 DEF ShownState
<1>12. /\ w \in ShownState /\ w.history = h /\ w.at = n /\ w.key = u.key /\ w.phase = u.phase
       /\ w.exit = u.exit /\ w.idle = b /\ ~w.missed
  BY <1>4, <1>9, <1>11 DEF ShownState
<1>13. Address!Url(w) = url /\ w.at \in 1..Len(w.history)
  BY <1>1, <1>4, <1>10, <1>12 DEF Address!Url
<1>14. Shows(w, url)
  BY <1>12 DEF Shows
<1>15. CASE url = Address!Url(ui)
  <2>1. w.idle
    BY <1>12, <1>15 DEF b
  <2>2. ui' = w
    BY <1>8, <1>13, <1>15 DEF Address!Rendered
  <2>3. QED
    BY <1>12, <1>13, <1>14, <2>1, <2>2 DEF AddressOk, Follows
<1>16. CASE url # Address!Url(ui)
  <2>1. ui' = Address!UrlEffect(w)
    BY <1>8, <1>13, <1>16 DEF Address!Rendered
  <2>2. QED
    BY <1>12, <1>13, <1>14, <2>1, EffectOk
<1>17. QED
  BY <1>15, <1>16

LEMMA NextAddress ==
  ASSUME AddressOk(ui), [Address!Next]_<<srv, ui, net>>
  PROVE  AddressOk(ui')
<1>1. ui \in ShownState /\ ui.at \in 1..Len(ui.history) /\ Follows(ui, Address!Url(ui))
  BY DEF AddressOk
<1>2. ASSUME NEW key \in Products, Address!Open(key) PROVE AddressOk(ui')
  <2>1. PICK u : u = Address!Opened([ui EXCEPT !.selfInitiated = TRUE], key)
    OBVIOUS
  <2>2. u = [ui EXCEPT !.selfInitiated = TRUE, !.exit = FALSE, !.key = key, !.phase = "open"]
    BY <1>1, <2>1 DEF Address!Opened, ShownState
  <2>3. /\ u \in ShownState /\ u.history = ui.history /\ u.at = ui.at
        /\ ~u.exit /\ u.phase = "open" /\ u.key = key
    BY <1>1, <2>2 DEF ShownState
  <2>4. Shows(u, key)
    BY <2>3, PanelAssumption DEF Shows
  <2>5. QED
    BY <1>2, <2>1, <2>3, <2>4, ClickOk DEF Address!Open
<1>3. CASE Address!Close
  <2>1. PICK u : u = Address!Closing([ui EXCEPT !.selfInitiated = TRUE])
    OBVIOUS
  <2>2. u = [ui EXCEPT !.selfInitiated = TRUE, !.phase = "closing", !.exit = TRUE]
    BY <1>1, <2>1 DEF Address!Closing, ShownState
  <2>3. /\ u \in ShownState /\ u.history = ui.history /\ u.at = ui.at
        /\ u.exit /\ u.phase = "closing"
    BY <1>1, <2>2 DEF ShownState
  <2>4. Shows(u, Nothing)
    BY <2>3 DEF Shows
  <2>5. QED
    BY <1>3, <2>1, <2>3, <2>4, ClickOk DEF Address!Close
<1>4. CASE Address!ExitEnds
  <2>1. ui' = [ui EXCEPT !.exit = FALSE, !.phase = "closed", !.key = Nothing] /\ ui.exit
    BY <1>4 DEF Address!ExitEnds
  <2>2. /\ ui' \in ShownState /\ ui'.history = ui.history /\ ui'.at = ui.at /\ ui'.idle = ui.idle
        /\ ui'.selfInitiated = ui.selfInitiated /\ ui'.missed = ui.missed
        /\ ~ui'.exit /\ ui'.phase = "closed"
    BY <1>1, <2>1 DEF ShownState
  <2>3. QED
    BY <1>1, <2>1, <2>2 DEF AddressOk, Follows, Shows, Address!Url
<1>5. ASSUME NEW at \in 1..MaxHistory, Address!Navigate(at) PROVE AddressOk(ui')
  <2> DEFINE moved == ui.history[at] # Address!Url(ui)
             missed == IF moved THEN ui.idle ELSE ui.missed
             idle == ui.idle /\ ~moved
  <2>1. PICK u : u = [ui EXCEPT !.at = at, !.missed = missed, !.idle = idle]
    OBVIOUS
  <2>2. at \in 1..Len(ui.history) /\ ui' = Address!Rendered(u)
    BY <1>1, <1>5, <2>1 DEF Address!Navigate, ShownState
  <2>3. at \in Nat /\ missed \in BOOLEAN /\ idle \in BOOLEAN
    BY <1>1, <2>2, LenProperties DEF ShownState
  <2> HIDE DEF missed, idle
  <2>4. /\ u \in ShownState /\ u.history = ui.history /\ u.at = at /\ u.idle = idle
        /\ u.selfInitiated = ui.selfInitiated /\ u.exit = ui.exit /\ u.phase = ui.phase
        /\ u.key = ui.key /\ u.missed = missed
    BY <1>1, <2>1, <2>3 DEF ShownState
  <2>5. Address!Url(u) = ui.history[at] /\ u.at \in 1..Len(u.history)
    BY <2>2, <2>4 DEF Address!Url
  <2>6. CASE ~moved
    <3>1. ui' = u
      BY <2>2, <2>5, <2>6 DEF Address!Rendered
    <3>2. (missed <=> ui.missed) /\ (idle <=> ui.idle)
      BY <2>6 DEF missed, idle
    <3>3. Follows(u, Address!Url(ui))
      BY <1>1, <2>4, <3>2 DEF Follows, Shows
    <3>4. QED
      BY <2>4, <2>5, <2>6, <3>1, <3>3 DEF AddressOk
  <2>7. CASE moved
    <3>1. ui' = Address!UrlEffect(u)
      BY <2>2, <2>5, <2>7 DEF Address!Rendered
    <3>2. missed <=> ui.idle
      BY <2>7 DEF missed
    <3>3. u.selfInitiated => u.missed
      BY <1>1, <2>4, <3>2 DEF Follows
    <3>4. u.exit <=> u.phase = "closing"
      BY <1>1, <2>4 DEF Follows
    <3>5. QED
      BY <2>4, <2>5, <3>1, <3>3, <3>4, EffectOk
  <2>8. QED
    BY <2>6, <2>7
<1>6. QED
  BY <1>2, <1>3, <1>4, <1>5 DEF Address!Next

LEMMA AddressInit == ASSUME Address!Init PROVE AddressOk(ui)
<1>1. PICK url \in Products \cup {Nothing} :
        ui = Address!UrlEffect([history |-> <<url>>, at |-> 1, key |-> Nothing, phase |-> "closed",
                                selfInitiated |-> FALSE, exit |-> FALSE, idle |-> FALSE,
                                missed |-> FALSE])
  BY DEF Address!Init
<1>2. PICK u : u = [history |-> <<url>>, at |-> 1, key |-> Nothing, phase |-> "closed",
                    selfInitiated |-> FALSE, exit |-> FALSE, idle |-> FALSE, missed |-> FALSE]
  OBVIOUS
<1>3. <<url>> \in Seq(Products \cup {Nothing}) /\ Len(<<url>>) = 1
  OBVIOUS
<1>4. u \in ShownState /\ u.at \in 1..Len(u.history) /\ ~u.exit /\ u.phase = "closed" /\ ~u.selfInitiated
  BY <1>2, <1>3 DEF ShownState
<1>5. QED
  BY <1>1, <1>2, <1>4, EffectOk

\* ?produto in the address says which product panel is open, after any clicks and any
\* use of the browser's buttons, except from a back or forward that came after opening
\* what was open or closing what was closing, until the address changes again.
THEOREM AddressIsTheTruth == Spec => []UrlIsTheTruth
<1> DEFINE Inv == part = "address" => AddressOk(ui)
<1>1. Init => Inv
  BY AddressInit DEF Init
<1>2. Inv /\ [Next]_vars => Inv'
  BY PartStays, NextAddress
<1>3. Inv => UrlIsTheTruth
  BY DEF AddressOk, Follows, Shows, ShownState, UrlIsTheTruth, Address!UrlIsTheTruth, Address!Agrees
<1> HIDE DEF Inv
<1>4. QED
  BY <1>1, <1>2, <1>3, PTL DEF Spec

-----------------------------------------------------------------------------
(* The account of the setup: the login's order in the queue                 *)

\* No other login is about to begin, or only before the code that is looked at.
NoStart(q) == \A i \in 1..Len(q) : q[i] # "start"
StartsFirst(q) == \A i, j \in 1..Len(q) : q[i] = "code" /\ q[j] = "start" => j < i

LoginNet == [sent : SUBSET Login!Kinds, calls : Nat, codeOf : 0..MaxLogins]
\* Telegram is asked about the answer the login waits for.  Only an early start waits
\* while there is a session, or behind an answer that can make one.
OrderOk(s, n) ==
  /\ n \in LoginNet /\ n.codeOf <= s.logins
  /\ Login!Answering(s) /\ s.finishing = Nothing => s.login.stage = Head(s.queue)
  /\ s.session # 0 => /\ NoStart(s.queue)
                      /\ s.login # Nothing => s.login.early
                      /\ s.finishing # Nothing => s.finishing.early
  /\ Login!Live(s) /\ s.login.stage = "password" => NoStart(s.queue)
  /\ Login!Live(s) /\ n.codeOf = s.login.id => StartsFirst(s.queue)
  /\ Login!Answering(s) /\ (s.finishing = Nothing /\ s.login.stage = "code" => n.codeOf = s.login.id)
       => NoStart(s.queue)

\* The queue is served from its head: what is behind keeps its order, and behind
\* the login's own code nobody begins another login.
LEMMA ServedInOrder ==
  ASSUME NEW q \in Seq(Waiting), q # <<>>
  PROVE  /\ NoStart(q) => NoStart(Tail(q)) /\ Head(q) # "start"
         /\ StartsFirst(q) => StartsFirst(Tail(q))
         /\ StartsFirst(q) /\ Head(q) = "code" => NoStart(q)
<1>1. /\ Len(q) \in Nat \ {0} /\ Len(Tail(q)) = Len(q) - 1 /\ Head(q) = q[1]
      /\ \A i \in 1..Len(q) - 1 : Tail(q)[i] = q[i + 1]
  BY HeadTailProperties, LenProperties, EmptySeq
<1>2. \A i \in 1..Len(Tail(q)) : i + 1 \in 1..Len(q) /\ Tail(q)[i] = q[i + 1]
  BY <1>1
<1>3. NoStart(q) => NoStart(Tail(q)) /\ Head(q) # "start"
  BY <1>1, <1>2 DEF NoStart
<1>4. StartsFirst(q) => StartsFirst(Tail(q))
  BY <1>1, <1>2 DEF StartsFirst
<1>5. StartsFirst(q) /\ Head(q) = "code" => NoStart(q)
  BY <1>1 DEF StartsFirst, NoStart
<1>6. QED
  BY <1>3, <1>4, <1>5

\* A call that begins no login changes neither at the end of the queue.
LEMMA QueuedInOrder ==
  ASSUME NEW q \in Seq(Waiting), NEW k \in Waiting, k # "start"
  PROVE  /\ NoStart(q) => NoStart(Append(q, k))
         /\ StartsFirst(q) => StartsFirst(Append(q, k))
<1>1. /\ Len(q) \in Nat /\ Len(Append(q, k)) = Len(q) + 1 /\ Append(q, k)[Len(q) + 1] = k
      /\ \A i \in 1..Len(q) : Append(q, k)[i] = q[i]
  BY AppendProperties, LenProperties
<1>2. \A i \in 1..Len(Append(q, k)) :
        (i \in 1..Len(q) /\ Append(q, k)[i] = q[i]) \/ (i = Len(q) + 1 /\ Append(q, k)[i] = k)
  BY <1>1
<1>3. NoStart(q) => NoStart(Append(q, k))
  BY <1>2 DEF NoStart
<1>4. ASSUME StartsFirst(q), NEW i \in 1..Len(Append(q, k)), NEW j \in 1..Len(Append(q, k)),
             Append(q, k)[i] = "code", Append(q, k)[j] = "start"
      PROVE  j < i
  <2>1. j \in 1..Len(q) /\ q[j] = "start"
    BY <1>2, <1>4
  <2>2. CASE i \in 1..Len(q) /\ q[i] = "code"
    BY <1>4, <2>1, <2>2 DEF StartsFirst
  <2>3. CASE i = Len(q) + 1
    BY <1>1, <2>1, <2>3
  <2>4. QED
    BY <1>2, <1>4, <2>2, <2>3
<1>5. QED
  BY <1>3, <1>4 DEF StartsFirst

\* Nothing is queued at the start.
LEMMA OrderInit == ASSUME Login!Init PROVE OrderOk(srv, net)
<1>1. /\ srv = [cred |-> FALSE, session |-> 0, login |-> Nothing, logins |-> 0,
                finishing |-> Nothing, queue |-> <<>>, holding |-> FALSE, dropped |-> {}]
      /\ net = [sent |-> {}, calls |-> 0, codeOf |-> 0]
  BY DEF Login!Init, Login!NoSession
<1>2. 0 \in 0..MaxLogins
  BY PanelAssumption
<1>3. QED
  BY <1>1, <1>2 DEF OrderOk, LoginNet, Login!Live, Login!Answering

\* A call is made: a code is typed while none is on its way.
LEMMA SendInOrder ==
  ASSUME LoginOk(srv), OrderOk(srv, net), NEW kind \in Login!Kinds, Login!Send(kind)
  PROVE  OrderOk(srv', net')
<1>1. srv' = srv /\ net \in LoginNet /\ srv \in LoginState
  BY DEF Login!Send, OrderOk, LoginOk
<1> DEFINE c == IF kind = "code" /\ srv.login # Nothing THEN srv.login.id ELSE net.codeOf
<1>2. net' = [net EXCEPT !.sent = @ \cup {kind}, !.calls = @ + 1, !.codeOf = c]
  BY <1>1 DEF Login!Send, LoginNet
<1>3. c \in 0..MaxLogins /\ c <= srv.logins
  <2>1. srv.login # Nothing => srv.login.id \in 1..MaxLogins /\ srv.login.id <= srv.logins
    BY <1>1 DEF LoginOk, Numbered, LoginState, Login!Pending, Login!Logins
  <2>2. net.codeOf \in 0..MaxLogins /\ net.codeOf <= srv.logins
    BY <1>1 DEF OrderOk, LoginNet
  <2>3. QED
    BY <2>1, <2>2, PanelAssumption
<1>4. c # net.codeOf => StartsFirst(srv.queue)
  <2>1. c # net.codeOf => kind = "code"
    OBVIOUS
  <2>2. srv.queue \in Seq(Waiting)
    BY <1>1 DEF LoginState
  <2>3. DOMAIN srv.queue = 1..Len(srv.queue)
    BY <2>2, LenProperties
  <2>4. kind = "code" => \A i \in 1..Len(srv.queue) : srv.queue[i] # "code"
    BY <2>3 DEF Login!Send, Login!Stages
  <2>5. QED
    BY <2>1, <2>4 DEF StartsFirst
<1>7. c # net.codeOf => ~Login!Answering(srv)
  <2>1. SUFFICES ASSUME c # net.codeOf, Login!Answering(srv) PROVE FALSE
    OBVIOUS
  <2>2. srv.login # Nothing /\ srv.login.stage = "code" /\ \A i \in DOMAIN srv.queue : srv.queue[i] # "code"
    BY <2>1 DEF Login!Send, Login!Stages
  <2>3. Head(srv.queue) = "code" /\ srv.queue # <<>>
    BY <1>1, <2>1, <2>2 DEF OrderOk, LoginOk, Login!Answering
  <2>4. Head(srv.queue) = srv.queue[1] /\ 1 \in DOMAIN srv.queue
    BY <1>1, <2>3, HeadTailProperties, LenProperties, EmptySeq DEF LoginState
  <2>5. QED
    BY <2>2, <2>3, <2>4
<1> HIDE DEF c
<1>5. net' \in LoginNet /\ net'.codeOf = c
  <2>1. net.sent \cup {kind} \in SUBSET Login!Kinds /\ net.calls + 1 \in Nat
    BY <1>1 DEF LoginNet
  <2>2. QED
    BY <1>1, <1>2, <1>3, <2>1 DEF LoginNet
<1>6. QED
  BY <1>1, <1>3, <1>4, <1>5, <1>7 DEF OrderOk

\* A call that is taken up is on its way no more.
LEMMA TakenInOrder ==
  ASSUME NEW s, NEW n, OrderOk(s, n), NEW kind
  PROVE  OrderOk(s, [n EXCEPT !.sent = @ \ {kind}])
<1> DEFINE m == [n EXCEPT !.sent = @ \ {kind}]
<1>1. n \in LoginNet
  BY DEF OrderOk
<1>2. m \in LoginNet /\ m.codeOf = n.codeOf
  BY <1>1 DEF LoginNet
<1> HIDE DEF m
<1>3. OrderOk(s, m)
  BY <1>2 DEF OrderOk
<1>4. QED
  BY <1>3 DEF m

\* Whoever gives the lock back leaves the queue in its order.
LEMMA ReleasedInOrder ==
  ASSUME NEW s, NEW n, LoginOk(s), OrderOk(s, n), s.queue # <<>>, s.finishing = Nothing
  PROVE  OrderOk(Login!Released(s), n)
<1> DEFINE t == Login!Released(s)
<1>1. s \in LoginState /\ s.queue \in Seq(Waiting)
  BY DEF LoginOk, LoginState
<1>2. /\ t.queue = Tail(s.queue) /\ ~t.holding /\ t.login = s.login /\ t.logins = s.logins
      /\ t.session = s.session /\ t.finishing = Nothing
  BY <1>1 DEF Login!Released, LoginState
<1>3. /\ NoStart(s.queue) => NoStart(t.queue)
      /\ StartsFirst(s.queue) => StartsFirst(t.queue)
  BY <1>1, <1>2, ServedInOrder
<1>4. Login!Live(t) <=> Login!Live(s)
  BY <1>2 DEF Login!Live
<1> HIDE DEF t
<1>5. OrderOk(t, n)
  BY <1>2, <1>3, <1>4 DEF OrderOk, Login!Answering
<1>6. QED
  BY <1>5 DEF t

\* Without a login nobody's code is looked at.
LEMMA DiscardedInOrder ==
  ASSUME NEW s, NEW n, LoginOk(s), OrderOk(s, n), ~Login!Answering(s)
  PROVE  /\ OrderOk(Login!Discarded(s), n) /\ LoginOk(Login!Discarded(s))
         /\ Login!Discarded(s).queue = s.queue /\ Login!Discarded(s).login = Nothing
         /\ Login!Discarded(s).session = s.session /\ Login!Discarded(s).finishing = Nothing
         /\ Login!Discarded(s).logins = s.logins
<1> DEFINE t == Login!Discarded(s)
<1>1. s \in LoginState
  BY DEF LoginOk
<1>2. /\ t.queue = s.queue /\ t.holding = s.holding /\ t.login = Nothing /\ t.logins = s.logins
      /\ t.session = s.session /\ t.finishing = Nothing
  BY <1>1 DEF Login!Discarded, LoginState, LoginOk
<1>3. ~Login!Live(t)
  BY <1>2 DEF Login!Live
<1>5. LoginOk(t)
  BY DiscardedOk
<1> HIDE DEF t
<1>4. OrderOk(t, n)
  BY <1>2, <1>3 DEF OrderOk, Login!Answering
<1>6. QED
  BY <1>2, <1>4, <1>5 DEF t

\* A login given up as its call ends leaves the queue in its order.
LEMMA EndedInOrder ==
  ASSUME NEW s, NEW n, LoginOk(s), OrderOk(s, n), s.queue # <<>>, s.finishing = Nothing
  PROVE  LET t == Login!Released(Login!Discarded(s)) IN
         /\ OrderOk(t, n) /\ LoginOk(t) /\ t.login = Nothing /\ ~t.holding
         /\ t.session = s.session /\ t.logins = s.logins /\ t.finishing = Nothing
<1> DEFINE r == Login!Released(s)
<1>1. s \in LoginState
  BY DEF LoginOk
<1>2. Login!Released(Login!Discarded(s)) = Login!Discarded(r)
  BY <1>1 DEF Login!Released, Login!Discarded, LoginState
<1>3. LoginOk(r) /\ OrderOk(r, n) /\ ~r.holding
  BY ReleasedOk, ReleasedInOrder
<1>4. r.session = s.session /\ r.logins = s.logins /\ r.finishing = Nothing
  BY <1>1 DEF Login!Released, LoginState
<1> HIDE DEF r
<1>5. /\ OrderOk(Login!Discarded(r), n) /\ LoginOk(Login!Discarded(r))
      /\ Login!Discarded(r).login = Nothing
      /\ Login!Discarded(r).session = r.session /\ Login!Discarded(r).finishing = Nothing
      /\ Login!Discarded(r).logins = r.logins
  BY <1>3, DiscardedInOrder DEF Login!Answering
<1>6. ~Login!Discarded(r).holding
  <2>1. r \in LoginState
    BY <1>3 DEF LoginOk
  <2>2. QED
    BY <1>3, <2>1 DEF Login!Discarded, LoginState
<1>7. QED
  BY <1>2, <1>4, <1>5, <1>6

\* The calls, up to the lock: none asks for a code while there is a session or a login,
\* and behind an answer only an early start does.
LEMMA CallInOrder ==
  ASSUME LoginOk(srv), OrderOk(srv, net),
         \/ Login!SaveCredentials \/ Login!ServeStart \/ Login!ServeCancel
         \/ Login!ServeDisconnect \/ \E kind \in Login!Stages : Login!ServeAnswer(kind)
  PROVE  OrderOk(srv', net')
<1>1. srv \in LoginState /\ srv.queue \in Seq(Waiting)
  BY DEF LoginOk, LoginState
<1>2. PICK kind \in Login!Kinds : Login!Taken(kind)
  BY DEF Login!SaveCredentials, Login!ServeStart, Login!ServeCancel, Login!ServeDisconnect,
         Login!ServeAnswer, Login!Queued, Login!Kinds, Login!Stages
<1>3. SUFFICES OrderOk(srv', net)
  BY <1>2, TakenInOrder DEF Login!Taken
<1>4. CASE srv' = srv
  BY <1>4
<1>5. CASE srv' = [srv EXCEPT !.cred = TRUE]
  <2>1. /\ srv'.queue = srv.queue /\ srv'.holding = srv.holding /\ srv'.login = srv.login
        /\ srv'.logins = srv.logins /\ srv'.session = srv.session /\ srv'.finishing = srv.finishing
    BY <1>1, <1>5 DEF LoginState
  <2>2. QED
    BY <2>1 DEF OrderOk, Login!Live, Login!Answering
<1>6. ASSUME NEW k \in Waiting, srv' = [srv EXCEPT !.queue = Append(@, k)],
             k = "start" => srv.session = 0 /\ ~Login!Live(srv) /\ ~Login!Answering(srv)
      PROVE  OrderOk(srv', net)
  <2>1. /\ srv'.queue = Append(srv.queue, k) /\ srv'.holding = srv.holding
        /\ srv'.login = srv.login /\ srv'.logins = srv.logins
        /\ srv'.session = srv.session /\ srv'.finishing = srv.finishing
    BY <1>1, <1>6 DEF LoginState
  <2>2. /\ srv'.holding => Head(srv'.queue) = Head(srv.queue)
        /\ Login!Answering(srv') <=> Login!Answering(srv)
    BY <1>1, <2>1, QueueFacts DEF LoginOk, Login!Answering
  <2>3. k # "start" => /\ NoStart(srv.queue) => NoStart(srv'.queue)
                       /\ StartsFirst(srv.queue) => StartsFirst(srv'.queue)
    BY <1>1, <2>1, QueuedInOrder
  <2>4. Login!Live(srv') <=> Login!Live(srv)
    BY <2>1 DEF Login!Live
  <2>5. QED
    BY <1>6, <2>1, <2>2, <2>3, <2>4 DEF OrderOk, Login!Answering
<1>7. \/ srv' = srv \/ srv' = [srv EXCEPT !.cred = TRUE]
      \/ \E k \in Waiting : /\ srv' = [srv EXCEPT !.queue = Append(@, k)]
                            /\ k = "start" => /\ srv.session = 0 /\ ~Login!Live(srv)
                                             /\ ~Login!Answering(srv)
  <2>1. /\ {"start", "early start", "cancel", "disconnect", "code", "password"} \subseteq Waiting
        /\ Login!Stages = {"code", "password"}
    BY DEF Waiting, Login!Kinds, Login!Starts, Login!Stages
  <2>2. CASE Login!ServeStart
    <3>1. CASE ~Login!MayStart(srv)
      BY <2>2, <3>1 DEF Login!ServeStart
    <3>2. CASE Login!MayStart(srv) /\ Login!Answering(srv)
      BY <2>1, <2>2, <3>2 DEF Login!ServeStart, Login!Appended
    <3>3. CASE Login!MayStart(srv) /\ ~Login!Answering(srv)
      BY <2>1, <2>2, <3>3 DEF Login!ServeStart, Login!Appended, Login!MayStart, Login!NoSession
    <3>4. QED
      BY <3>1, <3>2, <3>3
  <2>3. CASE Login!ServeCancel \/ Login!ServeDisconnect
    BY <2>1, <2>3 DEF Login!ServeCancel, Login!ServeDisconnect, Login!Queued, Login!Appended
  <2>4. CASE \E k \in Login!Stages : Login!ServeAnswer(k)
    BY <2>1, <2>4 DEF Login!ServeAnswer, Login!Queued, Login!Appended
  <2>5. CASE Login!SaveCredentials
    BY <2>5 DEF Login!SaveCredentials
  <2>6. QED
    BY <2>2, <2>3, <2>4, <2>5
<1>8. QED
  BY <1>4, <1>5, <1>6, <1>7

\* The lock is had: by a login that is asked for, or for the answer that is awaited.
LEMMA TurnInOrder ==
  ASSUME LoginOk(srv), OrderOk(srv, net),
         \/ Login!TurnStart \/ Login!TurnCancel \/ Login!TurnDisconnect
         \/ \E kind \in Login!Stages : Login!TurnAnswer(kind)
  PROVE  OrderOk(srv', net')
<1>1. /\ srv \in LoginState /\ srv.queue # <<>> /\ ~srv.holding /\ net' = net
      /\ srv.finishing = Nothing /\ ~Login!Answering(srv) /\ srv.queue \in Seq(Waiting)
  BY DEF LoginOk, LoginState, Login!TurnStart, Login!TurnCancel, Login!TurnDisconnect,
         Login!TurnAnswer, Login!HasTurn, Login!Answering
<1>2. OrderOk(Login!Released(srv), net)
  BY <1>1, ReleasedInOrder
<1>3. ASSUME NEW s, LoginOk(s), OrderOk(s, net), s.queue = srv.queue,
             srv' = Login!Holding(s), s.finishing = Nothing,
             Head(srv.queue) \in Login!Stages => s.login.stage = Head(srv.queue) /\ Login!Live(s)
      PROVE  OrderOk(srv', net)
  <2>1. s \in LoginState
    BY <1>3 DEF LoginOk
  <2>2. /\ srv'.queue = s.queue /\ srv'.login = s.login /\ srv'.logins = s.logins
        /\ srv'.session = s.session /\ srv'.finishing = Nothing
    BY <1>3, <2>1 DEF Login!Holding, LoginState
  <2>3. /\ s.login.stage = "password" /\ Login!Live(s) => NoStart(s.queue)
        /\ Head(s.queue) = "code" /\ Login!Live(s) /\ net.codeOf = s.login.id => NoStart(s.queue)
    BY <1>1, <1>3, ServedInOrder DEF OrderOk
  <2>4. Login!Live(srv') <=> Login!Live(s)
    BY <2>2 DEF Login!Live
  <2>5. Login!Answering(srv') => Head(s.queue) \in {"code", "password"} /\ s.login.stage = Head(s.queue) /\ Login!Live(s)
    BY <1>3, <2>2 DEF Login!Answering, Login!Stages
  <2>6. QED
    BY <1>3, <2>2, <2>3, <2>4, <2>5 DEF OrderOk
<1>4. CASE Login!TurnStart
  <2>1. /\ LoginOk(Login!Discarded(srv)) /\ OrderOk(Login!Discarded(srv), net)
        /\ Login!Discarded(srv).queue = srv.queue /\ Login!Discarded(srv).finishing = Nothing
    BY <1>1, DiscardedInOrder
  <2>2. Head(srv.queue) \notin Login!Stages
    BY <1>4 DEF Login!TurnStart, Login!HasTurn, Login!Starts, Login!Stages
  <2>3. QED
    BY <1>1, <1>2, <1>3, <1>4, <2>1, <2>2 DEF Login!TurnStart
<1>5. CASE \E kind \in Login!Stages : Login!TurnAnswer(kind)
  BY <1>1, <1>2, <1>3, <1>5 DEF Login!TurnAnswer, Login!HasTurn
<1>6. CASE Login!TurnCancel
  BY <1>1, <1>6, EndedInOrder DEF Login!TurnCancel
<1>7. CASE Login!TurnDisconnect
  <2> DEFINE r == Login!Released(Login!Discarded(srv))
  <2>1. /\ OrderOk(r, net) /\ LoginOk(r) /\ r.login = Nothing /\ ~r.holding
        /\ srv' = [r EXCEPT !.session = Login!NoSession, !.cred = FALSE] /\ r.finishing = Nothing
    BY <1>1, <1>7, EndedInOrder DEF Login!TurnDisconnect
  <2> HIDE DEF r
  <2>2. r \in LoginState
    BY <2>1 DEF LoginOk
  <2>3. /\ srv'.queue = r.queue /\ srv'.login = Nothing /\ srv'.logins = r.logins
        /\ srv'.session = 0 /\ ~srv'.holding /\ srv'.finishing = Nothing
    BY <2>1, <2>2 DEF LoginState, Login!NoSession
  <2>4. QED
    BY <1>1, <2>1, <2>3 DEF OrderOk, Login!Live, Login!Answering
<1>8. QED
  BY <1>4, <1>5, <1>6, <1>7

\* Telegram has sent the code a login begins with: its start was early if there is a
\* session by now, and no code of that login was typed before.
LEMMA CodeInOrder ==
  ASSUME LoginOk(srv), OrderOk(srv, net), NEW sent \in BOOLEAN, Login!CodeSent(sent)
  PROVE  OrderOk(srv', net')
<1> DEFINE r == Login!Released(srv)
           early == Head(srv.queue) = "early start"
           l == [id |-> srv.logins + 1, stage |-> "code", live |-> TRUE, bad |-> 0, early |-> early]
<1>1. /\ srv \in LoginState /\ srv.queue # <<>> /\ srv.queue \in Seq(Waiting)
      /\ Head(srv.queue) \in {"start", "early start"} /\ net' = net /\ srv.finishing = Nothing
  BY DEF LoginOk, LoginState, Login!CodeSent, Login!Answering, Login!Starts, Login!Stages
<1>2. LoginOk(r) /\ OrderOk(r, net) /\ ~r.holding
  BY <1>1, ReleasedOk, ReleasedInOrder
<1>3. r.session = srv.session /\ r.logins = srv.logins /\ r.finishing = Nothing
  BY <1>1 DEF Login!Released, LoginState
<1>4. srv.session # 0 => early
  BY <1>1, ServedInOrder DEF OrderOk
<1>5. CASE ~sent
  BY <1>1, <1>2, <1>5 DEF Login!CodeSent
<1>6. CASE sent
  <2>1. srv' = [r EXCEPT !.logins = @ + 1, !.login = l]
    BY <1>6 DEF Login!CodeSent
  <2> HIDE DEF r
  <2>2. r \in LoginState
    BY <1>2 DEF LoginOk
  <2>3. /\ srv'.logins = r.logins + 1 /\ srv'.login = l /\ ~srv'.holding
        /\ srv'.session = r.session /\ srv'.finishing = Nothing /\ srv'.queue = r.queue
    BY <1>2, <1>3, <2>1, <2>2 DEF LoginState
  <2>4. r.logins \in Nat /\ net.codeOf \in Int /\ net.codeOf <= r.logins
    BY <1>2, <2>2, PanelAssumption DEF LoginState, OrderOk, LoginNet
  <2>5. l.id = r.logins + 1 /\ l.stage = "code"
    BY <1>3
  <2>10. l.early = early
    OBVIOUS
  <2>6. srv'.session # 0 => srv'.login.early
    <3>1. srv'.session = srv.session
      BY <1>3, <2>3
    <3>2. srv'.session # 0 => early
      BY <1>4, <3>1
    <3>3. srv'.login.early = early
      BY <2>3, <2>10
    <3> HIDE DEF early
    <3>4. QED
      BY <3>2, <3>3, Zenon
  <2>7. srv'.session # 0 => NoStart(srv'.queue)
    BY <1>2, <2>3 DEF OrderOk
  <2> HIDE DEF l, early
  <2>8. net' \in LoginNet /\ net'.codeOf <= srv'.logins /\ net'.codeOf # srv'.login.id
    <3>1. net \in LoginNet
      BY <1>2 DEF OrderOk
    <3>2. /\ srv'.logins = r.logins + 1 /\ srv'.login.id = r.logins + 1
      BY <2>3, <2>5
    <3>3. net' = net
      BY <1>1
    <3>4. net.codeOf <= r.logins + 1 /\ net.codeOf # r.logins + 1
      BY ONLY <2>4
    <3>5. QED
      BY ONLY <3>1, <3>2, <3>3, <3>4
  <2>9. QED
    BY <2>3, <2>5, <2>6, <2>7, <2>8 DEF OrderOk, Login!Answering
<1>7. QED
  BY <1>5, <1>6

\* Behind the answer that Telegram finds right, only an early start waits.
LEMMA AnswerInOrder ==
  ASSUME LoginOk(srv), OrderOk(srv, net), NEW kind \in Login!Stages,
         NEW verdict \in Login!Verdicts, Login!SignedIn(kind, verdict)
  PROVE  OrderOk(srv', net')
<1> DEFINE r == Login!Released(srv)
<1>1. /\ srv \in LoginState /\ srv.holding /\ srv.queue # <<>> /\ srv.login # Nothing
      /\ srv.queue \in Seq(Waiting) /\ Head(srv.queue) = kind /\ net' = net
      /\ srv.login.stage = kind /\ srv.finishing = Nothing /\ Login!Answering(srv)
  BY DEF LoginOk, LoginState, OrderOk, Login!SignedIn, Login!Answering
<1>3. LoginOk(r) /\ OrderOk(r, net) /\ ~r.holding /\ r.login = srv.login /\ r.finishing = Nothing
  BY <1>1, ReleasedOk, ReleasedInOrder
<1>4. r.session = srv.session /\ r.logins = srv.logins /\ r.queue = Tail(srv.queue)
  BY <1>1 DEF Login!Released, LoginState
<1>5. verdict \in {"right", "password needed"} => NoStart(srv.queue) /\ NoStart(Tail(srv.queue))
  <2>1. verdict \in {"right", "password needed"} => NoStart(srv.queue)
    BY <1>1 DEF OrderOk, Login!SignedIn
  <2>2. QED
    BY <1>1, <2>1, ServedInOrder
<1>6. r \in LoginState /\ srv.login \in Login!Pending
  BY <1>1, <1>3 DEF LoginOk, LoginState
<1>7. CASE verdict = "right"
  <2>1. srv' = [srv EXCEPT !.login = Nothing, !.finishing = srv.login]
    BY <1>7 DEF Login!SignedIn, Login!Finishing
  <2>2. /\ srv'.queue = srv.queue /\ srv'.login = Nothing /\ srv'.finishing = srv.login
        /\ srv'.logins = srv.logins /\ srv'.session = srv.session
    BY <1>1, <2>1 DEF LoginState
  <2>3. QED
    BY <1>1, <1>5, <1>7, <2>2 DEF OrderOk, Login!Live
<1>8. CASE verdict = "password needed"
  <2> DEFINE l == [srv.login EXCEPT !.stage = "password"]
  <2>1. /\ l.id = srv.login.id /\ l.stage = "password" /\ l.early = srv.login.early
        /\ l \in Login!Pending
    BY <1>6 DEF Login!Pending, Login!Stages
  <2>2. srv' = [r EXCEPT !.login = l]
    BY <1>1, <1>8 DEF Login!SignedIn, Login!Released, LoginState
  <2> HIDE DEF r, l
  <2>3. /\ srv'.queue = r.queue /\ srv'.login = l /\ ~srv'.holding
        /\ srv'.logins = r.logins /\ srv'.finishing = Nothing /\ srv'.session = r.session
    BY <1>3, <1>6, <2>2 DEF LoginState
  <2>4. NoStart(srv'.queue) /\ StartsFirst(srv'.queue)
    BY <1>4, <1>5, <1>8, <2>3 DEF NoStart, StartsFirst
  <2>5. srv'.session # 0 => srv'.login.early
    BY <1>1, <1>4, <2>1, <2>3 DEF OrderOk
  <2>6. net \in LoginNet /\ net.codeOf <= srv'.logins
    BY <1>3, <2>3 DEF OrderOk
  <2>7. QED
    BY <1>1, <2>3, <2>4, <2>5, <2>6 DEF OrderOk, Login!Answering
<1>9. CASE verdict \notin {"right", "password needed"}
  <2>1. srv' = Login!Released(Login!Failed(srv, verdict))
    BY <1>9 DEF Login!SignedIn
  <2>2. CASE verdict = "wrong" /\ srv.login.bad + 1 < MAX_CODE_ATTEMPTS
    <3> DEFINE l == [srv.login EXCEPT !.bad = @ + 1]
    <3>1. /\ l.id = srv.login.id /\ l.stage = srv.login.stage /\ l.live = srv.login.live
          /\ l.early = srv.login.early
      BY <1>6 DEF Login!Pending
    <3>2. l \in Login!Pending
      BY <1>6, <2>2, PanelAssumption DEF Login!Pending
    <3>3. srv' = [r EXCEPT !.login = l]
      BY <1>1, <2>1, <2>2 DEF Login!Failed, Login!Released, LoginState
    <3> HIDE DEF r, l
    <3>4. /\ srv'.queue = r.queue /\ srv'.login = l /\ ~srv'.holding
          /\ srv'.logins = r.logins /\ srv'.finishing = Nothing /\ srv'.session = r.session
      BY <1>3, <1>6, <3>3 DEF LoginState
    <3>5. Login!Live(srv') <=> Login!Live(r)
      BY <1>1, <1>3, <3>1, <3>2, <3>4, PanelAssumption DEF Login!Live
    <3>6. QED
      BY <1>1, <1>3, <1>4, <3>1, <3>4, <3>5 DEF OrderOk, Login!Answering
  <2>3. CASE ~(verdict = "wrong" /\ srv.login.bad + 1 < MAX_CODE_ATTEMPTS)
    BY <1>1, <2>1, <2>3, EndedInOrder DEF Login!Failed
  <2>4. QED
    BY <2>2, <2>3
<1>10. QED
  BY <1>7, <1>8, <1>9 DEF Login!Verdicts

\* The login that was finished is the session, and what waits behind it is early.
LEMMA FinishEndsInOrder ==
  ASSUME LoginOk(srv), OrderOk(srv, net), Login!FinishEnds
  PROVE  OrderOk(srv', net')
<1>1. /\ srv \in LoginState /\ srv.queue \in Seq(Waiting) /\ srv.queue # <<>> /\ net' = net
      /\ srv.login = Nothing /\ Login!Answering(srv) /\ srv.finishing # Nothing
  BY DEF LoginOk, LoginState, Login!Answering, Login!FinishEnds
<1>2. NoStart(Tail(srv.queue))
  BY <1>1, ServedInOrder DEF OrderOk
<1>3. srv' = [srv EXCEPT !.queue = Tail(srv.queue), !.holding = FALSE,
                         !.session = srv.finishing.id, !.finishing = Nothing]
  BY <1>1 DEF Login!FinishEnds, Login!Released, LoginState
<1>4. /\ srv'.queue = Tail(srv.queue) /\ srv'.login = Nothing /\ srv'.finishing = Nothing
      /\ srv'.logins = srv.logins /\ ~srv'.holding
  BY <1>1, <1>3 DEF LoginState
<1>5. QED
  BY <1>1, <1>2, <1>4 DEF OrderOk, Login!Live, Login!Answering

\* Time, restarts and the calls keep the order of the logins.
LEMMA NextOrder ==
  ASSUME LoginOk(srv), OrderOk(srv, net), [Login!Next]_<<srv, net>>
  PROVE  OrderOk(srv', net')
<1>1. srv \in LoginState
  BY DEF LoginOk
<1>2. CASE UNCHANGED <<srv, net>>
  BY <1>2
<1>3. CASE Login!LoginExpires
  <2> DEFINE l == [srv.login EXCEPT !.live = FALSE]
  <2>1. net' = net /\ srv' = [srv EXCEPT !.login = l]
    BY <1>1, <1>3 DEF Login!LoginExpires, LoginState
  <2>2. srv.login \in Login!Pending
    BY <1>1, <1>3 DEF Login!LoginExpires, Login!Live, LoginState
  <2>3. l.stage = srv.login.stage /\ l.live = FALSE /\ l.id = srv.login.id /\ l.early = srv.login.early
    BY <2>2 DEF Login!Pending
  <2> HIDE DEF l
  <2>4. /\ srv'.queue = srv.queue /\ srv'.login = l /\ srv'.holding = srv.holding
        /\ srv'.logins = srv.logins /\ srv'.finishing = srv.finishing /\ srv'.session = srv.session
    BY <1>1, <2>1 DEF LoginState
  <2>5. srv.login # Nothing
    BY <1>3 DEF Login!LoginExpires, Login!Live
  <2>6. QED
    BY <2>1, <2>3, <2>4, <2>5 DEF OrderOk, Login!Live, Login!Answering
<1>4. CASE Login!ExpireLater
  BY <1>4, DiscardedInOrder DEF Login!ExpireLater, Login!Answering
<1>5. CASE Login!Restart
  <2>1. PICK d : srv' = [srv EXCEPT !.login = Nothing, !.finishing = Nothing, !.dropped = d,
                                    !.queue = <<>>, !.holding = FALSE]
    BY <1>1, <1>5 DEF Login!Restart, LoginState
  <2>4. /\ srv'.queue = <<>> /\ srv'.login = Nothing /\ ~srv'.holding /\ srv'.logins = srv.logins
        /\ srv'.finishing = Nothing /\ net' = net
    BY <1>1, <1>5, <2>1 DEF LoginState, Login!Restart
  <2>5. NoStart(srv'.queue)
    BY <2>4 DEF NoStart
  <2>6. QED
    BY <2>4, <2>5 DEF OrderOk, Login!Live, Login!Answering
<1>6. CASE \E kind \in Login!Kinds : Login!Send(kind)
  BY <1>6, SendInOrder
<1>7. CASE \E sent \in BOOLEAN : Login!CodeSent(sent)
  BY <1>7, CodeInOrder
<1>8. CASE \E kind \in Login!Stages, verdict \in Login!Verdicts : Login!SignedIn(kind, verdict)
  BY <1>8, AnswerInOrder
<1>9. QED
  BY <1>2, <1>3, <1>4, <1>5, <1>6, <1>7, <1>8, FinishEndsInOrder, CallInOrder, TurnInOrder DEF Login!Next

\* The session is replaced where a login is finished alone, and one that finds a session
\* was begun by an early start.
LEMMA SessionStays ==
  ASSUME LoginOk(srv), OrderOk(srv, net), [Login!Next]_<<srv, net>>
  PROVE  Login!SessionKept
<1>1. srv \in LoginState
  BY DEF LoginOk
<1>18. CASE Login!FinishEnds
  BY <1>18 DEF OrderOk, Login!FinishEnds, Login!SessionKept, Login!NoSession
<1>2. SUFFICES ASSUME ~Login!FinishEnds PROVE srv'.session \in {srv.session, 0}
  BY <1>18 DEF Login!SessionKept, Login!NoSession
<1>4. Login!Discarded(srv).session = srv.session /\ Login!Released(srv).session = srv.session
  BY <1>1 DEF Login!Discarded, Login!Released, LoginState
<1>5. Login!Discarded(srv) = [srv EXCEPT !.login = Nothing, !.dropped = Login!Discarded(srv).dropped]
  BY DiscardedKeeps
<1> DEFINE t == Login!Discarded(srv)
<1>6. t.session = srv.session /\ DOMAIN t = DOMAIN srv
  BY <1>4, <1>5
<1>7. "session" \in DOMAIN srv /\ "cred" \in DOMAIN srv
  BY <1>1 DEF LoginState
<1> HIDE DEF t
<1>8. /\ Login!Released(t).session = srv.session /\ Login!Holding(t).session = srv.session
      /\ Login!Holding(srv).session = srv.session
      /\ [Login!Released(t) EXCEPT !.session = Login!NoSession, !.cred = FALSE].session = 0
  BY <1>6, <1>7 DEF Login!Released, Login!Holding, Login!NoSession
<1>3. CASE \E kind \in Login!Stages, verdict \in Login!Verdicts : Login!SignedIn(kind, verdict)
  <2>1. PICK kind \in Login!Stages, verdict \in Login!Verdicts : Login!SignedIn(kind, verdict)
    BY <1>3
  <2>2. Login!Finishing(srv).session = srv.session
    BY <1>1 DEF Login!Finishing, LoginState
  <2>3. \A l : Login!Released([srv EXCEPT !.login = l]).session = srv.session
    BY <1>1 DEF Login!Released, LoginState
  <2>4. Login!Released(Login!Failed(srv, verdict)).session = srv.session
    BY <1>8, <2>3 DEF t, Login!Failed
  <2>5. QED
    BY <2>1, <2>2, <2>3, <2>4 DEF Login!SignedIn
<1>9. ASSUME NEW kind, Login!Appended(kind) PROVE srv'.session = srv.session
  BY <1>1, <1>9 DEF Login!Appended, LoginState
<1>10. CASE \/ Login!SaveCredentials \/ Login!ServeStart \/ Login!ServeCancel
            \/ Login!ServeDisconnect \/ \E kind \in Login!Stages : Login!ServeAnswer(kind)
  <2>1. [srv EXCEPT !.cred = TRUE].session = srv.session
    BY <1>7
  <2>2. QED
    BY <1>9, <1>10, <2>1 DEF Login!SaveCredentials, Login!ServeStart, Login!ServeCancel,
         Login!ServeDisconnect, Login!ServeAnswer, Login!Queued
<1>11. CASE \/ Login!TurnStart \/ Login!TurnCancel \/ Login!TurnDisconnect
            \/ \E kind \in Login!Stages : Login!TurnAnswer(kind)
  BY <1>4, <1>8, <1>11 DEF t, Login!TurnStart, Login!TurnCancel, Login!TurnDisconnect,
       Login!TurnAnswer
<1>12. CASE \E sent \in BOOLEAN : Login!CodeSent(sent)
  <2> DEFINE r == Login!Released(srv)
  <2>1. "session" \in DOMAIN r
    BY <1>7 DEF Login!Released
  <2>2. PICK l, n : srv' = r \/ srv' = [r EXCEPT !.logins = n, !.login = l]
    BY <1>12 DEF Login!CodeSent
  <2>3. r.session = srv.session
    BY <1>4
  <2> HIDE DEF r
  <2>4. QED
    BY <2>1, <2>2, <2>3
<1>13. CASE Login!LoginExpires
  BY <1>7, <1>13 DEF Login!LoginExpires
<1>14. CASE Login!ExpireLater
  BY <1>4, <1>14 DEF Login!ExpireLater
<1>19. CASE Login!Restart
  <2>1. PICK d : srv' = [srv EXCEPT !.login = Nothing, !.finishing = Nothing, !.dropped = d,
                                    !.queue = <<>>, !.holding = FALSE]
    BY <1>1, <1>19 DEF Login!Restart, LoginState
  <2>2. QED
    BY <1>1, <2>1 DEF LoginState
<1>15. CASE \E kind \in Login!Kinds : Login!Send(kind)
  BY <1>15 DEF Login!Send
<1>16. CASE UNCHANGED <<srv, net>>
  BY <1>16
<1>17. QED
  BY <1>2, <1>3, <1>10, <1>11, <1>12, <1>13, <1>14, <1>15, <1>16, <1>19 DEF Login!Next

-----------------------------------------------------------------------------
(* The groups of the account: a scan lists the groups of the account that was *)
(* connected when it began.                                                   *)

GroupsState ==
  [account : Nat, last : Nat, scan : Groups!States, old : BOOLEAN, dialogs : SUBSET (Nat \ {0}),
   sources : SUBSET Nat, listing : Nat, online : BOOLEAN, late : BOOLEAN]
\* The list is of the account that is connected, of none without one.
GroupsOk(s) ==
  /\ s \in GroupsState
  /\ ~s.late => s.dialogs \subseteq {s.account}

\* Nothing is listed at the start.
LEMMA GroupsInit == ASSUME Groups!Init PROVE GroupsOk(srv)
<1>1. srv = [account |-> 1, last |-> 1, scan |-> "idle", old |-> FALSE, dialogs |-> {},
             sources |-> {}, listing |-> 0, online |-> FALSE, late |-> FALSE]
  BY DEF Groups!Init, Groups!NoAccount
<1>2. srv \in GroupsState
  BY <1>1 DEF GroupsState, Groups!States
<1>3. QED
  BY <1>1, <1>2 DEF GroupsOk

\* The listener lists the account it began with, and says when that is another by now.
LEMMA ScanOk ==
  ASSUME GroupsOk(srv),
         Groups!Claim \/ Groups!ScanGetsOld \/ \E ok \in BOOLEAN : Groups!Finish(ok)
  PROVE  GroupsOk(srv') /\ srv'.sources = srv.sources
<1>1. srv \in GroupsState
  BY DEF GroupsOk
<1>2. CASE Groups!Claim
  <2>1. srv' = [srv EXCEPT !.scan = "running", !.listing = srv.account]
    BY <1>2 DEF Groups!Claim
  <2>2. srv' \in GroupsState
    BY <1>1, <2>1 DEF GroupsState, Groups!States
  <2>3. /\ srv'.dialogs = srv.dialogs /\ srv'.account = srv.account /\ srv'.late = srv.late
        /\ srv'.sources = srv.sources
    BY <1>1, <2>1 DEF GroupsState
  <2>4. QED
    BY <2>2, <2>3 DEF GroupsOk
<1>3. CASE Groups!ScanGetsOld
  <2>1. srv' = [srv EXCEPT !.old = TRUE]
    BY <1>3 DEF Groups!ScanGetsOld
  <2>2. srv' \in GroupsState
    BY <1>1, <2>1 DEF GroupsState
  <2>3. /\ srv'.dialogs = srv.dialogs /\ srv'.account = srv.account /\ srv'.late = srv.late
        /\ srv'.sources = srv.sources
    BY <1>1, <2>1 DEF GroupsState
  <2>4. QED
    BY <2>2, <2>3 DEF GroupsOk
<1>4. ASSUME NEW ok \in BOOLEAN, Groups!Finish(ok)
      PROVE  GroupsOk(srv') /\ srv'.sources = srv.sources
  <2> DEFINE scan == IF ok THEN "done" ELSE "failed"
             dialogs == IF ok THEN {srv.listing} ELSE srv.dialogs
             late == IF ok THEN srv.listing # srv.account ELSE srv.late
  <2>1. srv' = [srv EXCEPT !.scan = scan, !.dialogs = dialogs, !.listing = 0, !.late = late]
    BY <1>1, <1>4 DEF Groups!Finish, Groups!NoAccount, GroupsState
  <2>8. srv.listing \in Nat \ {0} /\ srv.dialogs \in SUBSET (Nat \ {0})
    <3>1. srv.listing # 0
      BY <1>4 DEF Groups!Finish, Groups!NoAccount
    <3>2. QED
      BY <1>1, <3>1 DEF GroupsState
  <2>2. scan \in Groups!States /\ dialogs \in SUBSET (Nat \ {0})
    BY <2>8 DEF Groups!States
  <2>3. late \in BOOLEAN
    BY <1>1 DEF GroupsState
  <2>4. ~late => dialogs \subseteq {srv.account}
    BY DEF GroupsOk
  <2> HIDE DEF scan, dialogs, late
  <2>5. srv' \in GroupsState
    BY <1>1, <2>1, <2>2, <2>3 DEF GroupsState
  <2>6. /\ srv'.dialogs = dialogs /\ srv'.account = srv.account /\ srv'.late = late
        /\ srv'.sources = srv.sources
    BY <1>1, <2>1 DEF GroupsState
  <2>7. QED
    BY <2>4, <2>5, <2>6 DEF GroupsOk
<1>5. QED
  BY <1>2, <1>3, <1>4

\* The account goes with its list, and comes to none.
LEMMA AccountOk ==
  ASSUME GroupsOk(srv),
         \/ Groups!ListenerStops \/ Groups!ListenerStarts \/ Groups!Disconnect
         \/ \E account \in Groups!Accounts : Groups!Connect(account)
  PROVE  GroupsOk(srv') /\ srv'.sources = srv.sources
<1>1. srv \in GroupsState
  BY DEF GroupsOk
<1>2. CASE Groups!ListenerStops
  <2>1. srv' = [srv EXCEPT !.online = FALSE, !.listing = 0]
    BY <1>2 DEF Groups!ListenerStops, Groups!NoAccount
  <2>2. srv' \in GroupsState
    BY <1>1, <2>1 DEF GroupsState
  <2>3. /\ srv'.dialogs = srv.dialogs /\ srv'.account = srv.account /\ srv'.late = srv.late
        /\ srv'.sources = srv.sources
    BY <1>1, <2>1 DEF GroupsState
  <2>4. QED
    BY <2>2, <2>3 DEF GroupsOk
<1>3. CASE Groups!ListenerStarts
  <2>1. srv' = [srv EXCEPT !.online = TRUE]
    BY <1>3 DEF Groups!ListenerStarts
  <2>2. srv' \in GroupsState
    BY <1>1, <2>1 DEF GroupsState
  <2>3. /\ srv'.dialogs = srv.dialogs /\ srv'.account = srv.account /\ srv'.late = srv.late
        /\ srv'.sources = srv.sources
    BY <1>1, <2>1 DEF GroupsState
  <2>4. QED
    BY <2>2, <2>3 DEF GroupsOk
<1>4. CASE Groups!Disconnect
  <2>1. PICK t : /\ t = [srv EXCEPT !.scan = "idle", !.old = FALSE, !.dialogs = {}, !.late = FALSE]
                 /\ srv' = [t EXCEPT !.account = 0]
    BY <1>4 DEF Groups!Disconnect, Groups!Cleared, Groups!NoAccount
  <2>2. t \in GroupsState
    BY <1>1, <2>1 DEF GroupsState, Groups!States
  <2>3. t.dialogs = {} /\ t.sources = srv.sources
    BY <1>1, <2>1 DEF GroupsState
  <2>4. srv' \in GroupsState /\ srv'.dialogs = {} /\ srv'.sources = srv.sources
    BY <2>1, <2>2, <2>3 DEF GroupsState
  <2>5. QED
    BY <2>4 DEF GroupsOk
<1>5. ASSUME NEW account \in Groups!Accounts, Groups!Connect(account)
      PROVE  GroupsOk(srv') /\ srv'.sources = srv.sources
  <2>1. srv.account = 0 /\ srv' = [srv EXCEPT !.account = account, !.last = account]
    BY <1>5 DEF Groups!Connect, Groups!NoAccount
  <2>2. account \in Nat
    <3>1. account = srv.last + 1
      BY <1>5 DEF Groups!Connect
    <3>2. QED
      BY <1>1, <3>1 DEF GroupsState
  <2>3. srv' \in GroupsState
    BY <1>1, <2>1, <2>2 DEF GroupsState
  <2>4. /\ srv'.dialogs = srv.dialogs /\ srv'.late = srv.late /\ srv'.sources = srv.sources
    BY <1>1, <2>1 DEF GroupsState
  <2>5. ~srv.late => srv.dialogs = {}
    BY <1>1, <2>1 DEF GroupsOk, GroupsState
  <2>6. QED
    BY <2>3, <2>4, <2>5 DEF GroupsOk
<1>6. QED
  BY <1>2, <1>3, <1>4, <1>5

\* Groups are chosen from the list of the account, or the choice is refused.
LEMMA ChoiceOk ==
  ASSUME GroupsOk(srv), Groups!ServeSearch \/ Groups!ServeSave
  PROVE  GroupsOk(srv') /\ Groups!SourceIsRead
<1>1. srv \in GroupsState
  BY DEF GroupsOk
<1>2. CASE srv' = srv
  BY <1>2 DEF Groups!SourceIsRead
<1>3. CASE srv' = [srv EXCEPT !.scan = "pending", !.old = FALSE]
  <2>1. srv' \in GroupsState
    BY <1>1, <1>3 DEF GroupsState, Groups!States
  <2>2. /\ srv'.dialogs = srv.dialogs /\ srv'.account = srv.account /\ srv'.late = srv.late
        /\ srv'.sources = srv.sources
    BY <1>1, <1>3 DEF GroupsState
  <2>3. QED
    BY <2>1, <2>2 DEF GroupsOk, Groups!SourceIsRead
<1>4. CASE Groups!MaySelect(srv, net.chosen) /\ srv' = [srv EXCEPT !.sources = @ \cup net.chosen]
  <2>1. srv.sources \cup net.chosen \in SUBSET Nat
    BY <1>1, <1>4 DEF GroupsState, Groups!MaySelect
  <2>2. srv' \in GroupsState
    BY <1>1, <1>4, <2>1 DEF GroupsState
  <2>3. /\ srv'.dialogs = srv.dialogs /\ srv'.account = srv.account /\ srv'.late = srv.late
        /\ srv'.sources = srv.sources \cup net.chosen
    BY <1>1, <1>4 DEF GroupsState
  <2>4. QED
    BY <1>4, <2>2, <2>3 DEF GroupsOk, Groups!SourceIsRead, Groups!MaySelect
<1>5. QED
  BY <1>2, <1>3, <1>4 DEF Groups!ServeSearch, Groups!ServeSave, Groups!Requested

\* Every step keeps the list the account's, and takes sources from that list alone.
LEMMA NextGroups ==
  ASSUME GroupsOk(srv), [Groups!Next]_<<srv, ui, net>>
  PROVE  GroupsOk(srv') /\ Groups!SourceIsRead
<1>1. CASE srv' = srv
  BY <1>1 DEF Groups!SourceIsRead
<1>2. CASE GroupsOk(srv') /\ srv'.sources = srv.sources
  BY <1>2 DEF Groups!SourceIsRead
<1>3. CASE Groups!ServeSearch \/ Groups!ServeSave
  BY <1>3, ChoiceOk
<1>4. CASE \/ Groups!Claim \/ Groups!ScanGetsOld \/ (\E ok \in BOOLEAN : Groups!Finish(ok))
           \/ Groups!ListenerStops \/ Groups!ListenerStarts \/ Groups!Disconnect
           \/ \E account \in Groups!Accounts : Groups!Connect(account)
  BY <1>2, <1>4, ScanOk, AccountOk
<1>5. CASE \/ Groups!StatusShown \/ Groups!Tick \/ Groups!ServeLoad \/ Groups!Search
           \/ Groups!AnswerSearch \/ Groups!Save \/ Groups!AnswerSave \/ Groups!FailCall
           \/ (\E g \in Groups!Accounts : Groups!ToggleGroup(g))
           \/ \E l \in net.loads : Groups!AnswerLoad(l) \/ Groups!FailLoad(l)
  BY <1>1, <1>5 DEF Groups!StatusShown, Groups!Tick, Groups!ServeLoad, Groups!Search,
       Groups!AnswerSearch, Groups!Save, Groups!AnswerSave, Groups!FailCall,
       Groups!ToggleGroup, Groups!AnswerLoad, Groups!FailLoad
<1>6. QED
  BY <1>1, <1>3, <1>4, <1>5 DEF Groups!Next

\* The account the wizard connected is replaced only by being disconnected, or by a
\* login that was let through while the answer of another was being finished
\* (routers/setup.py:450,457), and every source it adds is a group that account reads.
THEOREM AccountIsKept == Spec => SetupKeepsItsAccount
<1> DEFINE Inv == /\ part = "login" => LoginOk(srv) /\ OrderOk(srv, net)
                  /\ part = "groups" => GroupsOk(srv)
           Kept == /\ part = "login" => Login!SessionKept
                   /\ part = "groups" => Groups!SourceIsRead
<1>1. Init => Inv
  BY LoginInit, OrderInit, GroupsInit DEF Init
<1>2. Inv /\ [Next]_vars => Inv'
  BY PartStays, NextLogin, NextOrder, NextGroups
<1>3. Inv /\ [Next]_vars => Kept
  BY PartStays, SessionStays, NextGroups
<1> HIDE DEF Inv, Kept
<1>4. Spec => [][Kept]_vars
  BY <1>1, <1>2, <1>3, PTL DEF Spec
<1>5. QED
  BY <1>4 DEF SetupKeepsItsAccount, Kept

-----------------------------------------------------------------------------
(* The step of the bot: the loop that waits for the /start of a link.         *)

\* A poll belongs to the loop that runs, and while it is not paired nobody used the link.
Asking(n) == {p \in n.polls : p.mine = TRUE}
BotFields(s, u, n) ==
  /\ {"bot", "window", "live", "made", "starts", "paired"} \subseteq DOMAIN s
  /\ {"status", "open", "loop", "link", "busy", "saving", "changing", "notice", "error"}
       \subseteq DOMAIN u
  /\ {"polls", "reads", "call", "ops", "ended", "elsewhere"} \subseteq DOMAIN n
  /\ \A p \in n.polls : {"window", "st", "mine"} \subseteq DOMAIN p /\ p.mine \in BOOLEAN
  /\ n.ended \in BOOLEAN /\ n.elsewhere \in BOOLEAN
\* The windows the api made, and the one that is open: nobody used that one.
WindowOk(s) ==
  /\ s.made \in Nat
  /\ \A l \in s.starts \cup s.paired : l \in Nat /\ l <= s.made
  /\ s.window \in {0, s.made} /\ (s.window # 0 => s.made \notin s.paired)
LoopOk(u, n) ==
  /\ \A p, q \in Asking(n) : p = q
  /\ Asking(n) # {} => u.loop = "asking"
  /\ ~Bot!Waits(u) => u.loop = "off"
  /\ n.ended = FALSE /\ Bot!Waits(u) => u.loop # "off"
\* Nobody used the link while the loop that runs has not heard of it.
Unused(s, u, n) ==
  n.elsewhere = FALSE /\ (u.loop = "sleeping" \/ \E p \in Asking(n) : p.st # "paired")
    => s.made \notin s.paired
BotOk(s, u, n) == BotFields(s, u, n) /\ WindowOk(s) /\ LoopOk(u, n) /\ Unused(s, u, n)

\* The step opens with no link and no loop.
LEMMA BotInit == ASSUME Bot!Init PROVE BotOk(srv, ui, net)
<1>1. BotFields(srv, ui, net)
  BY DEF Bot!Init, BotFields
<1>2. WindowOk(srv)
  BY DEF Bot!Init, WindowOk, Bot!NoLink
<1>3. LoopOk(ui, net) /\ Unused(srv, ui, net)
  BY DEF Bot!Init, LoopOk, Unused, Asking, Bot!Waits
<1>4. QED
  BY <1>1, <1>2, <1>3 DEF BotOk

\* A poll that changes where it is stays a poll, and the loop's if it was.
LEMMA PollMoves ==
  ASSUME BotFields(srv, ui, net), NEW p \in net.polls, NEW q, NEW n,
         {"window", "st", "mine"} \subseteq DOMAIN q, q.mine = p.mine,
         DOMAIN n = DOMAIN net, n.polls = (net.polls \ {p}) \cup {q},
         n.ended = net.ended, n.elsewhere \in BOOLEAN
  PROVE  /\ BotFields(srv, ui, n)
         /\ \A x \in Asking(n) : (x = q /\ p \in Asking(net)) \/ x \in Asking(net) \ {p}
         /\ LoopOk(ui, net) => LoopOk(ui, n)
<1>1. BotFields(srv, ui, n)
  BY DEF BotFields
<1>2. \A x \in Asking(n) : (x = q /\ p \in Asking(net)) \/ x \in Asking(net) \ {p}
  BY DEF Asking
<1>3. LoopOk(ui, net) => LoopOk(ui, n)
  BY <1>2 DEF LoopOk
<1>4. QED
  BY <1>1, <1>2, <1>3

\* What a status, a token or a toggle does to the loop (useEffect of BotStep.tsx).
LEMMA ClickedOk ==
  ASSUME BotOk(srv, ui, net), srv' = srv, NEW u, NEW n, Bot!Effect(u, n),
         DOMAIN u = DOMAIN ui, DOMAIN n = DOMAIN net, n.polls = net.polls,
         n.elsewhere = net.elsewhere, n.ended \in BOOLEAN,
         n.ended = FALSE => net.ended = FALSE /\ u.loop = ui.loop,
         u.loop \in {ui.loop, "off"}, u.loop # ui.loop => ui.loop = "reading",
         u.notice \in {ui.notice, "none"}
  PROVE  BotOk(srv', ui', net') /\ ui'.notice \in {ui.notice, "none"}
<1>1. CASE Bot!Waits(u) = Bot!Waits(ui)
  <2>1. ui' = u /\ net' = n
    BY <1>1 DEF Bot!Effect
  <2>2. Asking(n) = Asking(net)
    BY DEF Asking
  <2>3. BotFields(srv', ui', net')
    BY <2>1 DEF BotOk, BotFields
  <2>4. LoopOk(ui', net')
    BY <1>1, <2>1, <2>2 DEF BotOk, LoopOk
  <2>5. Unused(srv', ui', net')
    BY <2>1, <2>2 DEF BotOk, Unused
  <2>6. QED
    BY <2>1, <2>3, <2>4, <2>5 DEF BotOk
<1>2. CASE Bot!Waits(u) /\ ~Bot!Waits(ui)
  <2> DEFINE poll == [window |-> 0, st |-> "sent", mine |-> TRUE]
             o == n.elsewhere \/ ~Bot!View(srv).active
  <2>1. /\ ui' = [u EXCEPT !.loop = "asking"]
        /\ \E m : /\ m = [n EXCEPT !.polls = @ \cup {poll}]
                  /\ net' = [m EXCEPT !.ended = FALSE, !.elsewhere = m.elsewhere \/ ~Bot!View(srv).active]
    BY <1>2 DEF Bot!Effect, Bot!Polling, Bot!NoLink
  <2>2. Asking(net) = {}
    BY <1>2 DEF BotOk, LoopOk
  <2>3. {"polls", "reads", "call", "ops", "ended", "elsewhere"} \subseteq DOMAIN n
    BY DEF BotOk, BotFields
  <2>4. /\ DOMAIN net' = DOMAIN net /\ net'.polls = net.polls \cup {poll}
        /\ net'.ended = FALSE /\ net'.elsewhere = o
    BY <2>1, <2>3
  <2>5. /\ DOMAIN ui' = DOMAIN ui /\ ui'.loop = "asking" /\ ui'.notice = u.notice
        /\ ui'.status = u.status /\ ui'.open = u.open
    BY <2>1 DEF BotOk, BotFields
  <2>6. poll.mine = TRUE /\ {"window", "st", "mine"} \subseteq DOMAIN poll
    OBVIOUS
  <2>7. o = FALSE => net.elsewhere = FALSE /\ srv.window # 0
    BY DEF Bot!View, Bot!NoLink, BotOk, BotFields
  <2>8. o \in BOOLEAN
    OBVIOUS
  <2> HIDE DEF poll, o
  <2>9. BotFields(srv', ui', net')
    BY <2>4, <2>5, <2>6, <2>8 DEF BotOk, BotFields
  <2>10. Asking(net') \subseteq {poll}
    BY <2>2, <2>4 DEF Asking
  <2>11. LoopOk(ui', net')
    BY <1>2, <2>5, <2>10 DEF LoopOk, Bot!Waits
  <2>12. Unused(srv', ui', net')
    BY <2>4, <2>7 DEF BotOk, WindowOk, Unused
  <2>13. QED
    BY <2>5, <2>9, <2>11, <2>12 DEF BotOk
<1>3. CASE ~Bot!Waits(u) /\ Bot!Waits(ui)
  <2> DEFINE polls == {[p EXCEPT !.mine = FALSE] : p \in n.polls}
             o == n.elsewhere \/ \E p \in n.polls : p.st = "paired"
  <2>1. ui' = [u EXCEPT !.loop = "off"] /\ net' = [n EXCEPT !.polls = polls, !.elsewhere = o]
    BY <1>3 DEF Bot!Effect, Bot!Disowned
  <2>2. ASSUME NEW p \in net.polls
        PROVE  {"window", "st", "mine"} \subseteq DOMAIN [p EXCEPT !.mine = FALSE]
                 /\ [p EXCEPT !.mine = FALSE].mine = FALSE
    BY DEF BotOk, BotFields
  <2>3. \A q \in polls : {"window", "st", "mine"} \subseteq DOMAIN q /\ q.mine = FALSE
    BY <2>2
  <2>4. o \in BOOLEAN
    BY DEF BotOk, BotFields
  <2> HIDE DEF polls, o
  <2>5. /\ DOMAIN ui' = DOMAIN ui /\ ui'.loop = "off" /\ ui'.notice = u.notice
        /\ ui'.status = u.status /\ ui'.open = u.open
    BY <2>1 DEF BotOk, BotFields
  <2>6. /\ DOMAIN net' = DOMAIN net /\ net'.polls = polls /\ net'.ended = n.ended
        /\ net'.elsewhere = o
    BY <2>1 DEF BotOk, BotFields
  <2>7. BotFields(srv', ui', net')
    BY <2>3, <2>4, <2>5, <2>6 DEF BotOk, BotFields
  <2>8. Asking(net') = {}
    BY <2>3, <2>6 DEF Asking
  <2>9. LoopOk(ui', net') /\ Unused(srv', ui', net')
    BY <1>3, <2>5, <2>8 DEF LoopOk, Unused, Bot!Waits
  <2>10. QED
    BY <2>5, <2>7, <2>9 DEF BotOk
<1>4. QED
  BY <1>1, <1>2, <1>3 DEF Bot!Waits

\* A notice that did not come up says nothing.
LEMMA NoNotice ==
  ASSUME ui'.notice \in {ui.notice, "none"}
  PROVE  Bot!ExpiredIsHonest
BY DEF Bot!ExpiredIsHonest

\* The status, the toggle and the answer of the token go through the effect.
LEMMA StatusOk ==
  ASSUME BotOk(srv, ui, net),
         Bot!Toggle \/ Bot!AnswerToken \/ \E r \in net.reads : Bot!ShowStatus(r)
  PROVE  BotOk(srv', ui', net') /\ Bot!ExpiredIsHonest
<1>1. BotFields(srv, ui, net)
  BY DEF BotOk
<1>2. CASE Bot!Toggle
  <2> DEFINE u == [ui EXCEPT !.open = ~@, !.link = Bot!NoLink, !.busy = FALSE, !.saving = FALSE,
                             !.changing = FALSE, !.notice = "none", !.error = FALSE]
             n == [net EXCEPT !.ops = @ + 1]
  <2>1. srv' = srv /\ Bot!Effect(u, n)
    BY <1>2 DEF Bot!Toggle
  <2>2. DOMAIN u = DOMAIN ui /\ u.loop = ui.loop /\ u.notice = "none"
    BY <1>1 DEF BotFields
  <2>3. /\ DOMAIN n = DOMAIN net /\ n.polls = net.polls /\ n.elsewhere = net.elsewhere
        /\ n.ended = net.ended
    BY <1>1 DEF BotFields
  <2> HIDE DEF u, n
  <2>4. QED
    BY <1>1, <2>1, <2>2, <2>3, ClickedOk, NoNotice DEF BotFields
<1>3. CASE Bot!AnswerToken
  <2>1. PICK open : Bot!Effect([ui EXCEPT !.status = [bot |-> TRUE, active |-> FALSE],
                                          !.saving = FALSE, !.changing = FALSE, !.open = open],
                               [net EXCEPT !.call = "none"])
    BY <1>3 DEF Bot!AnswerToken
  <2> DEFINE u == [ui EXCEPT !.status = [bot |-> TRUE, active |-> FALSE], !.saving = FALSE,
                             !.changing = FALSE, !.open = open]
             n == [net EXCEPT !.call = "none"]
  <2>2. srv' = srv /\ Bot!Effect(u, n)
    BY <1>3, <2>1 DEF Bot!AnswerToken
  <2>3. DOMAIN u = DOMAIN ui /\ u.loop = ui.loop /\ u.notice = ui.notice
    BY <1>1 DEF BotFields
  <2>4. /\ DOMAIN n = DOMAIN net /\ n.polls = net.polls /\ n.elsewhere = net.elsewhere
        /\ n.ended = net.ended
    BY <1>1 DEF BotFields
  <2> HIDE DEF u, n
  <2>5. QED
    BY <1>1, <2>2, <2>3, <2>4, ClickedOk, NoNotice DEF BotFields
<1>4. ASSUME NEW r \in net.reads, Bot!ShowStatus(r)
      PROVE  BotOk(srv', ui', net') /\ Bot!ExpiredIsHonest
  <2> DEFINE over == r.by = "loop" /\ ui.loop = "reading"
             loop == IF over THEN "off" ELSE ui.loop
             u == [ui EXCEPT !.status = r.view, !.open = ui.open \/ r.by # "timer",
                             !.busy = ui.busy /\ r.by # "open", !.loop = loop]
             n == [net EXCEPT !.reads = net.reads \ {r}, !.ended = net.ended \/ over]
  <2>1. srv' = srv /\ Bot!Effect(u, n)
    BY <1>4 DEF Bot!ShowStatus
  <2>2. over \in BOOLEAN /\ loop \in {ui.loop, "off"} /\ (loop # ui.loop => over /\ ui.loop = "reading")
    OBVIOUS
  <2>3. (net.ended \/ over) \in BOOLEAN /\ ((net.ended \/ over) = FALSE => net.ended = FALSE /\ ~over)
    BY <1>1 DEF BotFields
  <2> HIDE DEF loop, over
  <2>4. DOMAIN u = DOMAIN ui /\ u.loop = loop /\ u.notice = ui.notice
    BY <1>1 DEF BotFields
  <2>5. /\ DOMAIN n = DOMAIN net /\ n.polls = net.polls /\ n.elsewhere = net.elsewhere
        /\ n.ended = (net.ended \/ over)
    BY <1>1 DEF BotFields
  <2> HIDE DEF u, n
  <2>6. QED
    BY <2>1, <2>2, <2>3, <2>4, <2>5, ClickedOk, NoNotice
<1>5. QED
  BY <1>2, <1>3, <1>4

\* Steps beside the loop: nothing of it changes but that a failed reading may end it.
LEMMA BesideLoop ==
  ASSUME BotOk(srv, ui, net), BotFields(srv', ui', net'), WindowOk(srv'),
         srv'.made \in srv'.paired => srv.made \in srv.paired,
         ui'.status = ui.status, ui'.open = ui.open, net'.polls = net.polls,
         net'.elsewhere = net.elsewhere, ui'.notice \in {ui.notice, "none"},
         net'.ended = FALSE => net.ended = FALSE /\ ui'.loop = ui.loop,
         ui'.loop = ui.loop \/ (ui.loop = "reading" /\ ui'.loop = "off")
  PROVE  BotOk(srv', ui', net') /\ Bot!ExpiredIsHonest
<1>1. Asking(net') = Asking(net)
  BY DEF Asking
<1>2. LoopOk(ui', net')
  BY <1>1 DEF BotOk, LoopOk, Bot!Waits
<1>3. Unused(srv', ui', net')
  BY <1>1 DEF BotOk, Unused
<1>4. QED
  BY <1>2, <1>3, NoNotice DEF BotOk

\* Clicks and calls, and the readings that are asked or served.
LEMMA ClicksOk ==
  ASSUME BotOk(srv, ui, net),
         \/ Bot!AskStatus \/ Bot!ChangeToken \/ Bot!SubmitToken \/ Bot!OpenPairing
         \/ Bot!AnswerLink \/ Bot!FailCall \/ \E r \in net.reads : Bot!ServeStatus(r)
  PROVE  BotOk(srv', ui', net') /\ Bot!ExpiredIsHonest
<1>1. BotFields(srv, ui, net) /\ WindowOk(srv)
  BY DEF BotOk
<1>2. srv' = srv
  BY DEF Bot!AskStatus, Bot!ChangeToken, Bot!SubmitToken, Bot!OpenPairing, Bot!AnswerLink,
         Bot!FailCall, Bot!ServeStatus
<1>3. /\ DOMAIN ui' = DOMAIN ui /\ ui'.status = ui.status /\ ui'.open = ui.open
      /\ ui'.loop = ui.loop /\ ui'.notice \in {ui.notice, "none"}
  <2>1. CASE Bot!AskStatus \/ \E r \in net.reads : Bot!ServeStatus(r)
    BY <2>1 DEF Bot!AskStatus, Bot!ServeStatus
  <2>2. CASE Bot!ChangeToken
    BY <1>1, <2>2 DEF Bot!ChangeToken, BotFields
  <2>3. CASE Bot!SubmitToken
    BY <1>1, <2>3 DEF Bot!SubmitToken, BotFields
  <2>4. CASE Bot!OpenPairing
    BY <1>1, <2>4 DEF Bot!OpenPairing, BotFields
  <2>5. CASE Bot!AnswerLink
    BY <1>1, <2>5 DEF Bot!AnswerLink, BotFields
  <2>6. CASE Bot!FailCall
    BY <1>1, <2>6 DEF Bot!FailCall, BotFields
  <2>7. QED
    BY <2>1, <2>2, <2>3, <2>4, <2>5, <2>6
<1>4. /\ DOMAIN net' = DOMAIN net /\ net'.polls = net.polls /\ net'.ended = net.ended
      /\ net'.elsewhere = net.elsewhere
  <2>1. CASE Bot!AskStatus \/ \E r \in net.reads : Bot!ServeStatus(r)
    BY <1>1, <2>1 DEF Bot!AskStatus, Bot!ServeStatus, BotFields
  <2>2. CASE Bot!ChangeToken \/ Bot!SubmitToken
    BY <1>1, <2>2 DEF Bot!ChangeToken, Bot!SubmitToken, BotFields
  <2>3. CASE Bot!OpenPairing \/ Bot!AnswerLink \/ Bot!FailCall
    BY <1>1, <2>3 DEF Bot!OpenPairing, Bot!AnswerLink, Bot!FailCall, BotFields
  <2>4. QED
    BY <2>1, <2>2, <2>3
<1>5. BotFields(srv', ui', net')
  BY <1>1, <1>2, <1>3, <1>4 DEF BotFields
<1>6. QED
  BY <1>1, <1>2, <1>3, <1>4, <1>5, BesideLoop

\* A reading that failed ends the loop that asked it.
LEMMA FailStatusOk ==
  ASSUME BotOk(srv, ui, net), NEW r, Bot!FailStatus(r)
  PROVE  BotOk(srv', ui', net') /\ Bot!ExpiredIsHonest
<1> DEFINE over == r.by = "loop" /\ ui.loop = "reading"
           loop == IF over THEN "off" ELSE ui.loop
<1>1. BotFields(srv, ui, net) /\ WindowOk(srv) /\ srv' = srv
  BY DEF BotOk, Bot!FailStatus
<1>2. \/ ui' = ui /\ ~over
      \/ ui' = [ui EXCEPT !.error = TRUE, !.busy = ui.busy /\ r.by # "open", !.loop = loop]
  BY DEF Bot!FailStatus
<1>3. net' = [net EXCEPT !.reads = net.reads \ {r}, !.ended = net.ended \/ over]
  BY DEF Bot!FailStatus
<1>4. /\ (net.ended \/ over) \in BOOLEAN
      /\ (net.ended \/ over) = FALSE => net.ended = FALSE /\ ~over
  BY <1>1 DEF BotFields
<1>5. /\ ~over => loop = ui.loop
      /\ loop = ui.loop \/ (ui.loop = "reading" /\ loop = "off")
  OBVIOUS
<1> HIDE DEF over, loop
<1>6. /\ DOMAIN ui' = DOMAIN ui /\ ui'.status = ui.status /\ ui'.open = ui.open
      /\ ui'.loop = loop /\ ui'.notice = ui.notice
  BY <1>1, <1>2, <1>5 DEF BotFields
<1>7. /\ DOMAIN net' = DOMAIN net /\ net'.polls = net.polls /\ net'.ended = (net.ended \/ over)
      /\ net'.elsewhere = net.elsewhere
  BY <1>1, <1>3 DEF BotFields
<1>8. BotFields(srv', ui', net')
  BY <1>1, <1>4, <1>6, <1>7 DEF BotFields
<1>9. QED
  BY <1>1, <1>4, <1>5, <1>6, <1>7, <1>8, BesideLoop

\* A link is made, opened or over, and a token closes the window.
LEMMA WindowsOk ==
  ASSUME BotOk(srv, ui, net),
         \/ Bot!ServeToken \/ Bot!ServeLink \/ Bot!WindowExpires
         \/ \E link \in Bot!Links : Bot!SendStart(link)
  PROVE  BotOk(srv', ui', net') /\ Bot!ExpiredIsHonest
<1>1. BotFields(srv, ui, net) /\ WindowOk(srv)
  BY DEF BotOk
<1>2. ui' = ui /\ DOMAIN net' = DOMAIN net /\ net'.polls = net.polls /\ net'.ended = net.ended
      /\ net'.elsewhere = net.elsewhere
  BY <1>1 DEF Bot!ServeToken, Bot!ServeLink, Bot!WindowExpires, Bot!SendStart, BotFields
<1>3. /\ DOMAIN srv' = DOMAIN srv /\ WindowOk(srv')
      /\ srv'.made \in srv'.paired => srv.made \in srv.paired
  <2>1. CASE Bot!ServeToken
    <3>1. /\ DOMAIN srv' = DOMAIN srv /\ srv'.made = srv.made /\ srv'.starts = srv.starts
          /\ srv'.paired = srv.paired /\ srv'.window = 0
      BY <1>1, <2>1 DEF Bot!ServeToken, Bot!NoLink, BotFields
    <3>2. QED
      BY <1>1, <3>1 DEF WindowOk
  <2>2. CASE Bot!ServeLink
    <3>1. /\ DOMAIN srv' = DOMAIN srv /\ srv'.made = srv.made + 1 /\ srv'.starts = srv.starts
          /\ srv'.paired = srv.paired /\ srv'.window = srv.made + 1
      BY <1>1, <2>2 DEF Bot!ServeLink, BotFields
    <3>2. srv.made + 1 \notin srv.paired
      BY <1>1 DEF WindowOk
    <3>3. QED
      BY <1>1, <3>1, <3>2 DEF WindowOk
  <2>3. CASE Bot!WindowExpires
    <3>1. /\ DOMAIN srv' = DOMAIN srv /\ srv'.made = srv.made /\ srv'.starts = srv.starts
          /\ srv'.paired = srv.paired /\ srv'.window = srv.window
      BY <1>1, <2>3 DEF Bot!WindowExpires, BotFields
    <3>2. QED
      BY <1>1, <3>1 DEF WindowOk
  <2>4. ASSUME NEW link \in Bot!Links, Bot!SendStart(link)
        PROVE  /\ DOMAIN srv' = DOMAIN srv /\ WindowOk(srv')
               /\ srv'.made \in srv'.paired => srv.made \in srv.paired
    <3>1. /\ DOMAIN srv' = DOMAIN srv /\ srv'.made = srv.made /\ srv'.starts = srv.starts \cup {link}
          /\ srv'.paired = srv.paired /\ srv'.window = srv.window
      BY <1>1, <2>4 DEF Bot!SendStart, BotFields
    <3>2. link \in Nat /\ link <= srv.made
      BY <2>4 DEF Bot!SendStart, Bot!Links
    <3>3. QED
      BY <1>1, <3>1, <3>2 DEF WindowOk
  <2>5. QED
    BY <2>1, <2>2, <2>3, <2>4
<1>4. BotFields(srv', ui', net')
  BY <1>1, <1>2, <1>3 DEF BotFields
<1>5. QED
  BY <1>2, <1>3, <1>4, BesideLoop

\* The loop sleeps and asks again.
LEMMA SleepOk ==
  ASSUME BotOk(srv, ui, net), Bot!Sleep
  PROVE  BotOk(srv', ui', net') /\ Bot!ExpiredIsHonest
<1> DEFINE poll == [window |-> 0, st |-> "sent", mine |-> TRUE]
<1>1. BotFields(srv, ui, net) /\ WindowOk(srv) /\ srv' = srv
  BY DEF BotOk, Bot!Sleep
<1>2. /\ ui.loop = "sleeping" /\ ui' = [ui EXCEPT !.loop = "asking"]
      /\ net' = [net EXCEPT !.polls = net.polls \cup {poll}]
  BY DEF Bot!Sleep, Bot!Polling, Bot!NoLink
<1>3. poll.mine = TRUE /\ {"window", "st", "mine"} \subseteq DOMAIN poll
  OBVIOUS
<1> HIDE DEF poll
<1>4. /\ DOMAIN ui' = DOMAIN ui /\ ui'.status = ui.status /\ ui'.open = ui.open
      /\ ui'.loop = "asking" /\ ui'.notice = ui.notice
  BY <1>1, <1>2 DEF BotFields
<1>5. /\ DOMAIN net' = DOMAIN net /\ net'.polls = net.polls \cup {poll}
      /\ net'.ended = net.ended /\ net'.elsewhere = net.elsewhere
  BY <1>1, <1>2 DEF BotFields
<1>6. BotFields(srv', ui', net')
  BY <1>1, <1>3, <1>4, <1>5 DEF BotFields
<1>7. Asking(net) = {} /\ Bot!Waits(ui)
  BY <1>2 DEF BotOk, LoopOk
<1>8. Asking(net') \subseteq {poll}
  BY <1>5, <1>7 DEF Asking
<1>9. LoopOk(ui', net')
  BY <1>4, <1>7, <1>8 DEF LoopOk, Bot!Waits
<1>10. Unused(srv', ui', net')
  BY <1>1, <1>2, <1>5 DEF BotOk, Unused
<1>11. QED
  BY <1>1, <1>4, <1>6, <1>9, <1>10, NoNotice DEF BotOk

\* An answer of the loop's own poll is the loop's; "expired" is of a link nobody used.
LEMMA BotPollAnswered ==
  ASSUME BotOk(srv, ui, net), NEW p \in net.polls, Bot!AnswerPoll(p)
  PROVE  BotOk(srv', ui', net') /\ Bot!ExpiredIsHonest
<1> DEFINE n == [net EXCEPT !.polls = net.polls \ {p}]
<1>1. /\ BotFields(srv, ui, net) /\ WindowOk(srv) /\ srv' = srv /\ p.mine \in BOOLEAN
      /\ p.st \in {"waiting", "paired", "expired", "error"}
  BY DEF BotOk, BotFields, Bot!AnswerPoll, Bot!Results
<1>2. /\ DOMAIN n = DOMAIN net /\ n.polls = net.polls \ {p} /\ n.ended = net.ended
      /\ n.elsewhere = net.elsewhere
  BY <1>1 DEF BotFields
<1>3. /\ ~p.mine => ui' = ui /\ net' = n
      /\ p.mine /\ p.st = "waiting" => ui' = [ui EXCEPT !.loop = "sleeping"] /\ net' = n
      /\ p.mine /\ p.st = "error" => /\ ui' = [ui EXCEPT !.link = Bot!NoLink, !.loop = "off", !.error = TRUE]
                                     /\ net' = [n EXCEPT !.ended = TRUE]
      /\ p.mine /\ p.st \in {"paired", "expired"} =>
           /\ ui' = [ui EXCEPT !.link = Bot!NoLink, !.loop = "reading", !.notice = p.st]
           /\ \E reads : net' = [n EXCEPT !.reads = reads]
  BY DEF Bot!AnswerPoll
<1> HIDE DEF n
<1>4. Asking(n) = Asking(net) \ {p}
  BY <1>2 DEF Asking
<1>5. CASE ~p.mine
  <2>1. ui' = ui /\ net' = n
    BY <1>3, <1>5
  <2>2. BotFields(srv', ui', net')
    BY <1>1, <1>2, <2>1 DEF BotFields
  <2>3. LoopOk(ui', net') /\ Unused(srv', ui', net')
    BY <1>1, <1>2, <1>4, <2>1 DEF BotOk, LoopOk, Unused
  <2>4. QED
    BY <1>1, <2>1, <2>2, <2>3, NoNotice DEF BotOk
<1>6. CASE p.mine
  <2>1. p \in Asking(net)
    BY <1>1, <1>6 DEF Asking
  <2>2. Asking(n) = {} /\ Bot!Waits(ui)
    BY <1>4, <2>1 DEF BotOk, LoopOk
  <2>3. /\ DOMAIN net' = DOMAIN net /\ net'.polls = n.polls /\ net'.elsewhere = net.elsewhere
        /\ net'.ended = IF p.st = "error" THEN TRUE ELSE net.ended
    <3>1. CASE p.st = "waiting"
      BY <1>2, <1>3, <1>6, <3>1
    <3>2. CASE p.st = "error"
      BY <1>1, <1>2, <1>3, <1>6, <3>2 DEF BotFields
    <3>3. CASE p.st \in {"paired", "expired"}
      BY <1>1, <1>2, <1>3, <1>6, <3>3 DEF BotFields
    <3>4. QED
      BY <1>1, <3>1, <3>2, <3>3
  <2>4. /\ DOMAIN ui' = DOMAIN ui /\ ui'.status = ui.status /\ ui'.open = ui.open
        /\ ui'.loop = IF p.st = "waiting" THEN "sleeping" ELSE IF p.st = "error" THEN "off" ELSE "reading"
        /\ ui'.notice = IF p.st \in {"paired", "expired"} THEN p.st ELSE ui.notice
    <3>1. CASE p.st = "waiting"
      BY <1>1, <1>3, <1>6, <3>1 DEF BotFields
    <3>2. CASE p.st = "error"
      BY <1>1, <1>3, <1>6, <3>2 DEF BotFields
    <3>3. CASE p.st \in {"paired", "expired"}
      BY <1>1, <1>3, <1>6, <3>3 DEF BotFields
    <3>4. QED
      BY <1>1, <3>1, <3>2, <3>3
  <2>5. Asking(net') = {}
    BY <2>2, <2>3 DEF Asking
  <2>6. BotFields(srv', ui', net')
    BY <1>1, <1>2, <2>3, <2>4 DEF BotFields
  <2>7. LoopOk(ui', net')
    BY <1>1, <2>2, <2>3, <2>4, <2>5 DEF LoopOk, Bot!Waits
  <2>8. net.elsewhere = FALSE /\ p.st # "paired" => srv.made \notin srv.paired
    BY <2>1 DEF BotOk, Unused
  <2>9. Unused(srv', ui', net')
    BY <1>1, <2>3, <2>4, <2>5, <2>8 DEF Unused
  <2>10. Bot!ExpiredIsHonest
    BY <1>1, <2>4, <2>8 DEF Bot!ExpiredIsHonest, BotFields
  <2>11. QED
    BY <1>1, <2>6, <2>7, <2>9, <2>10 DEF BotOk
<1>7. QED
  BY <1>1, <1>5, <1>6

\* A poll arrives, waits, or is lost: a poll that registered its sender and is lost is
\* somebody's /start elsewhere.
LEMMA PollServed ==
  ASSUME BotOk(srv, ui, net), NEW p \in net.polls, Bot!ArrivePoll(p) \/ Bot!FailPoll(p)
  PROVE  BotOk(srv', ui', net') /\ Bot!ExpiredIsHonest
<1>1. BotFields(srv, ui, net) /\ WindowOk(srv) /\ ui' = ui
  BY DEF BotOk, Bot!ArrivePoll, Bot!FailPoll
<1>2. {"window", "st", "mine"} \subseteq DOMAIN p
  BY <1>1 DEF BotFields
<1>3. /\ DOMAIN srv' = DOMAIN srv /\ WindowOk(srv')
      /\ srv'.made = srv.made /\ srv'.paired = srv.paired
  <2>1. CASE srv' = srv
    BY <1>1, <2>1
  <2>2. CASE srv' = [srv EXCEPT !.window = Bot!NoLink]
    <3>1. /\ DOMAIN srv' = DOMAIN srv /\ srv'.made = srv.made /\ srv'.starts = srv.starts
          /\ srv'.paired = srv.paired /\ srv'.window = 0
      BY <1>1, <2>2 DEF BotFields, Bot!NoLink
    <3>2. QED
      BY <1>1, <3>1 DEF WindowOk
  <2>3. QED
    BY <2>1, <2>2 DEF Bot!ArrivePoll, Bot!FailPoll
<1>4. PICK q, o : /\ {"window", "st", "mine"} \subseteq DOMAIN q /\ q.mine = p.mine
                  /\ net' = [net EXCEPT !.polls = (net.polls \ {p}) \cup {q}, !.elsewhere = o]
                  /\ o \in BOOLEAN /\ (o = FALSE => net.elsewhere = FALSE /\ p.st # "paired")
  <2>1. CASE Bot!FailPoll(p)
    <3> DEFINE q == [p EXCEPT !.st = "error"]
               o == net.elsewhere \/ p.st = "paired"
    <3>1. net' = [net EXCEPT !.polls = (net.polls \ {p}) \cup {q}, !.elsewhere = o]
      BY <2>1 DEF Bot!FailPoll
    <3>2. {"window", "st", "mine"} \subseteq DOMAIN q /\ q.mine = p.mine
      BY <1>2
    <3>3. o \in BOOLEAN /\ (o = FALSE => net.elsewhere = FALSE /\ p.st # "paired")
      BY <1>1 DEF BotFields
    <3>4. QED
      BY <3>1, <3>2, <3>3
  <2>2. CASE Bot!ArrivePoll(p)
    <3>1. PICK q : /\ net' = [net EXCEPT !.polls = (net.polls \ {p}) \cup {q}]
                   /\ {"window", "st", "mine"} \subseteq DOMAIN q /\ q.mine = p.mine
      <4>1. \/ \E st : net' = [net EXCEPT !.polls = (net.polls \ {p}) \cup {[p EXCEPT !.st = st]}]
            \/ net' = [net EXCEPT !.polls = (net.polls \ {p})
                                              \cup {[p EXCEPT !.st = "held", !.window = srv.window]}]
        BY <2>2 DEF Bot!ArrivePoll, Bot!Answered
      <4>2. \A st : DOMAIN [p EXCEPT !.st = st] = DOMAIN p /\ [p EXCEPT !.st = st].mine = p.mine
        BY <1>2
      <4>3. /\ DOMAIN [p EXCEPT !.st = "held", !.window = srv.window] = DOMAIN p
            /\ [p EXCEPT !.st = "held", !.window = srv.window].mine = p.mine
        BY <1>2
      <4>4. QED
        BY <1>2, <4>1, <4>2, <4>3
    <3>2. net' = [net EXCEPT !.polls = (net.polls \ {p}) \cup {q}, !.elsewhere = net.elsewhere]
      BY <1>1, <3>1 DEF BotFields
    <3>3. p.st # "paired" /\ net.elsewhere \in BOOLEAN
      BY <1>1, <2>2 DEF Bot!ArrivePoll, BotFields
    <3>4. QED
      BY <3>1, <3>2, <3>3
  <2>3. QED
    BY <2>1, <2>2
<1>5. /\ DOMAIN net' = DOMAIN net /\ net'.polls = (net.polls \ {p}) \cup {q}
      /\ net'.ended = net.ended /\ net'.elsewhere = o
  BY <1>1, <1>4 DEF BotFields
<1>6. /\ BotFields(srv, ui, net') /\ LoopOk(ui, net')
      /\ \A x \in Asking(net') : (x = q /\ p \in Asking(net)) \/ x \in Asking(net) \ {p}
  <2>1. LoopOk(ui, net)
    BY DEF BotOk
  <2>2. net'.elsewhere \in BOOLEAN
    BY <1>4, <1>5
  <2> DEFINE m == net'
  <2>3. m = net'
    OBVIOUS
  <2> HIDE DEF m
  <2>4. DOMAIN m = DOMAIN net /\ m.polls = (net.polls \ {p}) \cup {q} /\ m.ended = net.ended
        /\ m.elsewhere \in BOOLEAN
    BY <1>5, <2>2, <2>3
  <2>5. /\ BotFields(srv, ui, m) /\ LoopOk(ui, m)
        /\ \A x \in Asking(m) : (x = q /\ p \in Asking(net)) \/ x \in Asking(net) \ {p}
    BY <1>1, <1>4, <2>1, <2>4, PollMoves
  <2>6. QED
    BY <2>3, <2>5
<1>7. BotFields(srv', ui', net')
  BY <1>1, <1>3, <1>6 DEF BotFields
<1>8. Unused(srv', ui', net')
  BY <1>1, <1>3, <1>4, <1>5, <1>6 DEF BotOk, Unused
<1>9. QED
  BY <1>1, <1>3, <1>6, <1>7, <1>8, NoNotice DEF BotOk

\* A poll returns: the /start it brings is heard by its own loop, or elsewhere.
LEMMA PollReturned ==
  ASSUME BotOk(srv, ui, net), NEW p \in net.polls, Bot!ReturnPoll(p)
  PROVE  BotOk(srv', ui', net') /\ Bot!ExpiredIsHonest
<1>1. BotFields(srv, ui, net) /\ WindowOk(srv) /\ ui' = ui
  BY DEF BotOk, Bot!ReturnPoll
<1>2. {"window", "st", "mine"} \subseteq DOMAIN p /\ p.mine \in BOOLEAN /\ p.st = "held"
  BY <1>1 DEF BotFields, Bot!ReturnPoll
<1>3. CASE p.window \notin srv.starts
  <2> DEFINE q == [p EXCEPT !.st = "waiting"]
  <2>1. srv' = srv /\ net' = [net EXCEPT !.polls = (net.polls \ {p}) \cup {q}]
    BY <1>3 DEF Bot!ReturnPoll, Bot!Answered
  <2>2. {"window", "st", "mine"} \subseteq DOMAIN q /\ q.mine = p.mine
    BY <1>2
  <2> HIDE DEF q
  <2>3. /\ DOMAIN net' = DOMAIN net /\ net'.polls = (net.polls \ {p}) \cup {q}
        /\ net'.ended = net.ended /\ net'.elsewhere = net.elsewhere /\ net.elsewhere \in BOOLEAN
    BY <1>1, <2>1 DEF BotFields
  <2>4. /\ BotFields(srv, ui, net') /\ LoopOk(ui, net')
        /\ \A x \in Asking(net') : (x = q /\ p \in Asking(net)) \/ x \in Asking(net) \ {p}
    BY <1>1, <2>2, <2>3, PollMoves DEF BotOk
  <2>5. Unused(srv', ui', net')
    BY <1>1, <1>2, <2>1, <2>3, <2>4 DEF BotOk, Unused
  <2>6. QED
    BY <1>1, <2>1, <2>4, <2>5, NoNotice DEF BotOk
<1>4. CASE p.window \in srv.starts
  <2> DEFINE q == [p EXCEPT !.st = "paired"]
             o == net.elsewhere \/ ~p.mine
  <2>1. /\ srv' = [srv EXCEPT !.starts = srv.starts \ {p.window}, !.paired = srv.paired \cup {p.window},
                              !.window = 0]
        /\ net' = [net EXCEPT !.polls = (net.polls \ {p}) \cup {q}, !.elsewhere = o]
    BY <1>4 DEF Bot!ReturnPoll, Bot!NoLink
  <2>2. {"window", "st", "mine"} \subseteq DOMAIN q /\ q.mine = p.mine /\ q.st = "paired"
    BY <1>2
  <2>3. o \in BOOLEAN /\ (o = FALSE => p.mine = TRUE)
    BY <1>1, <1>2 DEF BotFields
  <2> HIDE DEF q, o
  <2>4. /\ DOMAIN net' = DOMAIN net /\ net'.polls = (net.polls \ {p}) \cup {q}
        /\ net'.ended = net.ended /\ net'.elsewhere = o
    BY <1>1, <2>1 DEF BotFields
  <2>5. /\ BotFields(srv, ui, net') /\ LoopOk(ui, net')
        /\ \A x \in Asking(net') : (x = q /\ p \in Asking(net)) \/ x \in Asking(net) \ {p}
    BY <1>1, <2>2, <2>3, <2>4, PollMoves DEF BotOk
  <2>6. /\ DOMAIN srv' = DOMAIN srv /\ srv'.made = srv.made /\ srv'.window = 0
        /\ srv'.starts \subseteq srv.starts /\ srv'.paired = srv.paired \cup {p.window}
    BY <1>1, <2>1 DEF BotFields
  <2>7. WindowOk(srv')
    BY <1>1, <1>4, <2>6 DEF WindowOk
  <2>8. BotFields(srv', ui', net')
    BY <1>1, <2>5, <2>6 DEF BotFields
  <2>9. o = FALSE => (\A x \in Asking(net') : x.st = "paired") /\ ui.loop # "sleeping"
    <3>1. SUFFICES ASSUME o = FALSE
                   PROVE  (\A x \in Asking(net') : x.st = "paired") /\ ui.loop # "sleeping"
      OBVIOUS
    <3>2. p \in Asking(net)
      BY <2>3, <3>1 DEF Asking
    <3>3. Asking(net) \ {p} = {} /\ ui.loop = "asking"
      BY <3>2 DEF BotOk, LoopOk
    <3>4. QED
      BY <2>2, <2>5, <3>3
  <2>10. Unused(srv', ui', net')
    BY <1>1, <2>4, <2>9 DEF Unused
  <2>11. QED
    BY <1>1, <2>5, <2>7, <2>8, <2>10, NoNotice DEF BotOk
<1>5. QED
  BY <1>3, <1>4

\* Every step of the wizard's bot keeps its loop, and says "expired" of an unused link.
LEMMA NextBot ==
  ASSUME BotOk(srv, ui, net), [Bot!Next]_<<srv, ui, net>>
  PROVE  BotOk(srv', ui', net') /\ Bot!ExpiredIsHonest
<1>1. CASE UNCHANGED <<srv, ui, net>>
  BY <1>1, NoNotice
<1>2. QED
  BY <1>1, StatusOk, ClicksOk, FailStatusOk, WindowsOk, SleepOk, BotPollAnswered, PollServed,
     PollReturned DEF Bot!Next

\* Hence the step that says it waits does wait, unless its loop ended (WaitedUnlessEnded).
LEMMA BotWaits == ASSUME BotOk(srv, ui, net) PROVE Bot!WaitedUnlessEnded
BY DEF BotOk, BotFields, LoopOk, Bot!WaitedUnlessEnded, Bot!WaitingIsWaited
=============================================================================
