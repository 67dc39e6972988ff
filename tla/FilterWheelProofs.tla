-------------------------- MODULE FilterWheelProofs --------------------------
(***************************************************************************)
(* The inductive invariant of the filter wheel controller, for every set   *)
(* of filters, wheel type and bound: while the debug terminal only resets  *)
(* an idle link, the position shown is where the wheel is, and a clear     *)
(* status bit means that the wheel is as the last command asked, whatever  *)
(* the link lost.                                                          *)
(***************************************************************************)
EXTENDS FilterWheel, SequenceTheorems, TLAPS

USE DEF host, control, modes, motor

-----------------------------------------------------------------------------
(* The answers received.                                                   *)

(* FH_readAcks finds no acknowledgement among notifications alone.         *)
LEMMA NoticesAreNoAcks ==
  ASSUME responses \in Seq(Responses), Notices, expected \in Nat
  PROVE  NumAcks = 0 /\ AfterAcks = responses /\ AcksLeft = expected
<1>1. NumAcks = 0
  <2>1. CASE line # NoCommand
    BY <2>1 DEF NumAcks
  <2>2. CASE line = NoCommand
    <3> DEFINE P(n) == /\ \A i \in 1..n : responses[i].kind = "ack"
                       /\ n < Len(responses) => responses[n + 1].kind # "ack"
    <3>1. Len(responses) \in Nat
      OBVIOUS
    <3>2. 0 \in 0..Len(responses) /\ P(0)
      BY <3>1 DEF Notices
    <3>3. \A n \in 0..Len(responses) : P(n) => n = 0
      BY <3>1 DEF Notices
    <3> HIDE DEF P
    <3>4. (CHOOSE n \in 0..Len(responses) : P(n)) = 0
      BY <3>2, <3>3
    <3> QED
      BY <2>2, <3>4 DEF NumAcks, P
  <2> QED
    BY <2>1, <2>2
<1>2. AfterAcks = responses
  BY <1>1 DEF AfterAcks
<1> QED
  BY <1>1, <1>2 DEF AcksLeft

(* FH_readAcks with one acknowledgement received: it is taken when it is   *)
(* at the front, and nothing is when a notification came before it.        *)
LEMMA OneAckFirst ==
  ASSUME responses \in Seq(Responses), line = NoCommand, expected = 1,
         OneAck
  PROVE  \/ /\ NumAcks = 1 /\ AcksLeft = 0 /\ AfterAcks = Tail(responses)
            /\ responses # <<>> /\ responses[1] = Ack
            /\ \A i \in 1..Len(Tail(responses)) : Tail(responses)[i].kind = "notify"
         \/ /\ NumAcks = 0 /\ AcksLeft = 1 /\ AfterAcks = responses
            /\ responses[1] # Ack
<1>1. Len(responses) \in Nat
  OBVIOUS
<1>2. PICK k \in 1..Len(responses) :
        /\ responses[k] = Ack
        /\ \A i \in 1..Len(responses) : i # k => responses[i].kind = "notify"
  BY DEF OneAck
<1> DEFINE P(n) == /\ \A i \in 1..n : responses[i].kind = "ack"
                   /\ n < Len(responses) => responses[n + 1].kind # "ack"
<1>3. CASE k = 1
  <2>1. 1 \in 0..Len(responses) /\ P(1)
    BY <1>1, <1>2, <1>3 DEF Ack
  <2>2. \A n \in 0..Len(responses) : P(n) => n = 1
    BY <1>1, <1>2, <1>3 DEF Ack
  <2> HIDE DEF P
  <2>3. (CHOOSE n \in 0..Len(responses) : P(n)) = 1
    BY <2>1, <2>2
  <2>4. NumAcks = 1
    BY <2>3 DEF NumAcks, P
  <2>5. AfterAcks = Tail(responses)
    BY <2>4, <1>1, <1>2 DEF AfterAcks
  <2> QED
    BY <2>4, <2>5, <1>1, <1>2, <1>3 DEF AcksLeft
<1>4. CASE k # 1
  <2>1. 0 \in 0..Len(responses) /\ P(0)
    BY <1>1, <1>2, <1>4 DEF Ack
  <2>2. \A n \in 0..Len(responses) : P(n) => n = 0
    BY <1>1, <1>2, <1>4 DEF Ack
  <2> HIDE DEF P
  <2>3. (CHOOSE n \in 0..Len(responses) : P(n)) = 0
    BY <2>1, <2>2
  <2>4. NumAcks = 0
    BY <2>3 DEF NumAcks, P
  <2> QED
    BY <2>4, <1>1, <1>2, <1>4 DEF AfterAcks, AcksLeft, Ack
<1> QED
  BY <1>3, <1>4

(* An acknowledgement has come and only notices follow it, or it is still  *)
(* expected and everything received is kept.                               *)
LEMMA AckOrWait ==
  ASSUME TypeOK, expected = 1, line # NoCommand \/ Notices \/ OneAck
  PROVE  \/ /\ AcksLeft = 0 /\ line = NoCommand /\ OneAck
            /\ AfterAcks = Tail(responses) /\ responses # <<>> /\ responses[1] = Ack
            /\ \A i \in 1..Len(Tail(responses)) : Tail(responses)[i].kind = "notify"
         \/ AcksLeft = 1 /\ AfterAcks = responses
<1>1. responses \in Seq(Responses) /\ expected \in Nat
  BY DEF TypeOK, LinkTypeOK
<1>2. CASE line # NoCommand
  <2>1. NumAcks = 0
    BY <1>2 DEF NumAcks
  <2> QED
    BY <2>1, <1>1 DEF AcksLeft, AfterAcks
<1>3. CASE Notices
  BY <1>1, <1>3, NoticesAreNoAcks
<1>4. CASE line = NoCommand /\ OneAck
  BY <1>1, <1>4, OneAckFirst
<1> QED
  BY <1>2, <1>3, <1>4

(* The acknowledgement alone, and followed by a notice.                    *)
LEMMA AckAlone ==
  ASSUME TypeOK, expected = 1, line = NoCommand, responses = <<Ack>>
  PROVE  AcksLeft = 0 /\ AfterAcks = <<>>
<1>1. OneAck
  BY DEF OneAck
<1>2. responses[1] = Ack /\ Tail(responses) = <<>> /\ Len(responses) = 1
  OBVIOUS
<1> QED
  BY <1>1, <1>2, OneAckFirst DEF TypeOK, LinkTypeOK, Ack

(* FH_readAcks leaves the notification that follows an acknowledgement.    *)
LEMMA AckThenNotice ==
  ASSUME TypeOK, expected = 1, line = NoCommand, NEW k, responses = <<Ack, Notice(k)>>
  PROVE  AcksLeft = 0 /\ AfterAcks = <<Notice(k)>>
<1>1. OneAck
  BY DEF OneAck, Notice
<1>2. responses[1] = Ack /\ Tail(responses) = <<Notice(k)>> /\ Len(responses) = 2
  OBVIOUS
<1> QED
  BY <1>1, <1>2, OneAckFirst DEF TypeOK, LinkTypeOK, Ack, Notice

(* A second element comes to a sequence of one.                            *)
LEMMA AppendSecond ==
  ASSUME NEW S, NEW a \in S, NEW x \in S
  PROVE  Append(<<a>>, x) = <<a, x>>
<1> DEFINE s == Append(<<a>>, x)
           t == <<a, x>>
<1>1. s \in Seq(S) /\ t \in Seq(S)
  OBVIOUS
<1>2. Len(s) = 2 /\ Len(t) = 2 /\ s[1] = t[1] /\ s[2] = t[2]
  OBVIOUS
<1> HIDE DEF s, t
<1>3. \A i \in 1 .. Len(s) : s[i] = t[i]
  BY <1>2
<1>4. s = t
  BY <1>1, <1>2, <1>3, SeqEqual
<1> QED
  BY <1>4 DEF s, t

(* What the motor does with a command.                                     *)
LEMMA AfterIs ==
  ASSUME NEW w \in WheelType, NEW cmd \in Commands
  PROVE  /\ After(cmd, w) \in WheelType
         /\ After(cmd, w).speed = w.speed
         /\ cmd.kind \in {"gain", "query"} => After(cmd, w) = w
         /\ cmd.kind = "enable" =>
              /\ After(cmd, w).enabled /\ After(cmd, w).at = w.at
              /\ After(cmd, w).goal = w.goal /\ After(cmd, w).homed = w.homed
         /\ cmd.kind = "disable" =>
              /\ After(cmd, w).goal = Still /\ After(cmd, w).at = w.at
              /\ After(cmd, w).homed = w.homed
         /\ cmd.kind = "velocity" =>
              /\ After(cmd, w).goal \in {w.goal, cmd}
              /\ After(cmd, w).homed = w.homed
         /\ cmd.kind = "home" /\ w.enabled => After(cmd, w).goal.kind = "home"
         /\ cmd.kind = "move" =>
              /\ After(cmd, w).homed = w.homed
              /\ \/ After(cmd, w) = w
                 \/ /\ After(cmd, w).goal.kind = "move"
                    /\ ~cmd.relative => After(cmd, w).goal.to = cmd.to
<1>1. CASE cmd.kind \in {"gain", "query"}
  BY <1>1 DEF After
<1>2. CASE cmd.kind = "enable"
  BY <1>2 DEF After, WheelType
<1>3. CASE cmd.kind = "disable"
  BY <1>3 DEF After, WheelType, Goals
<1>4. CASE cmd.kind = "velocity"
  <2>1. cmd \in Goals
    BY <1>4 DEF Commands, Goals
  <2> QED
    BY <1>4, <2>1 DEF After, WheelType
<1>5. CASE cmd.kind = "home"
  <2>1. cmd = [kind |-> "home"] /\ cmd \in Goals
    BY <1>5 DEF Commands, Goals
  <2>2. -2 \in Int
    OBVIOUS
  <2>3. After(cmd, w) = IF w.enabled THEN [w EXCEPT !.goal = cmd, !.homed = FALSE, !.at = -2]
                                     ELSE w
    BY <1>5 DEF After, Elsewhere
  <2> QED
    BY <1>5, <2>1, <2>2, <2>3 DEF WheelType
<1>6. CASE cmd.kind = "move"
  <2> DEFINE to == IF cmd.relative THEN w.at + cmd.to ELSE cmd.to
  <2>1. to \in Int
    BY <1>6 DEF Commands, WheelType
  <2>2. [kind |-> "move", to |-> to] \in Goals
    BY <2>1 DEF Goals
  <2>3. -2 \in Int
    OBVIOUS
  <2>4. After(cmd, w) = IF w.enabled THEN [w EXCEPT !.goal = [kind |-> "move", to |-> to],
                                                    !.at = -2]
                                     ELSE w
    BY <1>6 DEF After, Elsewhere
  <2>5. w.enabled \in BOOLEAN
    BY DEF WheelType
  <2>6. ~cmd.relative => to = cmd.to
    OBVIOUS
  <2> HIDE DEF to
  <2> DEFINE goal == [kind |-> "move", to |-> to]
  <2>7. goal.kind = "move" /\ goal.to = to
    OBVIOUS
  <2>8. After(cmd, w) = IF w.enabled THEN [w EXCEPT !.goal = goal, !.at = -2] ELSE w
    BY <2>4
  <2>9. goal \in Goals
    BY <2>2
  <2> HIDE DEF goal
  <2> QED
    BY <1>6, <2>3, <2>5, <2>6, <2>7, <2>8, <2>9 DEF WheelType
<1> QED
  BY <1>1, <1>2, <1>3, <1>4, <1>5, <1>6 DEF Commands

(* The motor answers the only command it has: the link is quiet, with an   *)
(* answer or without.                                                      *)
LEMMA AnswerLink ==
  ASSUME TypeOK, Answer, NEW cmd \in Commands, line = NoCommand, todo = <<cmd>>
  PROVE  /\ Quiet' /\ wheel' \in WheelType
         /\ \/ responses' = responses /\ wheel' \in {wheel, After(cmd, wheel)}
            \/ responses' = Append(responses, Reply(cmd)) /\ wheel' = After(cmd, wheel)
<1>1. Head(todo) = cmd /\ Tail(todo) = <<>>
  OBVIOUS
<1>2. wheel \in WheelType
  BY DEF TypeOK, LinkTypeOK
<1> QED
  BY <1>1, <1>2, AfterIs DEF Answer, Quiet

-----------------------------------------------------------------------------
(* The link and the motor.                                                 *)

MotorFrame ==
  UNCHANGED <<fwType, fastAllowed, fwMode, posSetpoint, speedSetpoint, writes, shown, waiting,
              queue, asked, ctl, reset, err, errorTimer, sub, lastTarget, verifyPos, backlashMode,
              rawPosition, expected>>

(* Positions and speeds are numbers.                                       *)
LEMMA TargetsAreNumbers == Targets \subseteq Int
  BY WheelAssumption DEF Targets, RawPositions, Speeds, Slow, Fast, Home

(* How the wheel arrives.                                                  *)
LEMMA ArrivedIs ==
  ASSUME NEW w \in WheelType, w.goal # Still, NEW v \in Arrived(w)
  PROVE  /\ v \in WheelType /\ v.goal = Still /\ (w.homed => v.homed)
         /\ v.enabled = w.enabled
         /\ w.goal.kind \in {"velocity", "home", "move"}
         /\ w.goal.kind = "velocity" => v.speed = w.goal.target
         /\ w.goal.kind = "home" => v.speed = 0 /\ v.at = Home /\ v.homed
         /\ w.goal.kind = "move" => v.speed = 0 /\ (w.homed => v.at = w.goal.to)
<1>1. w.goal.kind \in {"velocity", "home", "move"}
  BY DEF WheelType, Goals
<1>2. Elsewhere \in Int /\ Home \in Int /\ Still \in Goals
  BY DEF Elsewhere, Home, Goals
<1>3. CASE w.goal.kind = "velocity"
  <2>1. w.goal.target \in Int
    BY <1>3 DEF WheelType, Goals, Still
  <2> QED
    BY <1>2, <1>3, <2>1 DEF Arrived, WheelType
<1>4. CASE w.goal.kind = "home"
  <2> DEFINE zero == 0
             true == TRUE
  <2>1. v = [w EXCEPT !.goal = Still, !.speed = zero, !.at = Home, !.homed = true]
    BY <1>4 DEF Arrived
  <2>2. zero \in Int /\ true \in BOOLEAN
    OBVIOUS
  <2> HIDE DEF zero, true
  <2>3. v \in WheelType /\ v.goal = Still /\ v.speed = zero /\ v.at = Home /\ v.homed = true
        /\ v.enabled = w.enabled
    BY <1>2, <2>1, <2>2 DEF WheelType
  <2> QED
    BY <1>4, <2>3 DEF zero, true
<1>5. CASE w.goal.kind = "move"
  <2>1. w.goal.to \in Int
    BY <1>5 DEF WheelType, Goals, Still
  <2> DEFINE p == IF w.homed THEN w.goal.to ELSE Elsewhere
             zero == 0
  <2>2. v = [w EXCEPT !.goal = Still, !.speed = zero, !.at = p]
    BY <1>5 DEF Arrived
  <2>3. zero \in Int /\ p \in Int /\ (w.homed => p = w.goal.to)
    BY <1>2, <2>1
  <2>4. w.homed \in BOOLEAN
    BY DEF WheelType
  <2> HIDE DEF p, zero
  <2>5. v \in WheelType /\ v.goal = Still /\ v.speed = zero /\ v.at = p /\ v.homed = w.homed
        /\ v.enabled = w.enabled
    BY <1>2, <2>2, <2>3, <2>4 DEF WheelType
  <2> QED
    BY <1>5, <2>3, <2>5 DEF zero
<1> QED
  BY <1>1, <1>3, <1>4, <1>5

(* Every command but a query is acknowledged.                              *)
LEMMA ReplyIs ==
  ASSUME wheel \in WheelType, NEW cmd \in Commands
  PROVE  /\ Reply(cmd) \in Responses
         /\ cmd.kind # "query" => Reply(cmd) = Ack
<1>1. CASE cmd.kind = "query"
  BY <1>1 DEF Reply, Responses, Commands, WheelType
<1>2. CASE cmd.kind # "query"
  BY <1>2 DEF Reply, Responses, Ack
<1> QED
  BY <1>1, <1>2

(* The link and the motor keep the types and leave the controller alone.   *)
LEMMA MotorTypes ==
  ASSUME TypeOK, Motor
  PROVE  TypeOK' /\ MotorFrame
<1>1. wheel \in WheelType /\ responses \in Seq(Responses) /\ todo \in Seq(Commands)
  BY DEF TypeOK, LinkTypeOK
<1>2. MotorFrame
  BY DEF Motor, Sent, Answer, Arrive, Misses, MotorFrame
<1>2a. LinkTypeOK' => TypeOK'
  BY <1>2 DEF MotorFrame, TypeOK, SubOf
<1>3. CASE Sent
  <2>1. line \in Commands /\ NoCommand \in Commands \cup {NoCommand}
    BY <1>3 DEF TypeOK, LinkTypeOK, Sent
  <2>2. todo' \in Seq(Commands) /\ line' = NoCommand /\ UNCHANGED <<expected, responses, wheel>>
    BY <1>1, <1>3, <2>1 DEF Sent
  <2> QED
    BY <1>2, <1>2a, <2>1, <2>2 DEF TypeOK, LinkTypeOK
<1>4. CASE Answer
  <2>1. Head(todo) \in Commands /\ Tail(todo) \in Seq(Commands)
    BY <1>1, <1>4 DEF Answer
  <2>2. wheel' \in {wheel, After(Head(todo), wheel)} /\ todo' = Tail(todo)
        /\ responses' \in {responses, Append(responses, Reply(Head(todo)))}
        /\ UNCHANGED <<line, expected>>
    BY <1>4 DEF Answer
  <2> DEFINE cmd == Head(todo)
  <2>3a. Reply(cmd) \in Responses /\ After(cmd, wheel) \in WheelType
    BY <1>1, <2>1, ReplyIs, AfterIs
  <2>3. responses' \in Seq(Responses) /\ wheel' \in WheelType
    BY <1>1, <2>2, <2>3a
  <2> QED
    BY <1>2, <1>2a, <2>1, <2>2, <2>3 DEF TypeOK, LinkTypeOK
<1>5. CASE Arrive
  <2> DEFINE notice == [kind |-> "notify", of |-> wheel.goal.kind]
  <2>1. wheel' \in WheelType /\ wheel.goal.kind \in {"velocity", "home", "move"}
    BY <1>1, <1>5, ArrivedIs DEF Arrive
  <2>2. notice \in Responses
    BY <2>1 DEF Responses
  <2>3. responses' \in {responses, responses \o <<>>, responses \o <<notice>>}
        /\ UNCHANGED <<line, expected, todo>>
    BY <1>5 DEF Arrive
  <2>4. responses' \in Seq(Responses)
    BY <1>1, <2>2, <2>3
  <2> QED
    BY <1>2, <1>2a, <2>1, <2>3, <2>4 DEF TypeOK, LinkTypeOK
<1>6. CASE Misses
  <2> DEFINE notice == [kind |-> "notify", of |-> "move"]
             zero == 0
  <2>1. notice \in Responses
    BY DEF Responses
  <2>2. responses' = Append(responses, notice) /\ UNCHANGED <<line, expected, todo>>
        /\ wheel' = [wheel EXCEPT !.goal = Still, !.speed = zero, !.at = Home]
    BY <1>6 DEF Misses
  <2>3. responses' \in Seq(Responses)
    BY <1>1, <2>1, <2>2
  <2>4. zero \in Int /\ Home \in Int /\ Still \in Goals /\ wheel.homed \in BOOLEAN
    BY <1>1 DEF WheelType, Goals, Home
  <2> HIDE DEF zero
  <2>5. wheel' \in WheelType
    BY <1>1, <2>2, <2>4 DEF WheelType
  <2> QED
    BY <1>2, <1>2a, <2>2, <2>3, <2>5 DEF TypeOK, LinkTypeOK
<1> QED
  BY <1>2, <1>3, <1>4, <1>5, <1>6 DEF Motor

(* A command that has left is the next the motor reads.                    *)
LEMMA SentLink ==
  ASSUME TypeOK, Sent
  PROVE  /\ line # NoCommand /\ line' = NoCommand /\ (todo = <<>> => todo' = <<line>>)
         /\ UNCHANGED <<responses, wheel>>
<1>1. line # NoCommand /\ line' = NoCommand /\ todo' = Append(todo, line)
      /\ UNCHANGED <<responses, wheel>>
  BY DEF Sent
<1>2. Append(<<>>, line) = <<line>>
  OBVIOUS
<1> QED
  BY <1>1, <1>2 DEF Quiet

(* The wheel arrives: where it is, and the notification of it.             *)
LEMMA ArrivalLink ==
  ASSUME TypeOK, Arrive \/ Misses
  PROVE  /\ wheel.goal # Still /\ UNCHANGED <<line, todo>>
         /\ wheel'.goal = Still /\ wheel'.enabled = wheel.enabled
         /\ wheel.homed => wheel'.homed
         /\ wheel.goal.kind = "velocity" => wheel'.speed = wheel.goal.target
         /\ wheel.goal.kind = "home" => AtHome'
         /\ wheel.goal.kind = "move" =>
              wheel'.speed = 0 /\ (fwType = "fixed" /\ wheel.homed => wheel'.at = wheel.goal.to)
         /\ responses' \in {responses, Append(responses, Notice(wheel.goal.kind))}
         /\ wheel.goal.kind = "velocity" /\ ~wheel.goal.notify => responses' = responses
<1>1. wheel \in WheelType /\ responses \in Seq(Responses)
  BY DEF TypeOK, LinkTypeOK
<1>2. CASE Arrive
  <2>1. wheel' \in Arrived(wheel) /\ wheel.goal # Still /\ UNCHANGED <<line, todo>>
    BY <1>2 DEF Arrive
  <2> DEFINE notice == IF wheel.goal.kind = "velocity" /\ ~wheel.goal.notify THEN <<>>
                       ELSE <<Notice(wheel.goal.kind)>>
  <2>2. responses' \in {responses, responses \o notice}
    BY <1>2 DEF Arrive, Notice
  <2>3. responses \o <<>> = responses
    BY <1>1
  <2>4. responses \o <<Notice(wheel.goal.kind)>> = Append(responses, Notice(wheel.goal.kind))
    BY <1>1
  <2>5. wheel.goal.kind = "home" => AtHome'
    BY <1>1, <2>1, ArrivedIs DEF AtHome, WheelAtRest
  <2> QED
    BY <1>1, <2>1, <2>2, <2>3, <2>4, <2>5, ArrivedIs
<1>3. CASE Misses
  <2> DEFINE zero == 0
  <2>1. /\ wheel' = [wheel EXCEPT !.goal = Still, !.speed = zero, !.at = Home]
        /\ fwType = "sync" /\ wheel.goal.kind = "move" /\ UNCHANGED <<line, todo>>
        /\ responses' = Append(responses, Notice("move"))
    BY <1>3 DEF Misses, Notice
  <2> HIDE DEF zero
  <2>2. wheel'.goal = Still /\ wheel'.enabled = wheel.enabled /\ wheel'.homed = wheel.homed
        /\ wheel'.speed = zero
    BY <1>1, <2>1 DEF WheelType
  <2> QED
    BY <2>1, <2>2 DEF zero, Still
<1> QED
  BY <1>2, <1>3

(* Notices and the answer to one command stay what they are when another   *)
(* notice comes.                                                           *)
LEMMA NoticeComes ==
  ASSUME responses \in Seq(Responses), NEW k,
         responses' \in {responses, Append(responses, Notice(k))}
  PROVE  (Notices => Notices') /\ (OneAck => OneAck')
<1>1. CASE responses' = responses
  BY <1>1 DEF Notices, OneAck
<1>2. CASE responses' = Append(responses, Notice(k))
  <2>1. /\ Len(responses) \in Nat /\ Len(responses') = Len(responses) + 1
        /\ \A i \in 1..Len(responses) : responses'[i] = responses[i]
        /\ responses'[Len(responses) + 1].kind = "notify"
    BY <1>2 DEF Notice
  <2>2. \A i \in 1..Len(responses') : i \in 1..Len(responses) \/ i = Len(responses) + 1
    BY <2>1
  <2>3. Notices => Notices'
    BY <2>1, <2>2 DEF Notices
  <2>4. ASSUME OneAck PROVE OneAck'
    <3>1. PICK i \in 1..Len(responses) :
            /\ responses[i] = Ack
            /\ \A j \in 1..Len(responses) : j # i => responses[j].kind = "notify"
      BY <2>4 DEF OneAck
    <3>2. i \in 1..Len(responses') /\ responses'[i] = Ack
      BY <2>1, <3>1
    <3>3. \A j \in 1..Len(responses') : j # i => responses'[j].kind = "notify"
      BY <2>1, <2>2, <3>1
    <3> QED
      BY <3>2, <3>3 DEF OneAck, Ack
  <2> QED
    BY <2>3, <2>4
<1> QED
  BY <1>1, <1>2

(* The answer to a command comes after notices.                            *)
LEMMA AckComes ==
  ASSUME responses \in Seq(Responses), Notices, responses' = Append(responses, Ack)
  PROVE  OneAck' /\ responses'[Len(responses')] = Ack
<1>1. /\ Len(responses) \in Nat /\ Len(responses') = Len(responses) + 1
      /\ \A i \in 1..Len(responses) : responses'[i] = responses[i]
      /\ responses'[Len(responses) + 1] = Ack
  OBVIOUS
<1>2. \A i \in 1..Len(responses') : i \in 1..Len(responses) \/ i = Len(responses) + 1
  BY <1>1
<1>3. \A i \in 1..Len(responses') : i # Len(responses) + 1 => responses'[i].kind = "notify"
  BY <1>1, <1>2 DEF Notices
<1>4. Len(responses) + 1 \in 1..Len(responses')
  BY <1>1
<1> QED
  BY <1>1, <1>3, <1>4 DEF OneAck, Ack

(* Position: the wheel turns only while it is being stopped or moved.      *)
LEMMA MotorPosition ==
  ASSUME IInv, Motor, ctl.mode = "Position", sub # "failed"
  PROVE  PositionInv'
<1> DEFINE same == UNCHANGED <<ctl, sub, expected, verifyPos, rawPosition, backlashMode, fwType>>
<1>1. TypeOK /\ wheel \in WheelType /\ wheel.homed /\ same /\ (ctl.ready => sub = "ready")
      /\ PositionInv /\ responses \in Seq(Responses)
  BY MotorTypes DEF IInv, TypeOK, LinkTypeOK, PositionInv, MotorFrame
<1>2. CASE Sent
  <2>1. /\ line # NoCommand /\ line' = NoCommand /\ (todo = <<>> => todo' = <<line>>)
        /\ UNCHANGED <<responses, wheel>>
    BY <1>1, <1>2, SentLink
  <2>2. /\ Coasting' <=> Coasting
        /\ There' <=> There
        /\ AtTarget' <=> AtTarget
        /\ Move' = Move /\ StopMove' = StopMove
    BY <1>1, <2>1 DEF Coasting, There, Aim, AtTarget, WheelAtRest, Move, StopMove
  <2> QED
    BY <1>1, <2>1, <2>2 DEF PositionInv, Pending, Clear, Quiet
<1>3. CASE Answer
  <2> ~Quiet
    BY <1>3 DEF Answer, Quiet
  <2> USE <1>1, <1>3
  <2>1. CASE sub = "stopAck"
    <3>1. todo = <<StopMove>> /\ line = NoCommand /\ responses = <<>> /\ Coasting /\ expected = 1
      BY <2>1 DEF PositionInv, Pending, NoCommand, StopMove, Answer
    <3>2. StopMove \in Commands /\ StopMove.kind = "velocity"
      BY DEF StopMove, Commands
    <3>3. wheel'.goal \in {wheel.goal, StopMove} /\ wheel'.speed = wheel.speed /\ wheel'.homed
      BY <3>1, <3>2, AnswerLink, AfterIs
    <3>4. Quiet' /\ responses' \in {<<>>, <<Ack>>}
      BY <3>1, <3>2, AnswerLink, ReplyIs
    <3>5. responses' = <<>> => Notices'
      BY DEF Notices
    <3>6. wheel'.goal = StopMove \/ Coasting'
      BY <3>1, <3>3 DEF Coasting
    <3> QED
      BY <2>1, <3>1, <3>3, <3>4, <3>5, <3>6 DEF PositionInv, Pending, StopMove
  <2>2. CASE sub \in {"gainAck", "enableAck"}
    <3> DEFINE cmd == [kind |-> IF sub = "gainAck" THEN "gain" ELSE "enable"]
    <3>1. todo = <<cmd>> /\ line = NoCommand /\ responses = <<>> /\ wheel.goal = Still /\ expected = 1
      BY <2>2 DEF PositionInv, Pending, NoCommand, Answer
    <3>2. cmd \in Commands /\ cmd.kind \in {"gain", "enable"}
      BY <2>2 DEF Commands
    <3> HIDE DEF cmd
    <3>3. wheel'.goal = Still /\ wheel'.homed
      BY <3>1, <3>2, AnswerLink, AfterIs
    <3>4. Quiet' /\ responses' \in {<<>>, <<Ack>>}
      BY <3>1, <3>2, AnswerLink, ReplyIs
    <3>5. responses' = <<>> => Notices'
      BY DEF Notices
    <3> QED
      BY <2>2, <3>1, <3>3, <3>4, <3>5 DEF PositionInv, Pending
  <2>3. CASE sub = "queryAnswer"
    <3> DEFINE cmd == [kind |-> "query", what |-> "Position"]
    <3>1. todo = <<cmd>> /\ line = NoCommand /\ responses = <<>> /\ wheel.goal = Still /\ expected = 0
          /\ (verifyPos => There)
      BY <2>3 DEF PositionInv, Pending, NoCommand, Answer
    <3>2. cmd \in Commands /\ cmd.kind = "query"
      BY DEF Commands
    <3>3. Reply(cmd) = [kind |-> "value", what |-> "Position", is |-> wheel.at]
      BY DEF Reply
    <3> HIDE DEF cmd
    <3>4. wheel' = wheel /\ Quiet'
      BY <3>1, <3>2, AnswerLink, AfterIs
    <3>5. responses' = <<>> \/ responses' = <<[kind |-> "value", what |-> "Position", is |-> wheel.at]>>
      BY <3>1, <3>2, <3>3, AnswerLink
    <3>6. responses' = <<>> => Notices'
      BY DEF Notices
    <3>7. There => There'
      BY <3>4 DEF There, Aim
    <3> QED
      BY <2>3, <3>1, <3>4, <3>5, <3>6, <3>7 DEF PositionInv, Pending
  <2>4. CASE sub = "moveAck"
    <3>1. todo = <<Move>> /\ line = NoCommand /\ responses = <<>> /\ wheel.goal = Still /\ expected = 1
      BY <2>4 DEF PositionInv, Pending, NoCommand, Move, Answer
    <3>2. Move \in Commands /\ Move.kind = "move" /\ (fwType = "fixed" => ~Move.relative)
          /\ (fwType = "fixed" => Move.to = Aim)
      <4>1. ctl.requested \in Int /\ rawPosition \in Int
        BY TargetsAreNumbers DEF TypeOK
      <4>2. Aim \in Int
        BY <4>1 DEF Aim
      <4>3. (IF fwType = "sync" THEN ctl.requested - rawPosition ELSE Aim) \in Int
        BY <4>1, <4>2
      <4> QED
        BY <4>1, <4>2, <4>3 DEF Move, Commands
    <3>3a. wheel' \in {wheel, After(Move, wheel)}
      BY <3>1, <3>2, AnswerLink
    <3>3. wheel'.homed /\ (wheel' = wheel \/ (wheel'.goal.kind = "move" /\ (fwType = "fixed" => wheel'.goal.to = Aim)))
      BY <3>2, <3>3a, AfterIs
    <3>4. Quiet' /\ responses' \in {<<>>, <<Ack>>}
      BY <3>1, <3>2, AnswerLink, ReplyIs
    <3>5. responses' = <<>> => Notices'
      BY DEF Notices
    <3>6. wheel'.goal = Still \/ Moving'
      BY <3>1, <3>3 DEF Moving, Aim
    <3> QED
      BY <2>4, <3>1, <3>3, <3>4, <3>5, <3>6 DEF PositionInv, Pending, Move
  <2>5. CASE sub = "disableAck"
    <3> DEFINE cmd == [kind |-> "disable"]
    <3>1. todo = <<cmd>> /\ line = NoCommand /\ responses = <<>> /\ AtTarget /\ expected = 1
      BY <2>5 DEF PositionInv, Pending, NoCommand, Answer
    <3>2. cmd \in Commands /\ cmd.kind = "disable"
      BY DEF Commands
    <3> HIDE DEF cmd
    <3>3. wheel'.goal = Still /\ wheel'.homed /\ wheel'.at = wheel.at /\ wheel'.speed = wheel.speed
      BY <3>1, <3>2, AnswerLink, AfterIs DEF AtTarget, WheelAtRest
    <3>4. Quiet' /\ responses' \in {<<>>, <<Ack>>}
      BY <3>1, <3>2, AnswerLink, ReplyIs
    <3>5. responses' = <<>> => Notices'
      BY DEF Notices
    <3>6. AtTarget'
      BY <3>1, <3>3 DEF AtTarget, WheelAtRest
    <3> QED
      BY <2>5, <3>1, <3>3, <3>4, <3>5, <3>6 DEF PositionInv, Pending
  <2>6. CASE sub \notin {"stopAck", "gainAck", "enableAck", "queryAnswer", "moveAck", "disableAck"}
    BY <2>6 DEF TypeOK, SubOf, PositionInv, Clear, Quiet
  <2> QED
    BY <2>1, <2>2, <2>3, <2>4, <2>5, <2>6
<1>4. CASE Arrive \/ Misses
  <2> USE <1>1
  <2> DEFINE goal == wheel.goal
  <2>1. /\ goal # Still /\ UNCHANGED <<line, todo>> /\ wheel'.goal = Still /\ wheel'.homed
        /\ goal.kind = "velocity" => wheel'.speed = goal.target
        /\ goal.kind = "move" => wheel'.speed = 0 /\ (fwType = "fixed" => wheel'.at = goal.to)
        /\ responses' \in {responses, Append(responses, Notice(goal.kind))}
        /\ goal.kind = "velocity" /\ ~goal.notify => responses' = responses
    BY <1>4, ArrivalLink
  <2>2. (Notices => Notices') /\ Coasting'
    BY <2>1, NoticeComes DEF Coasting
  <2>3. /\ \A x : Append(<<>>, x) = <<x>>
        /\ Append(<<Ack>>, Notice(goal.kind)) = <<Ack, Notice(goal.kind)>>
    <3>1. goal.kind \in {"velocity", "home", "move"}
      BY <2>1 DEF WheelType, Goals
    <3>2. Ack \in Responses /\ Notice(goal.kind) \in Responses
      BY <3>1 DEF Responses, Ack, Notice
    <3> QED
      BY <3>2, AppendSecond
  <2>4. Coasting => responses' = responses
    BY <2>1 DEF Coasting
  <2>5. goal = StopMove => goal.kind = "velocity"
    BY DEF StopMove
  <2>6. Moving => There'
    BY <2>1 DEF Moving, There, Aim
  <2>7. sub \in {"stop", "stopAck", "stopWait", "gainAck", "enableAck", "moveAck", "moveWait"}
    BY <2>1 DEF PositionInv, TypeOK, SubOf, AtTarget, WheelAtRest
  <2>8. CASE sub = "stop"
    BY <2>1, <2>2, <2>4, <2>8 DEF PositionInv, Clear, Quiet
  <2>9. CASE sub = "stopAck"
    BY <2>1, <2>2, <2>3, <2>4, <2>5, <2>9 DEF PositionInv, Pending, Quiet, StopMove
  <2>10. CASE sub = "stopWait"
    BY <2>1, <2>2, <2>3, <2>4, <2>5, <2>10 DEF PositionInv, Quiet
  <2>11. CASE sub \in {"gainAck", "enableAck"}
    BY <2>1, <2>2, <2>11 DEF PositionInv, Pending, Quiet
  <2>12. CASE sub = "moveAck"
    <3>1. Move' = Move
      BY DEF Move, Aim
    <3> QED
      BY <2>1, <2>2, <2>3, <2>6, <2>12, <3>1 DEF PositionInv, Pending, Quiet, Moving, Move
  <2>13. CASE sub = "moveWait"
    BY <2>1, <2>2, <2>3, <2>6, <2>13 DEF PositionInv, Quiet, Moving
  <2> QED
    BY <2>7, <2>8, <2>9, <2>10, <2>11, <2>12, <2>13
<1> QED
  BY <1>2, <1>3, <1>4 DEF Motor

(* Velocity: no command of this mode is told of by a notice.               *)
LEMMA MotorVelocity ==
  ASSUME IInv, Motor, ctl.mode = "Velocity", sub # "failed"
  PROVE  VelocityInv'
<1> DEFINE same == UNCHANGED <<ctl, sub, expected, lastTarget>>
<1>1. TypeOK /\ wheel \in WheelType /\ wheel.homed /\ same /\ (ctl.ready => sub = "ready")
      /\ VelocityInv /\ responses \in Seq(Responses) /\ ctl.requested \in {100, 200}
  BY MotorTypes DEF IInv, TypeOK, LinkTypeOK, VelocityInv, MotorFrame, Speeds, Slow, Fast
<1>2. CASE Sent
  <2>1. /\ line # NoCommand /\ line' = NoCommand /\ (todo = <<>> => todo' = <<line>>)
        /\ UNCHANGED <<responses, wheel>>
    BY <1>1, <1>2, SentLink
  <2>2. /\ Coasting' <=> Coasting
        /\ Steering' <=> Steering
        /\ Late' <=> Late
        /\ Turn' = Turn
    BY <1>1, <2>1 DEF Coasting, Steering, Turn, Late
  <2> QED
    BY <1>1, <2>1, <2>2 DEF VelocityInv, Pending, Clear, Quiet
<1>3. CASE Answer
  <2> ~Quiet
    BY <1>3 DEF Answer, Quiet
  <2> USE <1>1, <1>3
  <2>1. CASE sub = "gainAck"
    <3> DEFINE cmd == [kind |-> "gain"]
    <3>1. todo = <<cmd>> /\ line = NoCommand /\ responses = <<>> /\ Coasting /\ Late /\ expected = 1
      BY <2>1 DEF VelocityInv, Pending, NoCommand, Answer
    <3>2. cmd \in Commands /\ cmd.kind = "gain"
      BY DEF Commands
    <3> HIDE DEF cmd
    <3>3. wheel' = wheel
      BY <3>1, <3>2, AnswerLink, AfterIs
    <3>4. Quiet' /\ responses' \in {<<>>, <<Ack>>}
      BY <3>1, <3>2, AnswerLink, ReplyIs
    <3>5. responses' = <<>> => Notices'
      BY DEF Notices
    <3>6. Coasting' /\ Late'
      BY <3>1, <3>3 DEF Coasting, Late
    <3> QED
      BY <2>1, <3>1, <3>3, <3>4, <3>5, <3>6 DEF VelocityInv, Pending
  <2>2. CASE sub = "velocityAck"
    <3>1. todo = <<Turn>> /\ line = NoCommand /\ responses = <<>> /\ Coasting /\ expected = 1
      BY <2>2 DEF VelocityInv, Pending, NoCommand, Answer, Turn
    <3>2. Turn \in Commands /\ Turn.kind = "velocity"
      BY DEF Turn, Commands
    <3>3. wheel'.goal \in {wheel.goal, Turn} /\ wheel'.speed = wheel.speed /\ wheel'.homed
      BY <3>1, <3>2, AnswerLink, AfterIs
    <3>4. Quiet' /\ responses' \in {<<>>, <<Ack>>}
      BY <3>1, <3>2, AnswerLink, ReplyIs
    <3>5. responses' = <<>> => Notices'
      BY DEF Notices
    <3>6. Turn' = Turn /\ Steering'
      BY <3>1, <3>3 DEF Coasting, Steering, Turn
    <3> QED
      BY <2>2, <3>1, <3>3, <3>4, <3>5, <3>6 DEF VelocityInv, Pending, Turn
  <2>3. CASE sub = "queryAnswer"
    <3> DEFINE cmd == [kind |-> "query", what |-> "Velocity"]
    <3>1. todo = <<cmd>> /\ line = NoCommand /\ responses = <<>> /\ Steering /\ expected = 0
      BY <2>3 DEF VelocityInv, Pending, NoCommand, Answer
    <3>2. cmd \in Commands /\ cmd.kind = "query"
      BY DEF Commands
    <3>3. Reply(cmd) = [kind |-> "value", what |-> "Velocity", is |-> wheel.speed]
      BY DEF Reply
    <3> HIDE DEF cmd
    <3>4. wheel' = wheel /\ Quiet'
      BY <3>1, <3>2, AnswerLink, AfterIs
    <3>5. responses' = <<>> \/ responses' = <<[kind |-> "value", what |-> "Velocity", is |-> wheel.speed]>>
      BY <3>1, <3>2, <3>3, AnswerLink
    <3>6. responses' = <<>> => Notices'
      BY DEF Notices
    <3>7. Steering'
      BY <3>1, <3>4 DEF Steering, Coasting, Turn
    <3>8. responses' # <<>> =>
            /\ Len(responses') = 1 /\ responses'[1].kind = "value"
            /\ responses'[1].what = "Velocity" /\ responses'[1].is = wheel'.speed
      BY <3>4, <3>5
    <3> QED
      BY <2>3, <3>1, <3>4, <3>6, <3>7, <3>8 DEF VelocityInv, Pending
  <2>4. CASE sub \notin {"gainAck", "velocityAck", "queryAnswer"}
    BY <2>4 DEF TypeOK, SubOf, VelocityInv, Clear, Quiet
  <2> QED
    BY <2>1, <2>2, <2>3, <2>4
<1>4. CASE Arrive \/ Misses
  <2> USE <1>1
  <2> DEFINE goal == wheel.goal
  <2>1. /\ goal # Still /\ UNCHANGED <<line, todo>> /\ wheel'.goal = Still /\ wheel'.homed
        /\ goal.kind = "velocity" => wheel'.speed = goal.target
        /\ responses' \in {responses, Append(responses, Notice(goal.kind))}
        /\ goal.kind = "velocity" /\ ~goal.notify => responses' = responses
    BY <1>4, ArrivalLink
  <2>2. (Notices => Notices') /\ Coasting' /\ Steering' /\ Turn' = Turn
    BY <2>1, NoticeComes DEF Coasting, Steering, Turn
  <2>3. Coasting => responses' = responses /\ wheel'.speed = wheel.speed
    BY <2>1 DEF Coasting
  <2>4. Coasting /\ Late => Late'
    BY <2>3 DEF Late
  <2>5. Steering => responses' = responses /\ wheel'.speed \in {wheel.speed, ctl.requested}
    BY <2>1, <2>3 DEF Steering, Turn
  <2> QED
    BY <2>1, <2>2, <2>3, <2>4, <2>5 DEF VelocityInv, Pending, Clear, Quiet, Turn
<1> QED
  BY <1>2, <1>3, <1>4 DEF Motor

(* Initialisation: what the wheel does until it is homed does not matter.  *)
LEMMA MotorInit ==
  ASSUME IInv, Motor, ctl.mode = "Init"
  PROVE  InitInv'
<1> DEFINE same == UNCHANGED <<ctl, sub, expected>>
<1>1. TypeOK /\ wheel \in WheelType /\ same /\ (ctl.ready => sub = "done")
      /\ InitInv /\ responses \in Seq(Responses)
  BY MotorTypes DEF IInv, TypeOK, LinkTypeOK, InitInv, MotorFrame
<1>2. CASE Sent
  <2>1. /\ line # NoCommand /\ line' = NoCommand /\ (todo = <<>> => todo' = <<line>>)
        /\ UNCHANGED <<responses, wheel>>
    BY <1>1, <1>2, SentLink
  <2>2. /\ Notices' <=> Notices
        /\ StopFirst' = StopFirst
    BY <1>1, <2>1 DEF Notices, StopFirst
  <2> QED
    BY <1>1, <2>1, <2>2 DEF InitInv, Pending, Free, Quiet
<1>3. CASE Answer
  <2> ~Quiet
    BY <1>3 DEF Answer, Quiet
  <2> USE <1>1, <1>3
  <2>1. ASSUME NEW cmd \in Commands, Pending(cmd, Notices, TRUE), cmd.kind # "query", ~Quiet
        PROVE  /\ todo = <<cmd>> /\ Notices /\ expected' = 1 /\ Quiet'
               /\ \/ responses' = responses /\ Notices'
                  \/ OneAck' /\ responses'[Len(responses')] = Ack /\ wheel' = After(cmd, wheel)
    <3>1. todo = <<cmd>> /\ Notices /\ expected = 1 /\ line = NoCommand
      BY <2>1 DEF Pending, Answer, NoCommand
    <3>2. Quiet' /\ (responses' = responses \/
                     (responses' = Append(responses, Ack) /\ wheel' = After(cmd, wheel)))
      BY <2>1, <3>1, AnswerLink, ReplyIs
    <3>3. responses' = responses => Notices'
      BY <3>1 DEF Notices
    <3> QED
      BY <3>1, <3>2, <3>3, AckComes
  <2>2. CASE sub \in {"stopAck", "disableAck", "gainAck"}
    <3> DEFINE cmd == IF sub = "stopAck" THEN StopFirst
                      ELSE [kind |-> IF sub = "gainAck" THEN "gain" ELSE "disable"]
    <3>1. cmd \in Commands /\ cmd.kind # "query" /\ Pending(cmd, Notices, TRUE)
      BY <2>2 DEF InitInv, Pending, Commands, StopFirst
    <3> HIDE DEF cmd
    <3>2. expected' = 1 /\ Quiet' /\ (Notices' \/ OneAck')
      BY <2>1, <3>1
    <3> QED
      BY <2>2, <3>2 DEF InitInv, Pending, StopFirst
  <2>3. CASE sub = "enableAck"
    <3> DEFINE cmd == [kind |-> "enable"]
    <3>1. cmd \in Commands /\ cmd.kind = "enable" /\ Pending(cmd, Notices, TRUE)
      BY <2>3 DEF InitInv, Pending, Commands
    <3> HIDE DEF cmd
    <3>2. expected' = 1 /\ Quiet' /\ (Notices' \/ (OneAck' /\ wheel'.enabled))
      BY <2>1, <3>1, AfterIs
    <3> QED
      BY <2>3, <3>2 DEF InitInv, Pending
  <2>4. CASE sub = "homeAck"
    <3> DEFINE cmd == [kind |-> "home"]
    <3>1. cmd \in Commands /\ cmd.kind = "home" /\ Pending(cmd, Notices, TRUE) /\ wheel.enabled
      BY <2>4 DEF InitInv, Pending, Commands, Answer
    <3> HIDE DEF cmd
    <3>2. expected' = 1 /\ Quiet'
          /\ (Notices' \/ (OneAck' /\ wheel'.goal.kind = "home" /\ responses'[Len(responses')] = Ack))
      BY <2>1, <3>1, AfterIs
    <3> QED
      BY <2>4, <3>2 DEF InitInv, Pending, Ack
  <2>5. CASE sub \notin {"stopAck", "disableAck", "gainAck", "enableAck", "homeAck"}
    BY <2>5 DEF TypeOK, SubOf, InitInv, Free, Quiet
  <2> QED
    BY <2>2, <2>3, <2>4, <2>5
<1>4. CASE Arrive \/ Misses
  <2> USE <1>1
  <2>1. /\ wheel.goal # Still /\ UNCHANGED <<line, todo>> /\ wheel'.enabled = wheel.enabled
        /\ wheel.goal.kind = "home" => AtHome'
    BY <1>4, ArrivalLink
  <2>2. (Notices => Notices') /\ (OneAck => OneAck') /\ ~AtHome
    BY <1>4, <2>1, ArrivalLink, NoticeComes DEF AtHome, WheelAtRest
  <2>3. responses = <<>> => Notices'
    BY <2>2 DEF Notices
  <2>4. (Free => Free') /\ (Quiet => Quiet')
    BY <2>1, <2>2 DEF Free, Quiet
  <2>5. CASE sub \in {"setup", "stop", "stopWait", "disable", "gain", "enable", "home", "done"}
    BY <2>1, <2>2, <2>4, <2>5 DEF InitInv
  <2>6. CASE sub \in {"stopAck", "disableAck", "gainAck", "enableAck"}
    BY <2>1, <2>2, <2>6 DEF InitInv, Pending, Quiet, StopFirst
  <2>7. CASE sub = "homeAck"
    BY <2>1, <2>2, <2>7 DEF InitInv, Pending, Quiet
  <2>8. CASE sub = "homeSwitch"
    BY <2>1, <2>2, <2>4, <2>8 DEF InitInv
  <2> QED
    BY <2>5, <2>6, <2>7, <2>8 DEF InitInv, TypeOK, SubOf
<1> QED
  BY <1>2, <1>3, <1>4 DEF Motor

(* What each state of the controller relies on stays true whatever the     *)
(* link and the motor do meanwhile.                                        *)
LEMMA MotorPreserves ==
  ASSUME IInv, Motor
  PROVE  IInv'
<1>1. TypeOK' /\ MotorFrame /\ IInv /\ TypeOK
  BY MotorTypes DEF IInv
<1>2. (Quiet => Quiet') /\ (Clear /\ Coasting => Clear' /\ Coasting' /\ (wheel.homed => wheel'.homed))
  <2>1. CASE Sent \/ Answer
    BY <2>1 DEF Sent, Answer, Clear, Quiet
  <2>2. CASE Arrive \/ Misses
    BY <1>1, <2>2, ArrivalLink DEF MotorFrame, Clear, Quiet, Coasting
  <2> QED
    BY <2>1, <2>2 DEF Motor
<1>3. RecoveryInv' /\ QueueInv' /\ ShownInv' /\ IdleInv'
  <2>1. RecoveryInv' /\ ShownInv' /\ IdleInv'
    BY <1>1, <1>2 DEF IInv, MotorFrame, RecoveryInv, ShownInv, IdleInv
  <2>2. ByRegisters' = ByRegisters
    BY <1>1 DEF MotorFrame, ByRegisters, To, At
  <2>3. QueueInv'
    BY <1>1, <2>2 DEF IInv, MotorFrame, QueueInv
  <2> QED
    BY <2>1, <2>3
<1>4. InitInv'
  BY <1>1, MotorInit DEF MotorFrame, InitInv
<1>5. VelocityInv'
  BY <1>1, MotorVelocity DEF MotorFrame, VelocityInv
<1>6. PositionInv'
  BY <1>1, MotorPosition DEF MotorFrame, PositionInv
<1> QED
  BY <1>1, <1>3, <1>4, <1>5, <1>6 DEF IInv

-----------------------------------------------------------------------------
(* The host.                                                               *)

HostFrame ==
  UNCHANGED <<fwType, shown, waiting, ctl, sub, lastTarget, verifyPos, backlashMode,
              rawPosition, line, expected, responses, todo, wheel, faults>>

(* A write leaves alone what the modes rely on.                            *)
LEMMA WritesLeaveModes ==
  ASSUME IInv, HostFrame, queue # NoCommand => queue' # NoCommand, reset' => reset \/ Quiet
  PROVE  /\ LinkTypeOK' /\ RecoveryInv' /\ InitInv' /\ IdleInv' /\ VelocityInv' /\ PositionInv'
         /\ ShownInv'
<1> USE DEF HostFrame
<1>1. LinkTypeOK' /\ RecoveryInv' /\ ShownInv'
  BY DEF IInv, TypeOK, LinkTypeOK, RecoveryInv, Quiet, ShownInv
<1>2. /\ Quiet' <=> Quiet
      /\ Free' <=> Free
      /\ Clear' <=> Clear
      /\ Notices' <=> Notices
      /\ OneAck' <=> OneAck
  BY DEF Quiet, Free, Clear, Notices, OneAck
<1>3. /\ Coasting' <=> Coasting
      /\ AtHome' <=> AtHome
      /\ Steering' <=> Steering
      /\ Late' <=> Late
      /\ There' <=> There
      /\ AtTarget' <=> AtTarget
      /\ Moving' <=> Moving
      /\ Turn' = Turn /\ Move' = Move
  BY DEF Coasting, AtHome, Steering, Late, There, AtTarget, Moving, Turn, Move, WheelAtRest, Aim
<1>4. InitInv'
  BY <1>2, <1>3 DEF IInv, InitInv, Pending
<1>5. IdleInv'
  BY <1>2, <1>3 DEF IInv, IdleInv
<1>6. VelocityInv'
  BY <1>2, <1>3 DEF IInv, VelocityInv, Pending
<1>7. PositionInv'
  BY <1>2, <1>3 DEF IInv, PositionInv, Pending
<1> QED
  BY <1>1, <1>4, <1>5, <1>6, <1>7

CommandType == [mode : {"Velocity", "Position"}, target : Targets, raw : BOOLEAN]

(* The commands the registers give.                                        *)
LEMMA CommandsAre ==
  /\ \A f \in Filters : /\ To(f) \in CommandType /\ To(f).mode = "Position"
                        /\ To(f).target = f /\ To(f).raw = FALSE
  /\ \A v \in Speeds : /\ At(v) \in CommandType /\ At(v).mode = "Velocity"
                       /\ At(v).target = v /\ At(v).raw = FALSE
<1> DEFINE position == "Position"
           velocity == "Velocity"
           false == FALSE
<1>1. /\ position \in {"Velocity", "Position"} /\ velocity \in {"Velocity", "Position"}
      /\ false \in BOOLEAN
  OBVIOUS
<1>2. ASSUME NEW f \in Filters
      PROVE  /\ To(f) \in CommandType /\ To(f).mode = position /\ To(f).target = f
             /\ To(f).raw = false
  <2>1. To(f) = [mode |-> position, target |-> f, raw |-> false] /\ f \in Targets
    BY DEF To, Targets, RawPositions
  <2> HIDE DEF position, false
  <2> QED
    BY <1>1, <2>1 DEF CommandType
<1>3. ASSUME NEW v \in Speeds
      PROVE  /\ At(v) \in CommandType /\ At(v).mode = velocity /\ At(v).target = v
             /\ At(v).raw = false
  <2>1. At(v) = [mode |-> velocity, target |-> v, raw |-> false] /\ v \in Targets
    BY DEF At, Targets
  <2> HIDE DEF velocity, false
  <2> QED
    BY <1>1, <2>1 DEF CommandType
<1> QED
  BY <1>2, <1>3

(* A command that suits FWMode goes into the queue.                        *)
LEMMA QueuedIs ==
  ASSUME NEW mode, NEW cmd \in CommandType, ChangeFWControllerMode(mode, cmd),
         mode = (IF cmd.mode = "Position" THEN "Fixed" ELSE "Rotating"),
         err \in BOOLEAN, fastAllowed \in BOOLEAN
  PROVE  /\ queue' \in Queueable /\ queue' # NoCommand /\ queue'.target = cmd.target
         /\ queue'.mode = cmd.mode \/ (queue'.mode = "Error" /\ cmd.mode = "Velocity")
         /\ err' \in BOOLEAN /\ (err => err') /\ asked' = cmd
<1>0. cmd.mode \in {"Velocity", "Position"} /\ cmd.target \in Targets
  BY DEF CommandType
<1>1. TooFast(cmd) \in BOOLEAN /\ (cmd.mode = "Position" => ~TooFast(cmd))
  BY DEF TooFast
<1> DEFINE m == IF TooFast(cmd) THEN "Error" ELSE cmd.mode
           t == cmd.target
<1>2. queue' = [mode |-> m, target |-> t] /\ err' = (err \/ TooFast(cmd)) /\ asked' = cmd
  BY DEF ChangeFWControllerMode
<1>3. /\ m \in {"Velocity", "Position", "Error"} /\ t \in Targets
      /\ m = cmd.mode \/ (m = "Error" /\ cmd.mode = "Velocity")
  BY <1>0, <1>1
<1> HIDE DEF m, t
<1>4. queue' \in Queueable /\ queue'.target = t /\ queue'.mode = m
  BY <1>2, <1>3 DEF Queueable
<1>5. queue' # NoCommand
  BY <1>2 DEF NoCommand
<1>6. err' \in BOOLEAN /\ (err => err')
  BY <1>1, <1>2
<1> QED
  BY <1>2, <1>3, <1>4, <1>5, <1>6 DEF t

(* A write that gives a command leaves the queue with it, and what the     *)
(* modes rely on alone.                                                    *)
LEMMA CommandPreserves ==
  ASSUME IInv, HostFrame, UNCHANGED <<fastAllowed, reset, errorTimer>>,
         fwMode' \in {"Fixed", "Rotating"}, posSetpoint' \in Filters,
         speedSetpoint' \in Speeds \cup (IF fwMode' = "Fixed" THEN {0} ELSE {}),
         NEW cmd \in CommandType, ChangeFWControllerMode(fwMode', cmd),
         fwMode' = (IF cmd.mode = "Position" THEN "Fixed" ELSE "Rotating"),
         cmd.mode = "Velocity" => cmd.target \in Speeds,
         ~cmd.raw => cmd = ByRegisters'
  PROVE  IInv'
<1>1. TypeOK /\ QueueInv
  BY DEF IInv
<1>2. /\ queue' \in Queueable /\ queue' # NoCommand /\ queue'.target = cmd.target
      /\ queue'.mode = cmd.mode \/ (queue'.mode = "Error" /\ cmd.mode = "Velocity")
      /\ err' \in BOOLEAN /\ (err => err') /\ asked' = cmd
  BY <1>1, QueuedIs DEF TypeOK
<1>3. /\ LinkTypeOK' /\ RecoveryInv' /\ InitInv' /\ IdleInv' /\ VelocityInv' /\ PositionInv'
      /\ ShownInv'
  BY <1>2, WritesLeaveModes
<1>4. QueueInv'
  <2>1. cmd.mode \in {"Velocity", "Position"}
    BY DEF CommandType
  <2>2. /\ cmd.mode = IF fwMode' = "Fixed" THEN "Position" ELSE "Velocity"
        /\ ctl.mode \in {"Velocity", "Position"} => ~ctl.available /\ (~waiting => sub = "ready")
        /\ ctl.available /\ ctl.newMode = "Velocity" => ctl.newTarget \in Speeds
    BY <1>1, <2>1 DEF QueueInv
  <2> QED
    BY <1>2, <2>2 DEF HostFrame, QueueInv
<1>5. TypeOK'
  <2>1. sub' \in SubOf(ctl.mode)' \/ (sub' = "failed" /\ (err' \/ reset'))
    BY <1>1, <1>2 DEF HostFrame, TypeOK, SubOf
  <2> QED
    BY <1>1, <1>2, <1>3, <2>1 DEF HostFrame, TypeOK, CommandType
<1> QED
  BY <1>3, <1>4, <1>5 DEF IInv

(* A position while the wheel is to rotate is not taken.                   *)
LEMMA IgnoredPreserves ==
  ASSUME IInv, HostFrame, posSetpoint' \in Filters,
         fwMode = "Rotating", UNCHANGED <<fastAllowed, fwMode, speedSetpoint, reset, errorTimer,
                                          queue, err, asked>>
  PROVE  IInv'
<1>1. TypeOK /\ QueueInv
  BY DEF IInv
<1>2. /\ LinkTypeOK' /\ RecoveryInv' /\ InitInv' /\ IdleInv' /\ VelocityInv' /\ PositionInv'
      /\ ShownInv'
  BY WritesLeaveModes
<1>3. ByRegisters' = ByRegisters
  BY DEF ByRegisters, At
<1>4. QueueInv'
  BY <1>1, <1>3 DEF HostFrame, QueueInv
<1>5. TypeOK'
  BY <1>1, <1>2 DEF HostFrame, TypeOK, SubOf
<1> QED
  BY <1>2, <1>4, <1>5 DEF IInv

(* The same of the writes of the host, which come between any two calls.   *)
LEMMA HostPreserves ==
  ASSUME IInv, Host, ~ResetAnyTime
  PROVE  IInv'
<1>1. TypeOK /\ QueueInv
  BY DEF IInv
<1>2. /\ fwMode \in {"Fixed", "Rotating"} /\ posSetpoint \in Filters
      /\ speedSetpoint \in Speeds \cup (IF fwMode = "Fixed" THEN {0} ELSE {})
  BY <1>1 DEF TypeOK
<1>3. ASSUME NEW f \in Filters, HostPosition(f) PROVE IInv'
  <2>1. /\ HostFrame /\ posSetpoint' = f /\ ChangeFWControllerMode(fwMode, To(f))
        /\ UNCHANGED <<fastAllowed, fwMode, speedSetpoint, reset, errorTimer>>
    BY <1>3 DEF HostPosition, HostFrame
  <2>2. To(f) \in CommandType /\ To(f).mode = "Position"
    BY CommandsAre
  <2>3. CASE fwMode = "Fixed"
    <3>1. To(f) = ByRegisters'
      BY <2>1, <2>3 DEF ByRegisters, To
    <3> QED
      BY <1>2, <2>1, <2>2, <2>3, <3>1, CommandPreserves
  <2>4. CASE fwMode = "Rotating"
    <3>1. UNCHANGED <<queue, err, asked>>
      BY <2>1, <2>2, <2>4 DEF ChangeFWControllerMode
    <3> QED
      BY <2>1, <2>4, <3>1, IgnoredPreserves
  <2> QED
    BY <1>2, <2>3, <2>4
<1>4. ASSUME NEW f \in Filters, HostFixed(f) PROVE IInv'
  <2>1. /\ HostFrame /\ fwMode' = "Fixed" /\ posSetpoint' = f
        /\ ChangeFWControllerMode("Fixed", To(f))
        /\ UNCHANGED <<fastAllowed, speedSetpoint, reset, errorTimer>>
    BY <1>4 DEF HostFixed, HostFrame
  <2>2. To(f) \in CommandType /\ To(f).mode = "Position"
    BY CommandsAre
  <2>3. To(f) = ByRegisters' /\ ChangeFWControllerMode(fwMode', To(f))
    BY <2>1 DEF ByRegisters, To
  <2>4. speedSetpoint' \in Speeds \cup (IF fwMode' = "Fixed" THEN {0} ELSE {})
    BY <1>2, <2>1
  <2> QED
    BY <2>1, <2>2, <2>3, <2>4, CommandPreserves
<1>5. ASSUME NEW p \in RawPositions, HostRawPosition(p) PROVE IInv'
  <2> DEFINE position == "Position"
             true == TRUE
             false == FALSE
             cmd == [To(p) EXCEPT !.raw = true]
  <2>1. /\ HostFrame /\ ChangeFWControllerMode(fwMode, cmd)
        /\ UNCHANGED <<fastAllowed, fwMode, posSetpoint, speedSetpoint, reset, errorTimer>>
    BY <1>5 DEF HostRawPosition, HostFrame
  <2>2. cmd \in CommandType /\ cmd.mode = "Position" /\ cmd.raw
    <3>0. To(p) = [mode |-> position, target |-> p, raw |-> false]
      BY DEF To
    <3>1. cmd = [mode |-> position, target |-> p, raw |-> true]
      <4> HIDE DEF position, true, false
      <4> QED
        BY <3>0
    <3>2. position \in {"Velocity", "Position"} /\ p \in Targets /\ true \in BOOLEAN
      BY DEF Targets
    <3> HIDE DEF position, true, cmd
    <3>3. cmd \in CommandType /\ cmd.mode = position /\ cmd.raw = true
      BY <3>1, <3>2 DEF CommandType
    <3> QED
      BY <3>3 DEF position, true
  <2> HIDE DEF cmd
  <2>3. CASE fwMode = "Fixed"
    <3>1. ChangeFWControllerMode(fwMode', cmd)
      BY <2>1
    <3> QED
      BY <1>2, <2>1, <2>2, <2>3, <3>1, CommandPreserves
  <2>4. CASE fwMode = "Rotating"
    <3>1. UNCHANGED <<queue, err, asked>>
      BY <2>1, <2>2, <2>4 DEF ChangeFWControllerMode
    <3> QED
      BY <1>2, <2>1, <2>4, <3>1, IgnoredPreserves
  <2> QED
    BY <1>2, <2>3, <2>4
<1>6. ASSUME NEW v \in Speeds, HostRotating(v) PROVE IInv'
  <2> DEFINE w == SpeedSetpoint(v)
  <2>1. /\ HostFrame /\ fwMode' = "Rotating" /\ speedSetpoint' = w
        /\ ChangeFWControllerMode("Rotating", At(w))
        /\ UNCHANGED <<fastAllowed, posSetpoint, reset, errorTimer>>
    BY <1>6 DEF HostRotating, HostFrame
  <2>2. w \in Speeds
    BY DEF SpeedSetpoint, Speeds
  <2> HIDE DEF w
  <2>3. At(w) \in CommandType /\ At(w).mode = "Velocity" /\ At(w).target = w
    BY <2>2, CommandsAre
  <2>4. At(w) = ByRegisters' /\ ChangeFWControllerMode(fwMode', At(w))
    BY <2>1 DEF ByRegisters, At
  <2>5. posSetpoint' \in Filters /\ speedSetpoint' \in Speeds
    BY <1>2, <2>1, <2>2
  <2> QED
    BY <2>1, <2>2, <2>3, <2>4, <2>5, CommandPreserves
<1>7. CASE HostLowersMaximum
  <2>1. /\ HostFrame /\ fastAllowed' = FALSE
        /\ UNCHANGED <<fwMode, posSetpoint, speedSetpoint, queue, asked, reset, err, errorTimer>>
    BY <1>7 DEF HostLowersMaximum, HostFrame
  <2>2. ByRegisters' = ByRegisters
    BY <2>1 DEF ByRegisters, To, At
  <2>3. QueueInv'
    BY <1>1, <2>1, <2>2 DEF HostFrame, QueueInv
  <2>4. fastAllowed' \in BOOLEAN /\ LinkTypeOK'
    BY <2>1, WritesLeaveModes
  <2>5. TypeOK'
    BY <1>1, <2>1, <2>4 DEF HostFrame, TypeOK, SubOf
  <2> QED
    BY <2>1, <2>3, <2>5, WritesLeaveModes DEF IInv
<1>8. CASE FWControllerReset
  <2>1. Quiet
    <3>1. line = NoCommand /\ todo = <<>>
      BY <1>8, Zenon DEF FWControllerReset
    <3> QED
      BY <3>1 DEF Quiet
  <2>2. /\ HostFrame /\ err' = FALSE /\ reset' = TRUE /\ errorTimer' = FALSE
        /\ UNCHANGED <<fastAllowed, fwMode, posSetpoint, speedSetpoint, queue, asked>>
    BY <1>8 DEF FWControllerReset, HostFrame
  <2>3. ByRegisters' = ByRegisters
    BY <2>2 DEF ByRegisters, To, At
  <2>4. QueueInv'
    BY <1>1, <2>2, <2>3 DEF HostFrame, QueueInv
  <2>5. TypeOK'
    <3>1. err' \in BOOLEAN /\ reset' \in BOOLEAN /\ errorTimer' \in BOOLEAN /\ LinkTypeOK'
      BY <2>1, <2>2, WritesLeaveModes
    <3>2. sub' \in SubOf(ctl.mode)' \/ (sub' = "failed" /\ (err' \/ reset'))
      BY <1>1, <2>2 DEF HostFrame, TypeOK, SubOf
    <3> QED
      BY <1>1, <2>2, <3>1, <3>2 DEF HostFrame, TypeOK
  <2> QED
    BY <2>1, <2>2, <2>4, <2>5, WritesLeaveModes DEF IInv
<1> QED
  BY <1>3, <1>4, <1>5, <1>6, <1>7, <1>8 DEF Host

-----------------------------------------------------------------------------
(* One call of FW_ControllerProcess: the statics as its mode function sees *)
(* them.                                                                   *)

Ctl0 == IF reset THEN Fresh(ctl) ELSE ctl
Queue0 == IF reset THEN NoCommand ELSE queue
Ctl1 == AfterQueue(Ctl0, Queue0)
Ctl2 == InError(Switched(Ctl1))
Queue1 == IF Taken(Ctl0, Queue0) THEN NoCommand ELSE Queue0
Changed == Ctl2.mode # Ctl2.last
NewTarget == SameMode(Ctl1) /\ Ctl1.newTarget # Ctl1.requested
Ctl == [Ctl2 EXCEPT !.last = Ctl2.mode]

(* FW_ControllerProcess by the names given above.                          *)
LEMMA CallIs ==
  ASSUME NEW expired, FW_ControllerProcess(expired)
  PROVE  /\ reset' = FALSE
         /\ waiting' = ~(Queue0 = NoCommand /\ Ctl0.ready)
         /\ Ctl.mode # "Idle" => queue' = Queue1 /\ asked' = asked
         /\ \/ Ctl.mode = "Startup" /\ StartupMode(Ctl)
            \/ Ctl.mode = "Init" /\ InitialisationMode(Ctl, Changed, expired)
            \/ Ctl.mode = "Idle" /\ IdleMode(Ctl)
            \/ Ctl.mode = "Velocity" /\ VelocityMode(Ctl, Changed, NewTarget, expired)
            \/ Ctl.mode = "Position" /\ PositionMode(Ctl, Changed, NewTarget, expired)
            \/ Ctl.mode = "Error" /\ ErrorMode(Ctl, Changed, expired)
         /\ UNCHANGED <<host, motor>>
  BY DEF FW_ControllerProcess, Ctl0, Queue0, Ctl1, Ctl2, Queue1, Changed, NewTarget, Ctl

CtlType ==
  [mode : Modes, last : Modes, available : BOOLEAN, newMode : {"Velocity", "Position", "Error"},
   newTarget : Targets, requested : Targets, ready : BOOLEAN]

(* A command in the queue can be taken for what the registers ask.         *)
LEMMA Ctl1Is ==
  ASSUME TypeOK, RecoveryInv, ~reset
  PROVE  /\ Ctl0 = ctl /\ Queue0 = queue /\ Ctl1 \in CtlType
         /\ Ctl1.mode = ctl.mode /\ Ctl1.last = ctl.mode /\ Ctl1.ready = ctl.ready
         /\ Ctl1.requested = ctl.requested
         /\ \/ /\ Ctl1 = ctl /\ Queue1 = queue
               /\ queue = NoCommand \/ ctl.available \/ ~ctl.ready
            \/ /\ queue # NoCommand /\ ~ctl.available /\ ctl.ready /\ Queue1 = NoCommand
               /\ Ctl1.newMode = queue.mode /\ Ctl1.newTarget = queue.target /\ Ctl1.available
<1>1. Ctl0 = ctl /\ Queue0 = queue /\ ctl \in CtlType /\ ctl.last = ctl.mode
  BY DEF Ctl0, Queue0, TypeOK, CtlType, RecoveryInv
<1>2. CASE Taken(ctl, queue)
  <2>1. /\ queue # NoCommand /\ ~ctl.available /\ ctl.ready /\ queue \in Queueable
        /\ Queue1 = NoCommand
    BY <1>1, <1>2 DEF Taken, TypeOK, Queue1
  <2>2. queue.mode \in {"Velocity", "Position", "Error"} /\ queue.target \in Targets
    BY <2>1 DEF Queueable
  <2> DEFINE m == queue.mode
             t == queue.target
             true == TRUE
  <2>3. Ctl1 = [ctl EXCEPT !.newMode = m, !.newTarget = t, !.available = true]
    BY <1>1, <1>2 DEF Ctl1, AfterQueue
  <2>4. m \in {"Velocity", "Position", "Error"} /\ t \in Targets /\ true \in BOOLEAN
    BY <2>2
  <2> HIDE DEF m, t, true
  <2>5. /\ Ctl1 \in CtlType /\ Ctl1.mode = ctl.mode /\ Ctl1.last = ctl.last
        /\ Ctl1.ready = ctl.ready /\ Ctl1.requested = ctl.requested
        /\ Ctl1.newMode = m /\ Ctl1.newTarget = t /\ Ctl1.available = true
    BY <1>1, <2>3, <2>4 DEF CtlType
  <2> QED
    BY <1>1, <2>1, <2>5 DEF m, t, true
<1>3. CASE ~Taken(ctl, queue)
  <2>1. Ctl1 = ctl /\ Queue1 = queue
    BY <1>1, <1>3 DEF Ctl1, AfterQueue, Queue1
  <2>2. queue = NoCommand \/ ctl.available \/ ~ctl.ready
    BY <1>3 DEF Taken
  <2> QED
    BY <1>1, <2>1, <2>2
<1> QED
  BY <1>2, <1>3

(* The mode the call is in when no error has been reported.                *)
LEMMA SwitchedIs ==
  ASSUME NEW c \in CtlType
  PROVE  /\ Switched(c) \in CtlType /\ Switched(c).last = c.last /\ Switched(c).ready = c.ready
         /\ Switched(c).newMode = c.newMode /\ Switched(c).newTarget = c.newTarget
         /\ Switched(c).available => c.available
         /\ \/ /\ c.mode = "Startup" /\ Switched(c).mode = "Init"
            \/ /\ c.mode = "Init" /\ c.ready /\ Switched(c).mode = "Idle"
            \/ /\ c.mode = "Idle" /\ c.ready /\ c.available /\ Switched(c).mode = c.newMode
               /\ ~Switched(c).available /\ Switched(c).requested = c.newTarget
            \/ /\ SameMode(c) /\ Switched(c).mode = c.mode
               /\ ~Switched(c).available /\ Switched(c).requested = c.newTarget
            \/ /\ c.mode \in {"Velocity", "Position"} /\ c.ready /\ c.available
               /\ Switched(c).mode = "Idle" /\ ~SameMode(c)
            \/ c.mode = "Error" /\ c.ready /\ Switched(c).mode = "Startup"
            \/ /\ Switched(c) = c /\ c.mode # "Startup"
               /\ c.ready => c.mode \notin {"Init", "Error"}
               /\ (c.ready /\ c.mode \in {"Velocity", "Position", "Idle"}) => ~c.available
<1> DEFINE init == "Init"
           idle == "Idle"
           startup == "Startup"
           false == FALSE
<1>1. init \in Modes /\ idle \in Modes /\ startup \in Modes /\ false \in BOOLEAN
  BY DEF Modes
<1>2. CASE c.mode = "Startup"
  <2>1. Switched(c) = [c EXCEPT !.mode = init]
    BY <1>2 DEF Switched, SameMode
  <2> HIDE DEF init
  <2>2. Switched(c) \in CtlType
    BY <1>1, <2>1 DEF CtlType
  <2> QED
    BY <1>2, <2>1, <2>2 DEF CtlType, init
<1>3. CASE c.mode = "Init" /\ c.ready
  <2>1. Switched(c) = [c EXCEPT !.mode = idle]
    BY <1>3 DEF Switched, SameMode
  <2> HIDE DEF idle
  <2>2. Switched(c) \in CtlType
    BY <1>1, <2>1 DEF CtlType
  <2> QED
    BY <1>3, <2>1, <2>2 DEF CtlType, idle
<1>4. CASE c.mode = "Idle" /\ c.ready /\ c.available
  <2>1. Switched(c) = [c EXCEPT !.available = false, !.requested = c.newTarget, !.mode = c.newMode]
    BY <1>4 DEF Switched, SameMode
  <2> HIDE DEF false
  <2>2. Switched(c) \in CtlType
    BY <1>1, <2>1 DEF CtlType, Modes
  <2> QED
    BY <1>4, <2>1, <2>2 DEF CtlType, false
<1>5. CASE SameMode(c)
  <2>1. Switched(c) = [c EXCEPT !.available = false, !.requested = c.newTarget]
    BY <1>5 DEF Switched, SameMode
  <2> HIDE DEF false
  <2>2. Switched(c) \in CtlType
    BY <1>1, <2>1 DEF CtlType
  <2> QED
    BY <1>5, <2>1, <2>2 DEF CtlType, false
<1>6. CASE c.mode \in {"Velocity", "Position"} /\ c.ready /\ c.available /\ ~SameMode(c)
  <2>1. Switched(c) = [c EXCEPT !.mode = idle]
    BY <1>6 DEF Switched, SameMode
  <2> HIDE DEF idle
  <2>2. Switched(c) \in CtlType
    BY <1>1, <2>1 DEF CtlType
  <2> QED
    BY <1>6, <2>1, <2>2 DEF CtlType, idle
<1>7. CASE c.mode = "Error" /\ c.ready
  <2>1. Switched(c) = [c EXCEPT !.mode = startup]
    BY <1>7 DEF Switched, SameMode
  <2> HIDE DEF startup
  <2>2. Switched(c) \in CtlType
    BY <1>1, <2>1 DEF CtlType
  <2> QED
    BY <1>7, <2>1, <2>2 DEF CtlType, startup
<1>8. CASE /\ c.mode # "Startup" /\ (c.ready => c.mode \notin {"Init", "Error"})
           /\ (c.ready /\ c.mode \in {"Velocity", "Position", "Idle"}) => ~c.available
  BY <1>8 DEF Switched, SameMode
<1> QED
  BY <1>2, <1>3, <1>4, <1>5, <1>6, <1>7, <1>8

(* Without a reset and without an error the mode is the one switched to.   *)
LEMMA CtlIs ==
  ASSUME TypeOK, RecoveryInv
  PROVE  /\ Ctl \in CtlType /\ Ctl.last = Ctl.mode
         /\ reset => /\ Ctl.mode \in {"Init", "Error"} /\ Changed /\ Queue1 = NoCommand
                     /\ ~Ctl0.ready /\ ~Ctl.available
         /\ err => Ctl.mode = "Error"
         /\ Queue1 \in {NoCommand, queue}
         /\ (Ctl.available /\ Ctl.newMode = "Velocity") =>
              \/ ctl.available /\ ctl.newMode = "Velocity" /\ Ctl.newTarget = ctl.newTarget
              \/ queue # NoCommand /\ queue.mode = "Velocity" /\ Ctl.newTarget = queue.target
         /\ ~reset /\ ~err =>
              LET s == Switched(Ctl1) IN
              /\ Ctl.mode = s.mode /\ Ctl.available = s.available /\ Ctl.newMode = s.newMode
              /\ Ctl.newTarget = s.newTarget /\ Ctl.requested = s.requested
              /\ Ctl.ready = s.ready /\ (Changed <=> s.mode # ctl.mode)
<1> DEFINE error == "Error"
<1>0. error \in Modes
  BY DEF Modes
<1>1. ASSUME NEW c \in CtlType PROVE /\ InError(c) \in CtlType /\ InError(c).last = c.last
             /\ InError(c).available = c.available
             /\ InError(c).newMode = c.newMode /\ InError(c).newTarget = c.newTarget
             /\ InError(c).requested = c.requested /\ InError(c).ready = c.ready
             /\ InError(c).mode = IF err THEN "Error" ELSE c.mode
  <2>1. InError(c) = IF err THEN [c EXCEPT !.mode = error] ELSE c
    BY DEF InError
  <2> HIDE DEF error
  <2>2. CASE err
    BY <1>0, <1>1, <2>1, <2>2 DEF CtlType, error
  <2>3. CASE ~err
    BY <1>1, <2>1, <2>3
  <2> QED
    BY <2>2, <2>3
<1>2. ASSUME Ctl2 \in CtlType
      PROVE  /\ Ctl \in CtlType /\ Ctl.last = Ctl.mode /\ Ctl.mode = Ctl2.mode
             /\ Ctl.available = Ctl2.available /\ Ctl.newMode = Ctl2.newMode
             /\ Ctl.newTarget = Ctl2.newTarget /\ Ctl.requested = Ctl2.requested
             /\ Ctl.ready = Ctl2.ready
  BY <1>2 DEF Ctl, CtlType
<1>3. CASE reset
  <2> DEFINE f == Fresh(ctl)
  <2>1. /\ f \in CtlType /\ f.mode = "Startup" /\ f.last = "Startup"
        /\ f.available = FALSE /\ f.ready = FALSE
    <3> DEFINE startup == "Startup"
               false == FALSE
    <3>1. /\ startup \in Modes /\ false \in BOOLEAN /\ posSetpoint \in Targets /\ ctl \in CtlType
      BY DEF Modes, TypeOK, Targets, RawPositions, CtlType
    <3>2. f = [ctl EXCEPT !.mode = startup, !.last = startup, !.available = false,
                          !.ready = false, !.newTarget = posSetpoint]
      BY DEF Fresh
    <3> HIDE DEF startup, false, f
    <3>3. /\ f \in CtlType /\ f.mode = startup /\ f.last = startup
          /\ f.available = false /\ f.ready = false
      BY <3>1, <3>2 DEF CtlType
    <3> QED
      BY <3>3 DEF startup, false
  <2>2. Ctl0 = f /\ Queue0 = NoCommand
    BY <1>3 DEF Ctl0, Queue0
  <2>3. ~Taken(Ctl0, Queue0)
    BY <2>2 DEF Taken
  <2>4. Ctl1 = f /\ Queue1 = NoCommand
    BY <2>2, <2>3 DEF Ctl1, AfterQueue, Queue1
  <2> HIDE DEF f
  <2>5. Switched(f) \in CtlType /\ Switched(f).last = "Startup" /\ Switched(f).mode = "Init"
        /\ ~Switched(f).available
    BY <2>1, SwitchedIs DEF SameMode
  <2>6. /\ Ctl2 \in CtlType /\ Ctl2.last = "Startup" /\ Ctl2.mode \in {"Init", "Error"}
        /\ (err => Ctl2.mode = "Error") /\ ~Ctl2.available
    BY <1>1, <2>4, <2>5 DEF Ctl2
  <2>7. Changed
    BY <2>6 DEF Changed
  <2> QED
    BY <1>2, <1>3, <2>1, <2>2, <2>4, <2>6, <2>7
<1>4. CASE ~reset
  <2> DEFINE s == Switched(Ctl1)
  <2>1. Ctl1 \in CtlType /\ Ctl1.last = ctl.mode
        /\ (Ctl1.available /\ Ctl1.newMode = "Velocity" =>
              \/ ctl.available /\ ctl.newMode = "Velocity" /\ Ctl1.newTarget = ctl.newTarget
              \/ queue # NoCommand /\ queue.mode = "Velocity" /\ Ctl1.newTarget = queue.target)
        /\ Queue1 \in {NoCommand, queue}
    BY <1>4, Ctl1Is
  <2>2. s \in CtlType /\ s.last = ctl.mode /\ s.newMode = Ctl1.newMode /\ s.newTarget = Ctl1.newTarget
    BY <2>1, SwitchedIs
  <2>2a. s.available => Ctl1.available
    BY <2>1, SwitchedIs
  <2> HIDE DEF s
  <2>3. /\ Ctl2 \in CtlType /\ Ctl2.last = s.last /\ Ctl2.available = s.available
        /\ Ctl2.newMode = s.newMode /\ Ctl2.newTarget = s.newTarget
        /\ Ctl2.requested = s.requested /\ Ctl2.ready = s.ready
        /\ Ctl2.mode = IF err THEN "Error" ELSE s.mode
    BY <1>1, <2>2 DEF Ctl2, s
  <2>4. ~err => (Changed <=> s.mode # ctl.mode)
    BY <2>2, <2>3 DEF Changed
  <2> QED
    BY <1>2, <1>4, <2>1, <2>2, <2>2a, <2>3, <2>4 DEF s
<1> QED
  BY <1>3, <1>4

(* How a call without a reset or an error goes from one mode to another.   *)
LEMMA Transitions ==
  ASSUME TypeOK, RecoveryInv, ~reset, ~err
  PROVE  /\ Ctl0 = ctl /\ Queue0 = queue /\ (Changed <=> Ctl.mode # ctl.mode)
         /\ \/ ctl.mode = "Startup" /\ Ctl.mode = "Init"
            \/ ctl.mode = "Init" /\ ctl.ready /\ Ctl.mode = "Idle"
            \/ ctl.mode = "Error" /\ ctl.ready /\ Ctl.mode = "Startup"
            \/ /\ ctl.mode = "Idle" /\ ctl.ready /\ Ctl.mode \in {"Velocity", "Position", "Error"}
               /\ ~Ctl.available /\ ~NewTarget
               /\ \/ ctl.available /\ Queue1 = queue /\ Ctl.mode = ctl.newMode
                     /\ Ctl.requested = ctl.newTarget
                  \/ queue # NoCommand /\ Ctl.mode = queue.mode /\ Ctl.requested = queue.target
            \/ ctl.mode \in {"Velocity", "Position"} /\ ctl.ready /\ Ctl.mode = "Idle"
            \/ /\ ctl.mode \in {"Velocity", "Position"} /\ ctl.ready /\ Ctl.mode = ctl.mode
               /\ ~Ctl.available /\ (NewTarget => Ctl.requested # ctl.requested)
               /\ (Ctl.requested # ctl.requested => NewTarget)
               /\ \/ ctl.available
                  \/ queue # NoCommand /\ Ctl.mode = queue.mode /\ Ctl.requested = queue.target
            \/ /\ Ctl.mode = ctl.mode /\ Ctl.requested = ctl.requested /\ ~NewTarget
               /\ ctl.mode # "Startup" /\ (ctl.ready => ctl.mode \notin {"Init", "Error"})
               /\ ctl.mode \in {"Velocity", "Position"} =>
                    Ctl.available = ctl.available /\ Queue1 = queue
<1> DEFINE s == Switched(Ctl1)
<1>1. /\ Ctl0 = ctl /\ Queue0 = queue /\ Ctl1 \in CtlType
      /\ Ctl1.mode = ctl.mode /\ Ctl1.last = ctl.mode /\ Ctl1.ready = ctl.ready
      /\ Ctl1.requested = ctl.requested
      /\ \/ /\ Ctl1 = ctl /\ Queue1 = queue
            /\ queue = NoCommand \/ ctl.available \/ ~ctl.ready
         \/ /\ queue # NoCommand /\ ~ctl.available /\ ctl.ready /\ Queue1 = NoCommand
            /\ Ctl1.newMode = queue.mode /\ Ctl1.newTarget = queue.target /\ Ctl1.available
  BY Ctl1Is
<1>2. /\ Ctl.mode = s.mode /\ Ctl.available = s.available /\ Ctl.newMode = s.newMode
      /\ Ctl.newTarget = s.newTarget /\ Ctl.requested = s.requested
      /\ Ctl.ready = s.ready /\ (Changed <=> s.mode # ctl.mode)
  BY CtlIs
<1>3. /\ s \in CtlType /\ s.newTarget = Ctl1.newTarget
      /\ \/ Ctl1.mode = "Startup" /\ s.mode = "Init"
         \/ Ctl1.mode = "Init" /\ Ctl1.ready /\ s.mode = "Idle"
         \/ /\ Ctl1.mode = "Idle" /\ Ctl1.ready /\ Ctl1.available /\ s.mode = Ctl1.newMode
            /\ ~s.available /\ s.requested = Ctl1.newTarget
         \/ SameMode(Ctl1) /\ s.mode = Ctl1.mode /\ ~s.available /\ s.requested = Ctl1.newTarget
         \/ /\ Ctl1.mode \in {"Velocity", "Position"} /\ Ctl1.ready /\ Ctl1.available
            /\ s.mode = "Idle" /\ ~SameMode(Ctl1)
         \/ Ctl1.mode = "Error" /\ Ctl1.ready /\ s.mode = "Startup"
         \/ /\ s = Ctl1 /\ Ctl1.mode # "Startup"
            /\ Ctl1.ready => Ctl1.mode \notin {"Init", "Error"}
            /\ (Ctl1.ready /\ Ctl1.mode \in {"Velocity", "Position", "Idle"}) => ~Ctl1.available
  BY <1>1, SwitchedIs
<1> HIDE DEF s
<1>4. Ctl1.newMode \in {"Velocity", "Position", "Error"}
  BY <1>1 DEF CtlType
<1>5. NewTarget <=> SameMode(Ctl1) /\ Ctl1.newTarget # Ctl1.requested
  BY DEF NewTarget
<1>6. SameMode(Ctl1) <=> Ctl1.mode \in {"Velocity", "Position"} /\ Ctl1.ready /\ Ctl1.available
                          /\ Ctl1.newMode = Ctl1.mode
  BY DEF SameMode
<1> QED
  BY <1>1, <1>2, <1>3, <1>4, <1>5, <1>6

(* A working mode without an error is in a state of its own machine.       *)
LEMMA NotFailed ==
  ASSUME TypeOK, ~reset, ~err, ctl.mode \in {"Velocity", "Position"}
  PROVE  sub # "failed" /\ sub \in SubOf(ctl.mode)
<1>1. sub \in SubOf(ctl.mode)
  BY DEF TypeOK
<1>2. "failed" \notin SubOf("Velocity") /\ "failed" \notin SubOf("Position")
  BY DEF SubOf
<1> QED
  BY <1>1, <1>2

(* What each mode function finds.                                          *)
LEMMA EntryStartup ==
  ASSUME IInv, Ctl.mode = "Startup"
  PROVE  Quiet
<1>1. ~reset /\ ~err
  BY CtlIs DEF IInv
<1> QED
  BY <1>1, Transitions DEF IInv, RecoveryInv

(* The initialisation starts with a quiet link.                            *)
LEMMA EntryInit ==
  ASSUME IInv, Ctl.mode = "Init"
  PROVE  /\ Changed => Quiet
         /\ ~Changed => ctl.mode = "Init" /\ sub \in SubOf("Init") /\ ~reset
         /\ ~err
<1>1. ~err
  BY CtlIs DEF IInv
<1>2. CASE reset
  BY <1>1, <1>2, CtlIs DEF IInv, RecoveryInv
<1>3. CASE ~reset
  <2>1. ctl.mode \in {"Startup", "Init"} /\ (Changed <=> ctl.mode = "Startup")
    BY <1>1, <1>3, Transitions DEF IInv
  <2> QED
    BY <1>1, <1>3, <2>1 DEF IInv, TypeOK, RecoveryInv, SubOf
<1> QED
  BY <1>2, <1>3

(* The idle mode is entered with a quiet link and a homed wheel.           *)
LEMMA EntryIdle ==
  ASSUME IInv, Ctl.mode = "Idle"
  PROVE  Quiet /\ Coasting /\ wheel.homed
<1>1. ~reset /\ ~err
  BY CtlIs DEF IInv
<1>2. \/ ctl.mode = "Init" /\ ctl.ready
      \/ ctl.mode \in {"Velocity", "Position"} /\ ctl.ready
      \/ ctl.mode = "Idle"
  BY <1>1, Transitions DEF IInv
<1>3. CASE ctl.mode = "Init" /\ ctl.ready
  BY <1>3 DEF IInv, InitInv, Free, AtHome, WheelAtRest, Coasting
<1>4. CASE ctl.mode = "Velocity" /\ ctl.ready
  BY <1>1, <1>4, NotFailed DEF IInv, VelocityInv, Clear
<1>5. CASE ctl.mode = "Position" /\ ctl.ready
  BY <1>1, <1>5, NotFailed DEF IInv, PositionInv, Clear, AtTarget, WheelAtRest, Coasting
<1>6. CASE ctl.mode = "Idle"
  BY <1>6 DEF IInv, IdleInv, Clear
<1> QED
  BY <1>2, <1>3, <1>4, <1>5, <1>6

(* A command reaches the velocity mode from the idle mode, or when the     *)
(* speed before is reached.                                                *)
LEMMA EntryVelocity ==
  ASSUME IInv, Ctl.mode = "Velocity"
  PROVE  /\ ~err /\ ~reset /\ Ctl.requested \in Speeds /\ wheel.homed
         /\ Changed => Clear /\ Coasting /\ ~NewTarget
         /\ ~Changed => /\ ctl.mode = "Velocity" /\ VelocityInv /\ sub \in SubOf("Velocity")
                        /\ sub # "failed"
         /\ NewTarget => sub = "ready" /\ Ctl.requested # ctl.requested
         /\ ~Changed /\ ~NewTarget => Ctl.requested = ctl.requested
<1>1. ~reset /\ ~err
  BY CtlIs DEF IInv
<1>2. /\ ctl.mode \in {"Idle", "Velocity"} /\ (Changed <=> ctl.mode = "Idle") /\ (ctl.mode = "Idle" => ~NewTarget)
      /\ NewTarget => ctl.ready /\ Ctl.requested # ctl.requested
      /\ ~Changed /\ ~NewTarget => Ctl.requested = ctl.requested
  BY <1>1, Transitions DEF IInv
<1>3. ctl.mode = "Idle" => Ctl.requested \in Speeds
  BY <1>1, <1>2, Transitions DEF IInv, QueueInv, TypeOK
<1>4. ctl.mode = "Velocity" => Ctl.requested \in Speeds
  <2>1. queue # NoCommand /\ queue.mode = "Velocity" => queue.target \in Speeds
    BY DEF IInv, QueueInv
  <2> QED
    BY <1>1, <1>2, <2>1, NotFailed, Transitions DEF IInv, QueueInv, VelocityInv
<1> QED
  BY <1>1, <1>2, <1>3, <1>4, NotFailed DEF IInv, VelocityInv, IdleInv

(* The same of the position mode.                                          *)
LEMMA EntryPosition ==
  ASSUME IInv, Ctl.mode = "Position"
  PROVE  /\ ~err /\ ~reset /\ wheel.homed
         /\ Changed => Clear /\ Coasting /\ ~NewTarget
         /\ ~Changed => /\ ctl.mode = "Position" /\ PositionInv /\ sub \in SubOf("Position")
                        /\ sub # "failed"
         /\ NewTarget => sub = "ready" /\ Ctl.requested # ctl.requested
         /\ ~Changed /\ ~NewTarget => Ctl.requested = ctl.requested
<1>1. ~reset /\ ~err
  BY CtlIs DEF IInv
<1>2. /\ ctl.mode \in {"Idle", "Position"} /\ (Changed <=> ctl.mode = "Idle") /\ (ctl.mode = "Idle" => ~NewTarget)
      /\ NewTarget => ctl.ready /\ Ctl.requested # ctl.requested
      /\ ~Changed /\ ~NewTarget => Ctl.requested = ctl.requested
  BY <1>1, Transitions DEF IInv
<1> QED
  BY <1>1, <1>2, NotFailed DEF IInv, PositionInv, IdleInv

(* Past the dispatch a mode function only changes modeReady.               *)
LEMMA CallStatics ==
  ASSUME IInv, NEW expired \in BOOLEAN, FW_ControllerProcess(expired)
  PROVE  /\ ctl' \in CtlType /\ ctl'.last = ctl'.mode /\ ctl'.mode = Ctl.mode
         /\ ctl'.available = Ctl.available /\ ctl'.newMode = Ctl.newMode
         /\ ctl'.newTarget = Ctl.newTarget /\ ctl'.requested = Ctl.requested
<1>1. Ctl \in CtlType /\ Ctl.last = Ctl.mode
  BY CtlIs DEF IInv
<1>2. \E r : (r \in BOOLEAN /\ ctl' = [Ctl EXCEPT !.ready = r]) \/ ctl' = Ctl
  <2>1. CASE StartupMode(Ctl)
    BY <2>1 DEF StartupMode
  <2>2. CASE InitialisationMode(Ctl, Changed, expired)
    <3> DEFINE r == (IF Changed THEN "setup" ELSE sub) = "done"
    <3>1. r \in BOOLEAN
      OBVIOUS
    <3>2. ctl' = [Ctl EXCEPT !.ready = r]
      BY <2>2 DEF InitialisationMode
    <3> HIDE DEF r
    <3> QED
      BY <3>1, <3>2
  <2>3. CASE IdleMode(Ctl)
    <3> DEFINE r == TRUE
    <3>1. ctl' = [Ctl EXCEPT !.ready = r] /\ r \in BOOLEAN
      BY <2>3 DEF IdleMode
    <3> HIDE DEF r
    <3> QED
      BY <3>1
  <2>4. CASE VelocityMode(Ctl, Changed, NewTarget, expired)
    <3>1. \E x : ctl' = [Ctl EXCEPT !.ready = x = "ready"]
      BY <2>4 DEF VelocityMode
    <3>2. PICK x : ctl' = [Ctl EXCEPT !.ready = x = "ready"]
      BY <3>1
    <3> DEFINE r == x = "ready"
    <3>3. r \in BOOLEAN /\ ctl' = [Ctl EXCEPT !.ready = r]
      BY <3>2
    <3> HIDE DEF r
    <3> QED
      BY <3>3
  <2>5. CASE PositionMode(Ctl, Changed, NewTarget, expired)
    <3>1. \E x : ctl' = [Ctl EXCEPT !.ready = x = "ready"]
      BY <2>5 DEF PositionMode
    <3>2. PICK x : ctl' = [Ctl EXCEPT !.ready = x = "ready"]
      BY <3>1
    <3> DEFINE r == x = "ready"
    <3>3. r \in BOOLEAN /\ ctl' = [Ctl EXCEPT !.ready = r]
      BY <3>2
    <3> HIDE DEF r
    <3> QED
      BY <3>3
  <2>6. CASE ErrorMode(Ctl, Changed, expired)
    <3> DEFINE runs == err \/ (errorTimer /\ ~Changed)
               r == runs /\ ~err /\ expired
    <3>1. ctl' = [Ctl EXCEPT !.ready = r] /\ r \in BOOLEAN
      BY <2>6 DEF ErrorMode
    <3> HIDE DEF r
    <3> QED
      BY <3>1
  <2> QED
    BY <2>1, <2>2, <2>3, <2>4, <2>5, <2>6, CallIs
<1>3. PICK r : (r \in BOOLEAN /\ ctl' = [Ctl EXCEPT !.ready = r]) \/ ctl' = Ctl
  BY <1>2
<1> QED
  BY <1>1, <1>3 DEF CtlType

(* The commands, and the acknowledgements that are waited for.             *)
LEMMA CommandIs ==
  ASSUME NEW c
  PROVE  /\ c.mode = "Position" => CommandOf(c, "stop") = StopMove
         /\ c.mode # "Position" => CommandOf(c, "stop") = StopFirst
         /\ CommandOf(c, "velocity") =
              [kind |-> "velocity", target |-> c.requested, notify |-> FALSE]
         /\ CommandOf(c, "query") = [kind |-> "query", what |-> c.mode]
         /\ CommandOf(c, "gain") = [kind |-> "gain"]
         /\ CommandOf(c, "enable") = [kind |-> "enable"]
         /\ CommandOf(c, "disable") = [kind |-> "disable"]
         /\ CommandOf(c, "home") = [kind |-> "home"]
  BY DEF CommandOf, StopMove, StopFirst

(* A command sent on a free link is the only one, and waits for one        *)
(* acknowledgement.                                                        *)
LEMMA SendIs ==
  ASSUME NEW c, NEW s, Quiet, expected = 0, Send(c, s)
  PROVE  /\ line' = CommandOf(c, s) /\ sub' = AckOf[s] /\ UNCHANGED <<responses, err, faults>>
         /\ expected' = IF CommandOf(c, s).kind = "query" THEN 0 ELSE 1
  BY DEF Send, Command, Quiet

(* Waiting for an acknowledgement: it has come, the state waits on, or its *)
(* timer has expired.                                                      *)
LEMMA AwaitIs ==
  ASSUME TypeOK, expected = 1, line # NoCommand \/ Notices \/ OneAck,
         NEW c, NEW s, NEW expired \in BOOLEAN, AwaitAck(c, s, expired), expected' = AcksLeft
  PROVE  \/ /\ expected' = 0 /\ line = NoCommand /\ OneAck /\ sub' = AfterAck(c, s)
            /\ responses' = Tail(responses) /\ responses # <<>> /\ responses[1] = Ack
            /\ \A i \in 1..Len(Tail(responses)) : Tail(responses)[i].kind = "notify"
            /\ err' = err
         \/ /\ expected' = 1 /\ responses' = responses
            /\ \/ sub' = s /\ err' = err
               \/ sub' = "failed" /\ err' = TRUE
  BY AckOrWait DEF AwaitAck, Wait

-----------------------------------------------------------------------------
(* The mode functions.                                                     *)

(* What a call leaves to the next one, queue and mode changes apart.       *)
CallOK ==
  /\ sub \in SubOf(ctl.mode) \/ (sub = "failed" /\ (err \/ reset))
  /\ err \in BOOLEAN /\ errorTimer \in BOOLEAN
  /\ lastTarget \in Speeds \cup {0} /\ verifyPos \in BOOLEAN /\ backlashMode \in BOOLEAN
  /\ rawPosition \in Int /\ shown \in Filters \cup {Transition}
  /\ LinkTypeOK
  /\ ShownInv /\ InitInv /\ IdleInv /\ VelocityInv /\ PositionInv

(* FWP_FilterWheelInTransition is no filter.                               *)
LEMMA TransitionIsNoFilter == Transition \notin Filters
  BY WheelAssumption DEF Transition

(* FH_consumeResponses on a quiet link leaves nothing on it.               *)
LEMMA ConsumedIs ==
  ASSUME Quiet, ConsumeResponses, UNCHANGED <<line, motor>>, TypeOK
  PROVE  Clear' /\ LinkTypeOK' /\ wheel' = wheel
BY DEF Quiet, Clear, ConsumeResponses, TypeOK, LinkTypeOK

(* FWStartupMode drops what was received.                                  *)
LEMMA StartupCall ==
  ASSUME IInv, NEW expired \in BOOLEAN, FW_ControllerProcess(expired), Ctl.mode = "Startup"
  PROVE  CallOK'
<1>1. StartupMode(Ctl) /\ UNCHANGED motor /\ ctl'.mode = "Startup" /\ TypeOK
  BY CallIs, CallStatics DEF IInv
<1>2. Quiet
  BY EntryStartup
<1>3. /\ ConsumeResponses /\ shown' = Transition
      /\ UNCHANGED <<err, errorTimer, sub, lastTarget, verifyPos, backlashMode, rawPosition, line>>
  BY <1>1 DEF StartupMode
<1>4. LinkTypeOK'
  BY <1>1, <1>2, <1>3, ConsumedIs
<1>5. sub' \in SubOf(ctl.mode)'
  BY <1>1, <1>3 DEF SubOf
<1>6. ShownInv' /\ InitInv' /\ IdleInv' /\ VelocityInv' /\ PositionInv'
  BY <1>1, <1>3, TransitionIsNoFilter DEF ShownInv, InitInv, IdleInv, VelocityInv, PositionInv
<1> QED
  BY <1>1, <1>3, <1>4, <1>5, <1>6 DEF CallOK, TypeOK

(* FWErrorMode is ready once the link is quiet.                            *)
LEMMA ErrorCall ==
  ASSUME IInv, NEW expired \in BOOLEAN, FW_ControllerProcess(expired), Ctl.mode = "Error"
  PROVE  CallOK' /\ (ctl'.ready => Quiet')
<1>1. /\ ErrorMode(Ctl, Changed, expired) /\ UNCHANGED motor /\ ctl'.mode = "Error" /\ TypeOK
      /\ Ctl \in CtlType
  BY CallIs, CallStatics, CtlIs DEF IInv
<1>3. /\ expired => Quiet
      /\ shown' = Transition /\ err' = FALSE /\ errorTimer' \in BOOLEAN
      /\ UNCHANGED <<sub, lastTarget, verifyPos, backlashMode, rawPosition, line, expected,
                     responses>>
  BY <1>1 DEF ErrorMode, TypeOK, Quiet
<1>2. ctl'.ready => expired
  <2> DEFINE r == (err \/ (errorTimer /\ ~Changed)) /\ ~err /\ expired
  <2>1. ctl' = [Ctl EXCEPT !.ready = r]
    BY <1>1 DEF ErrorMode
  <2>2. r => expired
    OBVIOUS
  <2> HIDE DEF r
  <2> QED
    BY <1>1, <2>1, <2>2 DEF CtlType
<1>4. LinkTypeOK' /\ (ctl'.ready => Quiet')
  BY <1>1, <1>2, <1>3 DEF TypeOK, LinkTypeOK, Quiet
<1>5. sub' \in SubOf(ctl.mode)'
  BY <1>1, <1>3 DEF SubOf
<1>6. ShownInv' /\ InitInv' /\ IdleInv' /\ VelocityInv' /\ PositionInv'
  BY <1>1, <1>3, TransitionIsNoFilter DEF ShownInv, InitInv, IdleInv, VelocityInv, PositionInv
<1> QED
  BY <1>1, <1>3, <1>4, <1>5, <1>6 DEF CallOK, TypeOK

(* What the registers ask for suits FWMode.                                *)
LEMMA ByRegistersIs ==
  ASSUME TypeOK
  PROVE  /\ ByRegisters \in CommandType
         /\ fwMode = (IF ByRegisters.mode = "Position" THEN "Fixed" ELSE "Rotating")
         /\ ByRegisters.mode = (IF fwMode = "Fixed" THEN "Position" ELSE "Velocity")
         /\ ByRegisters.mode = "Velocity" => ByRegisters.target \in Speeds
<1>1. CASE fwMode = "Fixed"
  BY <1>1, CommandsAre DEF TypeOK, ByRegisters
<1>2. CASE fwMode = "Rotating"
  BY <1>2, CommandsAre DEF TypeOK, ByRegisters
<1> QED
  BY <1>1, <1>2 DEF TypeOK

(* FWIdleMode queues a command for the registers as they are now.          *)
LEMMA IdleCall ==
  ASSUME IInv, NEW expired \in BOOLEAN, FW_ControllerProcess(expired), Ctl.mode = "Idle"
  PROVE  /\ CallOK' /\ queue' \in Queueable /\ asked' = ByRegisters
         /\ queue'.target = asked'.target
         /\ queue'.mode = asked'.mode \/ (queue'.mode = "Error" /\ asked'.mode = "Velocity")
<1>1. IdleMode(Ctl) /\ UNCHANGED motor /\ ctl'.mode = "Idle" /\ TypeOK
  BY CallIs, CallStatics DEF IInv
<1>2. Quiet /\ Coasting /\ wheel.homed
  BY EntryIdle
<1>3. /\ ConsumeResponses /\ shown' = Transition
      /\ UNCHANGED <<errorTimer, sub, lastTarget, verifyPos, backlashMode, rawPosition, line>>
      /\ ChangeFWControllerMode(fwMode, ByRegisters)
  BY <1>1 DEF IdleMode
<1>4. LinkTypeOK' /\ Clear' /\ Coasting' /\ wheel'.homed
  BY <1>1, <1>2, <1>3, ConsumedIs DEF Coasting
<1>5. sub' \in SubOf(ctl.mode)'
  BY <1>1, <1>3 DEF SubOf
<1>6. /\ ByRegisters \in CommandType
      /\ fwMode = (IF ByRegisters.mode = "Position" THEN "Fixed" ELSE "Rotating")
      /\ err \in BOOLEAN /\ fastAllowed \in BOOLEAN
  BY <1>1, ByRegistersIs DEF TypeOK
<1> HIDE DEF ByRegisters
<1>7. /\ queue' \in Queueable /\ queue' # NoCommand /\ err' \in BOOLEAN
      /\ asked' = ByRegisters /\ queue'.target = asked'.target
      /\ queue'.mode = asked'.mode \/ (queue'.mode = "Error" /\ asked'.mode = "Velocity")
  BY <1>3, <1>6, QueuedIs
<1>8. ShownInv' /\ InitInv' /\ IdleInv' /\ VelocityInv' /\ PositionInv'
  BY <1>1, <1>3, <1>4, <1>7, TransitionIsNoFilter
     DEF ShownInv, InitInv, IdleInv, VelocityInv, PositionInv
<1> QED
  BY <1>1, <1>3, <1>4, <1>5, <1>7, <1>8 DEF CallOK, TypeOK

(* The stops are commands.                                                 *)
LEMMA StopsAreCommands ==
  /\ StopCommand \in Commands /\ StopFirst \in Commands /\ StopMove \in Commands
  /\ StopFirst.kind = "velocity" /\ StopMove.kind = "velocity"
<1> DEFINE zero == 0
           one == 1
           true == TRUE
           false == FALSE
<1>1. zero \in Int /\ one \in Int /\ true \in BOOLEAN /\ false \in BOOLEAN
  OBVIOUS
<1>2. /\ StopCommand = [kind |-> "velocity", target |-> zero, notify |-> false]
      /\ StopFirst = [kind |-> "velocity", target |-> one, notify |-> false]
      /\ StopMove = [kind |-> "velocity", target |-> one, notify |-> true]
  BY DEF StopCommand, StopFirst, StopMove
<1> HIDE DEF zero, one, true, false
<1> QED
  BY <1>1, <1>2 DEF Commands

(* The initialisation: one command at a time, on a link whose earlier      *)
(* answers have been dropped.                                              *)
LEMMA InitCall ==
  ASSUME IInv, NEW expired \in BOOLEAN, FW_ControllerProcess(expired), Ctl.mode = "Init"
  PROVE  CallOK'
<1> DEFINE s == IF Changed THEN "setup" ELSE sub
<1>1. /\ InitialisationMode(Ctl, Changed, expired) /\ UNCHANGED <<host, motor>> /\ TypeOK
      /\ ctl'.mode = "Init" /\ Ctl \in CtlType /\ ~err
  BY CallIs, CallStatics, CtlIs, EntryInit DEF IInv
<1>2. /\ s \in SubOf("Init") /\ (s = "setup" => Quiet)
      /\ s # "setup" => s = sub /\ ctl.mode = "Init" /\ InitInv
  <2>1. CASE Changed
    BY <2>1, EntryInit DEF SubOf
  <2>2. CASE ~Changed
    BY <2>2, EntryInit DEF IInv, InitInv
  <2> QED
    BY <2>1, <2>2
<1>3. /\ ctl'.ready = (s = "done") /\ shown' = Transition
      /\ UNCHANGED <<errorTimer, lastTarget, verifyPos, backlashMode, rawPosition>>
  <2> DEFINE r == s = "done"
  <2>1. /\ ctl' = [Ctl EXCEPT !.ready = r] /\ shown' = Transition
        /\ UNCHANGED <<errorTimer, lastTarget, verifyPos, backlashMode, rawPosition>>
    BY <1>1 DEF InitialisationMode
  <2> HIDE DEF r
  <2>2. ctl'.ready = r
    BY <1>1, <2>1 DEF CtlType
  <2> QED
    BY <2>1, <2>2 DEF r
<1>4. \/ /\ s = "setup"
         /\ sub' = IF fwType = "sync" /\ wheel.speed # 0 THEN "stop" ELSE "gain"
         /\ ConsumeResponses /\ UNCHANGED <<line, err>>
      \/ s \in {"stop", "disable", "gain", "enable", "home"} /\ Send(Ctl, s)
      \/ /\ s \in {"stopAck", "disableAck", "gainAck", "enableAck", "homeAck"}
         /\ AwaitAck(Ctl, s, expired)
         /\ expected' = AcksLeft /\ UNCHANGED line
      \/ /\ s = "stopWait" /\ UNCHANGED <<line, expected, responses>>
         /\ \/ sub' \in {"disable", "stopWait"} /\ err' = err
            \/ sub' = "failed" /\ err' = TRUE
      \/ /\ s = "homeAck" /\ sub' = "failed" /\ err' = TRUE
         /\ responses' = AfterAcks /\ line' \in {line, StopCommand}
         /\ expected' \in {AcksLeft + 0, AcksLeft + 1}
      \/ /\ s = "homeSwitch" /\ responses' = IF Notified THEN Tail(responses) ELSE responses
         /\ \/ /\ Notified /\ Head(responses).of = "home" /\ sub' = "done"
               /\ UNCHANGED <<line, expected, err>>
            \/ sub' = "homeSwitch" /\ UNCHANGED <<line, expected, err>>
            \/ /\ sub' = "failed" /\ err' = TRUE
               /\ line' \in {line, StopCommand} /\ expected' \in {expected, expected + 1}
      \/ s = "done" /\ sub' = "done" /\ UNCHANGED <<line, expected, responses, err>>
  <2>1. \/ /\ s = "setup"
           /\ sub' = IF fwType = "sync" /\ wheel.speed # 0 THEN "stop" ELSE "gain"
           /\ ConsumeResponses /\ UNCHANGED <<line, err>>
        \/ s \in {"stop", "disable", "gain", "enable", "home"} /\ Send(Ctl, s)
        \/ /\ s \in {"stopAck", "disableAck", "gainAck", "enableAck"}
           /\ AwaitAck(Ctl, s, expired)
           /\ expected' = AcksLeft /\ UNCHANGED line
        \/ /\ s = "stopWait"
           /\ \/ Go("disable")
              \/ Wait(s, expired) /\ UNCHANGED <<line, expected, responses>>
        \/ /\ s = "homeAck"
           /\ IF AcksLeft # 0 /\ expired
              THEN /\ responses' = AfterAcks
                   /\ line' = IF line = NoCommand THEN StopCommand ELSE line
                   /\ expected' = AcksLeft + (IF line = NoCommand THEN 1 ELSE 0)
                   /\ Wait(s, expired)
              ELSE AwaitAck(Ctl, s, expired) /\ expected' = AcksLeft /\ UNCHANGED line
        \/ /\ s = "homeSwitch"
           /\ responses' = IF Notified THEN Tail(responses) ELSE responses
           /\ IF Notified /\ Head(responses).of = "home"
              THEN sub' = "done" /\ UNCHANGED <<line, expected, err>>
              ELSE /\ Wait(s, expired)
                   /\ line' = IF expired /\ line = NoCommand THEN StopCommand ELSE line
                   /\ expected' = IF expired /\ line = NoCommand THEN expected + 1
                                                                ELSE expected
        \/ s = "done" /\ Go(s)
    BY <1>1, Zenon DEF InitialisationMode
  <2>2. /\ Wait(s, expired) => IF expired THEN sub' = "failed" /\ err' = TRUE
                                         ELSE sub' = s /\ err' = err
        /\ \A t : Go(t) => sub' = t /\ UNCHANGED <<line, expected, responses, err>>
    BY Zenon DEF Wait, Go
  <2> HIDE DEF s
  <2> QED
    BY <2>1, <2>2
<1>5. ASSUME sub' \in SubOf("Init") \/ (sub' = "failed" /\ err'), err' \in BOOLEAN,
             LinkTypeOK', InitInv'
      PROVE  CallOK'
  <2>1. SubOf("Init") = SubOf("Init")'
    BY DEF SubOf
  <2>2. ShownInv' /\ IdleInv' /\ VelocityInv' /\ PositionInv'
    BY <1>1, <1>3, TransitionIsNoFilter DEF ShownInv, IdleInv, VelocityInv, PositionInv
  <2> QED
    BY <1>1, <1>3, <1>5, <2>1, <2>2 DEF CallOK, TypeOK
<1> HIDE DEF s
<1>6. LinkTypeOK /\ UNCHANGED <<todo, wheel>> /\ err \in BOOLEAN
  BY <1>1 DEF TypeOK
<1>7. CASE s = "setup"
  <2>1. /\ sub' \in {"stop", "gain"} /\ ConsumeResponses /\ UNCHANGED <<line, err>>
    BY <1>4, <1>7
  <2>2. Clear' /\ LinkTypeOK'
    BY <1>1, <1>2, <1>7, <2>1, ConsumedIs
  <2>3. Free'
    BY <2>2 DEF Clear, Free, Notices, Quiet
  <2> QED
    BY <1>1, <1>3, <1>5, <1>6, <1>7, <2>1, <2>2, <2>3 DEF InitInv, SubOf
<1>8. CASE s \in {"stop", "disable", "gain", "enable", "home"}
  <2>1. Free /\ (s = "home" => wheel.enabled)
    BY <1>2, <1>8 DEF InitInv
  <2>2. Send(Ctl, s)
    BY <1>4, <1>8
  <2> DEFINE cmd == CommandOf(Ctl, s)
  <2>3. /\ line' = cmd /\ sub' = AckOf[s] /\ responses' = responses /\ err' = err
        /\ expected' = IF cmd.kind = "query" THEN 0 ELSE 1
    BY <2>1, <2>2, SendIs DEF Free
  <2>4. /\ s = "stop" => cmd = StopFirst /\ sub' = "stopAck"
        /\ s # "stop" => cmd = [kind |-> s]
        /\ s = "disable" => sub' = "disableAck"
        /\ s = "gain" => sub' = "gainAck"
        /\ s = "enable" => sub' = "enableAck"
        /\ s = "home" => sub' = "homeAck"
    <3>1. sub' = AckOf[s]
      BY <2>3
    <3>2. /\ CommandOf(Ctl, "stop") = StopFirst
          /\ CommandOf(Ctl, "disable") = [kind |-> "disable"]
          /\ CommandOf(Ctl, "gain") = [kind |-> "gain"]
          /\ CommandOf(Ctl, "enable") = [kind |-> "enable"]
          /\ CommandOf(Ctl, "home") = [kind |-> "home"]
      BY CommandIs
    <3> QED
      BY <1>8, <3>1, <3>2 DEF AckOf
  <2>5. cmd.kind # "query" /\ cmd \in Commands
    <3>1. CASE s = "stop"
      BY <2>4, <3>1, StopsAreCommands
    <3>2. CASE s # "stop"
      BY <1>8, <2>4, <3>2 DEF Commands
    <3> QED
      BY <3>1, <3>2
  <2> HIDE DEF cmd
  <2>6. expected' = 1 /\ Notices' /\ todo' = <<>>
    BY <1>6, <2>1, <2>3, <2>5 DEF Free, Quiet, Notices
  <2>7. InitInv'
    BY <1>3, <1>6, <1>8, <2>1, <2>3, <2>4, <2>5, <2>6 DEF InitInv, Pending
  <2>8. LinkTypeOK'
    BY <1>6, <2>3, <2>5, <2>6 DEF LinkTypeOK
  <2> QED
    BY <1>5, <1>6, <1>8, <2>3, <2>4, <2>7, <2>8 DEF SubOf
<1>9. CASE s = "homeAck" /\ sub' = "failed" /\ err' = TRUE
           /\ responses' = AfterAcks /\ line' \in {line, StopCommand}
           /\ expected' \in {AcksLeft + 0, AcksLeft + 1}
  <2>1. expected = 1 /\ (line # NoCommand \/ Notices \/ OneAck)
    BY <1>2, <1>9 DEF InitInv, Pending, NoCommand
  <2>2. AcksLeft \in Nat /\ AfterAcks \in Seq(Responses)
    <3>1. responses \in Seq(Responses)
      BY <1>6 DEF LinkTypeOK
    <3>2. \/ AcksLeft = 0 /\ AfterAcks = Tail(responses) /\ responses # <<>>
          \/ AcksLeft = 1 /\ AfterAcks = responses
      BY <1>1, <2>1, AckOrWait
    <3> QED
      BY <3>1, <3>2
  <2>3. StopCommand \in Commands
    BY StopsAreCommands
  <2>4. LinkTypeOK'
    BY <1>6, <1>9, <2>2, <2>3 DEF LinkTypeOK
  <2> QED
    BY <1>3, <1>5, <1>9, <2>4 DEF InitInv
<1>10. CASE s \in {"stopAck", "disableAck", "gainAck", "enableAck", "homeAck"}
            /\ AwaitAck(Ctl, s, expired) /\ expected' = AcksLeft /\ UNCHANGED line
  <2>1. expected = 1 /\ (line # NoCommand \/ Notices \/ OneAck)
    BY <1>2, <1>10 DEF InitInv, Pending, NoCommand, StopFirst
  <2>2. Notices => ~OneAck
    BY DEF Notices, OneAck, Ack
  <2> DEFINE Got == /\ expected' = 0 /\ line = NoCommand /\ OneAck /\ sub' = AfterAck(Ctl, s)
                    /\ responses' = Tail(responses) /\ responses # <<>> /\ responses[1] = Ack
                    /\ \A i \in 1..Len(Tail(responses)) : Tail(responses)[i].kind = "notify"
                    /\ err' = err
             Waits == /\ expected' = 1 /\ responses' = responses
                      /\ \/ sub' = s /\ err' = err
                         \/ sub' = "failed" /\ err' = TRUE
  <2>3. Got \/ Waits
    BY <1>1, <1>10, <2>1, AwaitIs
  <2>4. CASE Waits
    <3>1. LinkTypeOK'
      BY <1>6, <1>10, <2>4 DEF LinkTypeOK
    <3>2. CASE sub' = "failed"
      BY <1>3, <1>5, <1>10, <2>4, <3>1, <3>2 DEF InitInv
    <3>3. CASE sub' = s
      <4>1. UNCHANGED <<line, responses, todo, wheel>> /\ sub' = sub /\ expected' = expected
            /\ ctl.mode = "Init" /\ InitInv
        BY <1>2, <1>6, <1>10, <2>1, <2>4, <3>3
      <4>2. /\ Notices' = Notices /\ OneAck' = OneAck /\ Quiet' = Quiet /\ AtHome' = AtHome
        BY <4>1 DEF Notices, OneAck, Quiet, AtHome, WheelAtRest
      <4>3. InitInv'
        BY <1>3, <1>10, <3>3, <4>1, <4>2 DEF InitInv, Pending
      <4> QED
        BY <1>2, <1>5, <1>6, <1>10, <2>4, <3>1, <3>3, <4>3
    <3> QED
      BY <2>4, <3>2, <3>3
  <2>5. CASE Got
    <3>1. /\ s = "stopAck" => sub' = "stopWait"
          /\ s = "disableAck" => sub' = "gain"
          /\ s = "gainAck" => sub' = "enable"
          /\ s = "enableAck" => sub' = "home"
          /\ s = "homeAck" => sub' = "homeSwitch"
      BY <1>1, <2>5 DEF AfterAck
    <3>2. Quiet
      BY <1>2, <1>10, <2>2, <2>5 DEF InitInv, Pending, NoCommand, Quiet, StopFirst
    <3>3. /\ s = "enableAck" => wheel.enabled
          /\ s = "homeAck" => AtHome \/ (wheel.goal.kind = "home" /\ responses[Len(responses)] = Ack)
      BY <1>2, <1>10, <2>2, <2>5 DEF InitInv, Pending, NoCommand
    <3>4. Free'
      BY <1>6, <1>10, <2>5, <3>2 DEF Free, Quiet, Notices
    <3>5. LinkTypeOK'
      BY <1>6, <1>10, <2>5 DEF LinkTypeOK
    <3>6. ASSUME responses[Len(responses)] = Ack PROVE responses' = <<>>
      <4>1. responses \in Seq(Responses)
        BY <1>6 DEF LinkTypeOK
      <4>2. PICK k \in 1..Len(responses) :
               \A i \in 1..Len(responses) : i # k => responses[i].kind = "notify"
        BY <2>5 DEF OneAck
      <4>3. 1 \in 1..Len(responses) /\ Len(responses) \in 1..Len(responses)
        BY <2>5, <4>1
      <4>4. k = 1 /\ k = Len(responses)
        BY <2>5, <3>6, <4>2, <4>3 DEF Ack
      <4> QED
        BY <2>5, <4>1, <4>4
    <3>7. AtHome' = AtHome
      BY <1>6 DEF AtHome, WheelAtRest
    <3>8. InitInv'
      BY <1>3, <1>6, <1>10, <3>1, <3>3, <3>4, <3>6, <3>7 DEF InitInv
    <3> QED
      BY <1>5, <1>6, <1>10, <2>5, <3>1, <3>5, <3>8 DEF SubOf
  <2> HIDE DEF Got, Waits
  <2> QED
    BY <2>3, <2>4, <2>5
<1>11. CASE s = "stopWait"
  <2>1. /\ UNCHANGED <<line, expected, responses>>
        /\ \/ sub' \in {"disable", "stopWait"} /\ err' = err
           \/ sub' = "failed" /\ err' = TRUE
    BY <1>4, <1>11
  <2>2. Free
    BY <1>2, <1>11 DEF InitInv
  <2>3. Free' /\ LinkTypeOK'
    BY <1>6, <2>1, <2>2 DEF Free, Quiet, Notices, LinkTypeOK
  <2>4. InitInv'
    BY <1>3, <1>11, <2>1, <2>3 DEF InitInv
  <2> QED
    BY <1>5, <1>6, <2>1, <2>3, <2>4 DEF SubOf
<1>12. CASE s = "homeSwitch"
  <2>1. /\ responses' = IF Notified THEN Tail(responses) ELSE responses
        /\ \/ /\ Notified /\ sub' = "done"
              /\ UNCHANGED <<line, expected, err>>
           \/ sub' = "homeSwitch" /\ UNCHANGED <<line, expected, err>>
           \/ /\ sub' = "failed" /\ err' = TRUE
              /\ line' \in {line, StopCommand} /\ expected' \in {expected, expected + 1}
    BY <1>4, <1>12
  <2>2. Free /\ (AtHome \/ (wheel.goal.kind = "home" /\ responses = <<>>))
    BY <1>2, <1>12 DEF InitInv
  <2>3. responses' \in Seq(Responses) /\ Notices' /\ (responses = <<>> => ~Notified /\ responses' = <<>>)
    BY <1>6, <2>1, <2>2 DEF LinkTypeOK, Free, Notices, Notified
  <2>4. LinkTypeOK'
    BY <1>6, <2>1, <2>3, StopsAreCommands DEF LinkTypeOK
  <2>5. sub' # "failed" => Free'
    BY <1>6, <2>1, <2>2, <2>3 DEF Free, Quiet
  <2>6. AtHome' = AtHome
    BY <1>6 DEF AtHome, WheelAtRest
  <2>7. InitInv'
    BY <1>3, <1>6, <1>12, <2>1, <2>2, <2>3, <2>5, <2>6 DEF InitInv
  <2> QED
    BY <1>5, <1>6, <2>1, <2>4, <2>7 DEF SubOf
<1>13. CASE s = "done"
  <2>1. sub' = "done" /\ UNCHANGED <<line, expected, responses, err>>
    BY <1>4, <1>13
  <2>2. Free /\ AtHome
    BY <1>2, <1>13 DEF InitInv
  <2>3. Free' /\ AtHome' /\ LinkTypeOK'
    BY <1>6, <2>1, <2>2 DEF Free, Quiet, Notices, AtHome, WheelAtRest, LinkTypeOK
  <2> QED
    BY <1>5, <1>6, <2>1, <2>3 DEF InitInv, SubOf
<1> QED
  BY <1>4, <1>7, <1>8, <1>9, <1>10, <1>11, <1>12, <1>13

(* No acknowledgement is at the front of what has been received.           *)
LEMMA NoAckFirst ==
  ASSUME responses \in Seq(Responses), expected = 0,
         line # NoCommand \/ responses = <<>> \/ responses[1].kind # "ack"
  PROVE  AcksLeft = 0 /\ AfterAcks = responses
<1>1. NumAcks = 0
  <2>1. CASE line # NoCommand
    BY <2>1 DEF NumAcks
  <2>2. CASE line = NoCommand
    <3> DEFINE P(n) == /\ \A i \in 1..n : responses[i].kind = "ack"
                       /\ n < Len(responses) => responses[n + 1].kind # "ack"
    <3>1. 0 \in 0..Len(responses) /\ P(0)
      BY <2>2
    <3>2. \A n \in 0..Len(responses) : P(n) => n = 0
      BY <2>2
    <3>3. (CHOOSE n \in 0..Len(responses) : P(n)) = 0
      BY <3>1, <3>2
    <3> QED
      BY <2>2, <3>3 DEF NumAcks
  <2> QED
    BY <2>1, <2>2
<1> QED
  BY <1>1 DEF AcksLeft, AfterAcks

(* Nothing is left of a sequence of one element.                           *)
LEMMA TailOfOne ==
  ASSUME NEW S, NEW q \in Seq(S), Len(q) = 1
  PROVE  Tail(q) = <<>>
<1>1. Tail(q) \in Seq(S) /\ Len(Tail(q)) = 0
  OBVIOUS
<1> QED
  BY <1>1, EmptySeq

(* One velocity, gain or query command at a time; the wheel coasts, or     *)
(* turns as requested, while it is carried out.                            *)
LEMMA VelocityCall ==
  ASSUME IInv, NEW expired \in BOOLEAN, FW_ControllerProcess(expired), Ctl.mode = "Velocity"
  PROVE  CallOK' /\ (~Changed /\ ~NewTarget /\ sub = "ready" => sub' = "ready")
<1> DEFINE last == IF Changed THEN 0 ELSE IF NewTarget THEN ctl.requested ELSE lastTarget
           s == IF Changed \/ (NewTarget /\ Ctl.requested = Fast /\ last # Fast) THEN "gain"
                ELSE IF NewTarget THEN "velocity" ELSE sub
           gain == IF Ctl.requested = Fast THEN last # Fast ELSE last \in {Fast, 0}
<1>1. /\ VelocityMode(Ctl, Changed, NewTarget, expired) /\ UNCHANGED <<host, motor>> /\ TypeOK
      /\ ctl'.mode = "Velocity" /\ Ctl \in CtlType /\ ctl'.requested = Ctl.requested
  BY CallIs, CallStatics, CtlIs DEF IInv
<1>2. /\ ~err /\ Ctl.requested \in Speeds /\ wheel.homed
      /\ Changed => Clear /\ Coasting /\ ~NewTarget
      /\ ~Changed => /\ ctl.mode = "Velocity" /\ VelocityInv /\ sub \in SubOf("Velocity")
                     /\ sub # "failed"
      /\ NewTarget => sub = "ready" /\ Ctl.requested # ctl.requested
      /\ ~Changed /\ ~NewTarget => Ctl.requested = ctl.requested
  BY EntryVelocity
<1>3. last \in Speeds \cup {0} /\ s \in SubOf("Velocity")
  BY <1>1, <1>2 DEF TypeOK, SubOf, VelocityInv
<1>4. s \notin {"gain", "velocity"} =>
        /\ s = sub /\ last = lastTarget /\ Ctl.requested = ctl.requested
        /\ ctl.mode = "Velocity" /\ sub # "failed" /\ VelocityInv
  BY <1>2
<1>5. s = "gain" => Clear /\ Coasting /\ (Ctl.requested = Slow /\ last # 0 => wheel.speed = Slow)
  <2>1. CASE Changed
    BY <1>2, <2>1
  <2>2. CASE ~Changed /\ NewTarget
    <3>1. ctl.mode = "Velocity" /\ sub = "ready" /\ sub # "failed" /\ VelocityInv
      BY <1>2, <2>2
    <3>2. s = "gain" => Ctl.requested = Fast
      BY <2>2
    <3> HIDE DEF s, last, gain
    <3> QED
      BY <3>1, <3>2 DEF VelocityInv, Slow, Fast
  <2>3. CASE ~Changed /\ ~NewTarget
    <3>1. /\ s = sub /\ last = lastTarget /\ Ctl.requested = ctl.requested
          /\ ctl.mode = "Velocity" /\ sub # "failed" /\ VelocityInv
      BY <1>2, <2>3
    <3> HIDE DEF s, last, gain
    <3> QED
      BY <3>1 DEF VelocityInv, Late
  <2> QED
    BY <2>1, <2>2, <2>3
<1>6. s = "velocity" => Clear /\ Coasting
  BY <1>2 DEF VelocityInv
<1>7. /\ ctl'.ready = (s = "ready") /\ shown' = Transition
      /\ lastTarget' = IF s = "ready" THEN Ctl.requested ELSE last
      /\ UNCHANGED <<errorTimer, verifyPos, backlashMode, rawPosition>>
  <2> DEFINE r == s = "ready"
  <2>1. /\ ctl' = [Ctl EXCEPT !.ready = r] /\ shown' = Transition
        /\ lastTarget' = IF s = "ready" THEN Ctl.requested ELSE last
        /\ UNCHANGED <<errorTimer, verifyPos, backlashMode, rawPosition>>
    BY <1>1 DEF VelocityMode
  <2> HIDE DEF r, s, last
  <2>2. ctl'.ready = r
    BY <1>1, <2>1 DEF CtlType
  <2> QED
    BY <2>1, <2>2 DEF r
<1>8. \/ s = "gain" /\ Send(Ctl, s)
      \/ s = "gain" /\ sub' = "velocity" /\ UNCHANGED <<line, expected, responses, err>>
      \/ s \in {"velocity", "query"} /\ Send(Ctl, s)
      \/ /\ s \in {"gainAck", "velocityAck"}
         /\ AwaitAck(Ctl, s, expired)
         /\ expected' = AcksLeft /\ UNCHANGED line
      \/ /\ s = "queryAnswer" /\ expected' = AcksLeft /\ UNCHANGED line
         /\ IF Answered
            THEN /\ responses' = Tail(AfterAcks) /\ err' = err
                 /\ sub' = IF Head(AfterAcks).is # Ctl.requested THEN "pause"
                           ELSE IF Ctl.requested = Slow /\ last = Fast THEN "gain" ELSE "ready"
            ELSE /\ responses' = AfterAcks
                 /\ \/ sub' = s /\ err' = err
                    \/ sub' = "failed" /\ err' = TRUE
      \/ s = "pause" /\ sub' = "query" /\ UNCHANGED <<line, expected, responses, err>>
      \/ s = "ready" /\ sub' = "ready" /\ UNCHANGED <<line, expected, responses, err>>
  <2>1. \/ s = "gain" /\ gain /\ Send(Ctl, s)
        \/ s = "gain" /\ ~gain /\ Go("velocity")
        \/ s \in {"velocity", "query"} /\ Send(Ctl, s)
        \/ /\ s \in {"gainAck", "velocityAck"}
           /\ AwaitAck(Ctl, s, expired)
           /\ expected' = AcksLeft /\ UNCHANGED line
        \/ /\ s = "queryAnswer"
           /\ expected' = AcksLeft /\ UNCHANGED line
           /\ IF Answered
              THEN /\ responses' = Tail(AfterAcks)
                   /\ sub' = IF Head(AfterAcks).is # Ctl.requested THEN "pause"
                             ELSE IF Ctl.requested = Slow /\ last = Fast THEN "gain" ELSE "ready"
                   /\ UNCHANGED <<err, faults>>
              ELSE responses' = AfterAcks /\ Wait(s, expired)
        \/ s = "pause" /\ Go("query")
        \/ s = "ready" /\ Go(s)
    BY <1>1, Zenon DEF VelocityMode
  <2>2. /\ Wait(s, expired) => IF expired THEN sub' = "failed" /\ err' = TRUE
                                         ELSE sub' = s /\ err' = err
        /\ \A t : Go(t) => sub' = t /\ UNCHANGED <<line, expected, responses, err>>
    BY Zenon DEF Wait, Go
  <2> HIDE DEF s, last, gain
  <2> QED
    BY <2>1, <2>2
<1> HIDE DEF s, last, gain
<1>9. LinkTypeOK /\ UNCHANGED <<todo, wheel>> /\ err \in BOOLEAN
  BY <1>1 DEF TypeOK
<1>10. ASSUME sub' \in SubOf("Velocity") \/ (sub' = "failed" /\ err'), err' \in BOOLEAN,
              LinkTypeOK', VelocityInv', s = "ready" => sub' = "ready"
       PROVE  CallOK' /\ (~Changed /\ ~NewTarget /\ sub = "ready" => sub' = "ready")
  <2>1. SubOf("Velocity") = SubOf("Velocity")'
    BY DEF SubOf
  <2>2. ShownInv' /\ InitInv' /\ IdleInv' /\ PositionInv'
    BY <1>1, <1>7, TransitionIsNoFilter DEF ShownInv, InitInv, IdleInv, PositionInv
  <2>3. ~Changed /\ ~NewTarget => s = sub
    BY DEF s
  <2> QED
    BY <1>1, <1>2, <1>3, <1>7, <1>10, <2>1, <2>2, <2>3 DEF CallOK, TypeOK
<1>11. /\ Coasting' = Coasting /\ wheel'.homed
       /\ Ctl.requested = ctl.requested => Turn' = Turn /\ Steering' = Steering
  BY <1>1, <1>2, <1>9 DEF Coasting, Turn, Steering
<1>12. Ctl.requested \in Int
  BY <1>2 DEF Speeds, Slow, Fast
<1>13. CASE s \in {"gain", "velocity", "query"} /\ Send(Ctl, s)
  <2> DEFINE cmd == CommandOf(Ctl, s)
  <2>1. Clear /\ Quiet /\ expected = 0 /\ (s = "query" => Steering)
        /\ (s \in {"gain", "velocity"} => Coasting)
    BY <1>4, <1>5, <1>6, <1>13 DEF VelocityInv, Clear
  <2>2. /\ line' = cmd /\ sub' = AckOf[s] /\ responses' = <<>> /\ err' = err
        /\ expected' = IF cmd.kind = "query" THEN 0 ELSE 1
        /\ todo' = <<>>
    BY <1>9, <1>13, <2>1, SendIs DEF Clear, Quiet
  <2>3. /\ s = "gain" => cmd = [kind |-> "gain"] /\ sub' = "gainAck"
        /\ s = "velocity" => cmd = Turn' /\ sub' = "velocityAck"
        /\ s = "query" => cmd = [kind |-> "query", what |-> "Velocity"] /\ sub' = "queryAnswer"
    <3>1. sub' = AckOf[s]
      BY <2>2
    <3>2. /\ CommandOf(Ctl, "gain") = [kind |-> "gain"]
          /\ CommandOf(Ctl, "velocity") = Turn'
          /\ CommandOf(Ctl, "query") = [kind |-> "query", what |-> "Velocity"]
      BY <1>1, CommandIs DEF Turn
    <3> QED
      BY <1>13, <3>1, <3>2 DEF AckOf
  <2>4. cmd \in Commands /\ (s = "query" <=> cmd.kind = "query")
    <3>1. Turn' \in Commands /\ Turn'.kind = "velocity"
      <4> DEFINE false == FALSE
                 t == Ctl.requested
      <4>1. Turn' = [kind |-> "velocity", target |-> t, notify |-> false]
        BY <1>1 DEF Turn
      <4>2. t \in Int /\ false \in BOOLEAN
        BY <1>12
      <4> HIDE DEF t, false
      <4> QED
        BY <4>1, <4>2 DEF Commands
    <3>2. CASE s = "velocity"
      BY <2>3, <3>1, <3>2
    <3>3. CASE s # "velocity"
      BY <1>13, <2>3, <3>3 DEF Commands
    <3> QED
      BY <3>2, <3>3
  <2> HIDE DEF cmd
  <2>5. LinkTypeOK'
    BY <1>9, <2>2, <2>4 DEF LinkTypeOK
  <2>6. s = "gain" => Late' /\ Coasting'
    BY <1>1, <1>5, <1>7, <1>9, <1>11 DEF Late
  <2>7. VelocityInv'
    <3>1. CASE s = "gain"
      BY <1>1, <1>2, <1>7, <1>11, <2>2, <2>3, <2>4, <2>6, <3>1 DEF VelocityInv, Pending
    <3>2. CASE s = "velocity"
      BY <1>1, <1>2, <1>7, <1>11, <2>1, <2>2, <2>3, <2>4, <3>2 DEF VelocityInv, Pending
    <3>3. CASE s = "query"
      <4>1. Steering'
        BY <1>4, <1>11, <2>1, <3>3
      <4> QED
        BY <1>1, <1>2, <1>7, <1>11, <2>2, <2>3, <2>4, <3>3, <4>1 DEF VelocityInv, Pending
    <3> QED
      BY <1>13, <3>1, <3>2, <3>3
  <2> QED
    BY <1>9, <1>10, <1>13, <2>2, <2>3, <2>5, <2>7 DEF SubOf
<1>14. CASE s = "gain" /\ sub' = "velocity" /\ UNCHANGED <<line, expected, responses, err>>
  <2>1. Clear /\ Coasting
    BY <1>5, <1>14
  <2>2. Clear' /\ LinkTypeOK'
    BY <1>9, <1>14, <2>1 DEF Clear, Quiet, LinkTypeOK
  <2> QED
    BY <1>1, <1>2, <1>7, <1>9, <1>10, <1>11, <1>14, <2>1, <2>2 DEF VelocityInv, SubOf
<1>15. CASE s \in {"gainAck", "velocityAck"} /\ AwaitAck(Ctl, s, expired)
            /\ expected' = AcksLeft /\ UNCHANGED line
  <2>1. /\ s = sub /\ last = lastTarget /\ Ctl.requested = ctl.requested
        /\ ctl.mode = "Velocity" /\ VelocityInv /\ ctl'.requested = ctl.requested
        /\ lastTarget' = lastTarget /\ sub # "failed"
    BY <1>1, <1>4, <1>7, <1>15
  <2>2. /\ sub = "gainAck" =>
             Pending([kind |-> "gain"], responses = <<>> /\ Coasting /\ Late,
                     responses = <<Ack>> /\ Coasting /\ Late)
        /\ sub = "velocityAck" =>
             Pending(Turn, responses = <<>> /\ Coasting,
                     responses = <<Ack>> /\ Steering)
    BY <2>1 DEF VelocityInv
  <2>3. /\ expected = 1
        /\ \/ line # NoCommand
           \/ responses = <<>>
           \/ Quiet /\ Notices
           \/ /\ Quiet /\ responses = <<Ack>>
              /\ sub = "gainAck" => Coasting /\ Late
              /\ sub = "velocityAck" => Steering
    BY <1>15, <2>1, <2>2 DEF Pending, Turn, NoCommand
  <2>4. responses = <<Ack>> => OneAck
    BY DEF OneAck
  <2>5. responses = <<>> => Notices
    BY DEF Notices
  <2>6. Notices => ~OneAck
    BY DEF Notices, OneAck, Ack
  <2> DEFINE Got == /\ expected' = 0 /\ line = NoCommand /\ OneAck /\ sub' = AfterAck(Ctl, s)
                    /\ responses' = Tail(responses) /\ responses # <<>> /\ responses[1] = Ack
                    /\ \A i \in 1..Len(Tail(responses)) : Tail(responses)[i].kind = "notify"
                    /\ err' = err
             Waits == /\ expected' = 1 /\ responses' = responses
                      /\ \/ sub' = s /\ err' = err
                         \/ sub' = "failed" /\ err' = TRUE
  <2>7. Got \/ Waits
    BY <1>1, <1>15, <2>3, <2>4, <2>5, AwaitIs
  <2>8. CASE Waits
    <3>1. LinkTypeOK' /\ UNCHANGED <<line, responses, todo, wheel>>
      BY <1>9, <1>15, <2>8 DEF LinkTypeOK
    <3>2. CASE sub' = "failed"
      BY <1>10, <1>15, <2>8, <3>1, <3>2 DEF VelocityInv
    <3>3. CASE sub' = s
      <4>2. Notices' = Notices /\ Quiet' = Quiet /\ Late' = Late
        BY <2>1, <3>1 DEF Notices, Quiet, Late
      <4>3. VelocityInv'
        BY <1>1, <1>2, <1>7, <1>11, <1>15, <2>1, <2>2, <2>3, <2>8, <3>1, <3>3, <4>2
           DEF VelocityInv, Pending
      <4> QED
        BY <1>3, <1>9, <1>10, <1>15, <2>8, <3>1, <3>3, <4>3
    <3> QED
      BY <2>8, <3>2, <3>3
  <2>9. CASE Got
    <3>1. /\ s = "gainAck" =>
               sub' = IF Ctl.requested = Fast \/ lastTarget = 0 THEN "velocity" ELSE "ready"
          /\ s = "velocityAck" => sub' = "query"
      BY <1>1, <2>9 DEF AfterAck
    <3>2. /\ Quiet /\ responses = <<Ack>>
          /\ sub = "gainAck" => Coasting /\ Late
          /\ sub = "velocityAck" => Steering
      BY <2>3, <2>5, <2>6, <2>9
    <3>3. Clear' /\ LinkTypeOK'
      BY <1>9, <1>15, <2>9, <3>2 DEF Clear, Quiet, LinkTypeOK
    <3>4. sub' = "ready" => wheel'.speed = ctl'.requested /\ Coasting'
      BY <1>2, <1>9, <1>11, <1>15, <2>1, <3>1, <3>2 DEF Late, Speeds
    <3>5. VelocityInv'
      BY <1>1, <1>2, <1>7, <1>11, <1>15, <2>1, <3>1, <3>2, <3>3, <3>4 DEF VelocityInv
    <3> QED
      BY <1>9, <1>10, <1>15, <2>9, <3>1, <3>3, <3>5 DEF SubOf
  <2> HIDE DEF Got, Waits
  <2> QED
    BY <2>7, <2>8, <2>9
<1>16. CASE s = "queryAnswer"
  <2>1. /\ s = sub /\ last = lastTarget /\ Ctl.requested = ctl.requested
        /\ ctl.mode = "Velocity" /\ VelocityInv /\ ctl'.requested = ctl.requested
        /\ lastTarget' = lastTarget /\ sub # "failed"
    BY <1>1, <1>4, <1>7, <1>16
  <2> DEFINE query == [kind |-> "query", what |-> "Velocity"]
             answer == /\ Len(responses) = 1 /\ responses[1].kind = "value"
                       /\ responses[1].what = "Velocity"
                       /\ responses[1].is = ctl.requested => wheel.speed = ctl.requested
  <2>2. /\ expected = 0
        /\ \/ line = query /\ todo = <<>> /\ responses = <<>> /\ Steering
           \/ line = NoCommand /\ todo = <<query>> /\ responses = <<>> /\ Steering
           \/ Quiet /\ Notices
           \/ Quiet /\ answer /\ Steering
    BY <1>16, <2>1 DEF VelocityInv, Pending
  <2>3. responses \in Seq(Responses)
    BY <1>9 DEF LinkTypeOK
  <2>4. AcksLeft = 0 /\ AfterAcks = responses
    BY <2>2, <2>3, NoAckFirst DEF Notices
  <2>5. expected' = 0 /\ UNCHANGED line
    BY <1>8, <1>16, <2>4
  <2>6. CASE Answered
    <3>1. /\ responses' = Tail(responses) /\ err' = err
          /\ sub' = IF Head(responses).is # Ctl.requested THEN "pause"
                    ELSE IF Ctl.requested = Slow /\ last = Fast THEN "gain" ELSE "ready"
      BY <1>8, <1>16, <2>4, <2>6
    <3>2. line = NoCommand /\ responses # <<>> /\ responses[1].kind = "value"
      BY <2>3, <2>4, <2>6 DEF Answered
    <3>3. Quiet /\ answer /\ Steering
      BY <2>2, <2>3, <3>2 DEF Notices, query, NoCommand
    <3>4. Clear' /\ LinkTypeOK'
      <4>1. Len(responses) = 1
        BY <3>3
      <4>2. Tail(responses) = <<>>
        BY <2>3, <4>1, TailOfOne
      <4>3. <<>> \in Seq(Responses)
        OBVIOUS
      <4>4. Quiet' /\ responses' = <<>>
        BY <1>9, <2>5, <3>1, <3>3, <4>2 DEF Quiet
      <4> QED
        BY <1>9, <2>5, <4>3, <4>4 DEF Clear, LinkTypeOK
    <3>5. \/ sub' = "pause"
          \/ /\ sub' \in {"gain", "ready"} /\ responses[1].is = ctl.requested
             /\ wheel.speed = ctl.requested
      <4>1. Head(responses) = responses[1] /\ responses[1].what = "Velocity"
        BY <2>3, <3>3
      <4> DEFINE h == Head(responses)
      <4>2. sub' = IF h.is # Ctl.requested THEN "pause"
                   ELSE IF Ctl.requested = Slow /\ last = Fast THEN "gain" ELSE "ready"
        BY <3>1
      <4>3. h = responses[1]
        BY <4>1
      <4> HIDE DEF h
      <4> QED
        BY <2>1, <3>3, <4>1, <4>2, <4>3
    <3>6. wheel.speed = ctl.requested => Coasting
      BY <1>2, <2>1, <3>3 DEF Steering, Coasting, Turn, Speeds, Slow, Fast
    <3>7. ctl'.requested = wheel'.speed => Late'
      BY DEF Late
    <3>8. VelocityInv'
      BY <1>1, <1>2, <1>7, <1>9, <1>11, <1>16, <2>1, <3>3, <3>4, <3>5, <3>6, <3>7 DEF VelocityInv
    <3> QED
      BY <1>9, <1>10, <1>16, <3>1, <3>4, <3>5, <3>8 DEF SubOf
  <2>7. CASE ~Answered
    <3>1. /\ responses' = responses
          /\ \/ sub' = s /\ err' = err
             \/ sub' = "failed" /\ err' = TRUE
      BY <1>8, <1>16, <2>4, <2>7
    <3>2. LinkTypeOK'
      BY <1>9, <2>5, <3>1 DEF LinkTypeOK
    <3>3. CASE sub' = "failed"
      BY <1>10, <1>16, <3>1, <3>2, <3>3 DEF VelocityInv
    <3>4. CASE sub' = s
      <4>1. Notices' = Notices /\ Quiet' = Quiet /\ answer' = answer
        BY <1>9, <2>1, <2>5, <3>1 DEF Notices, Quiet
      <4>2. VelocityInv'
        BY <1>1, <1>2, <1>7, <1>9, <1>11, <1>16, <2>1, <2>2, <2>5, <3>1, <3>4, <4>1
           DEF VelocityInv, Pending
      <4> QED
        BY <1>3, <1>9, <1>10, <1>16, <3>1, <3>2, <3>4, <4>2
    <3> QED
      BY <3>1, <3>3, <3>4
  <2> QED
    BY <2>6, <2>7
<1>17. CASE s \in {"pause", "ready"}
  <2>1. /\ s = sub /\ Ctl.requested = ctl.requested /\ ctl.mode = "Velocity" /\ VelocityInv
        /\ ctl'.requested = ctl.requested /\ sub # "failed"
        /\ sub' = (IF s = "pause" THEN "query" ELSE "ready")
        /\ UNCHANGED <<line, expected, responses, err>>
    BY <1>1, <1>4, <1>8, <1>17
  <2>2. /\ Clear /\ (s = "pause" => Steering)
        /\ s = "ready" => Coasting /\ wheel.speed = ctl.requested
    BY <1>17, <2>1 DEF VelocityInv
  <2>3. Clear' /\ LinkTypeOK'
    BY <1>9, <2>1, <2>2 DEF Clear, Quiet, LinkTypeOK
  <2>4. VelocityInv'
    BY <1>1, <1>2, <1>7, <1>9, <1>11, <1>17, <2>1, <2>2, <2>3 DEF VelocityInv
  <2> QED
    BY <1>9, <1>10, <1>17, <2>1, <2>3, <2>4 DEF SubOf
<1> QED
  BY <1>8, <1>13, <1>14, <1>15, <1>16, <1>17

-----------------------------------------------------------------------------
(* The parts of a call of the position mode.                               *)

PositionState ==
  IF Changed THEN IF wheel.speed # 0 THEN "stop" ELSE "gain"
  ELSE IF NewTarget /\ sub = "ready" THEN IF fwType = "sync" THEN "query" ELSE "enable"
  ELSE sub

(* The state a call of the position mode is in, and what it relies on.     *)
LEMMA PositionEntry ==
  ASSUME IInv, NEW expired \in BOOLEAN, FW_ControllerProcess(expired), Ctl.mode = "Position"
  PROVE  /\ PositionState \in SubOf("Position") /\ wheel.homed /\ ~err
         /\ PositionState \notin {"stop", "gain", "enable", "query"} =>
              /\ PositionState = sub /\ Ctl.requested = ctl.requested /\ ~NewTarget
              /\ ctl.mode = "Position" /\ sub # "failed" /\ PositionInv
         /\ PositionState = "stop" => Clear /\ Coasting
         /\ PositionState \in {"gain", "enable"} => Clear /\ wheel.goal = Still
         /\ PositionState = "query" =>
              /\ Clear /\ wheel.goal = Still
              /\ \/ NewTarget /\ sub = "ready" /\ fwType = "sync"
                 \/ Ctl.requested = ctl.requested /\ (verifyPos => There) /\ ~NewTarget
         /\ ~Changed /\ ~NewTarget => PositionState = sub
<1>1. /\ ~err /\ wheel.homed
      /\ Changed => Clear /\ Coasting /\ ~NewTarget
      /\ ~Changed => /\ ctl.mode = "Position" /\ PositionInv /\ sub \in SubOf("Position")
                     /\ sub # "failed"
      /\ NewTarget => sub = "ready" /\ Ctl.requested # ctl.requested
      /\ ~Changed /\ ~NewTarget => Ctl.requested = ctl.requested
  BY EntryPosition
<1>2. CASE Changed
  <2>1. PositionState = IF wheel.speed # 0 THEN "stop" ELSE "gain"
    BY <1>2 DEF PositionState
  <2>2. Clear /\ Coasting
    BY <1>1, <1>2
  <2>3. wheel.speed = 0 => wheel.goal = Still
    BY <2>2 DEF Coasting
  <2> QED
    BY <1>1, <1>2, <2>1, <2>2, <2>3 DEF SubOf
<1>3. CASE ~Changed /\ NewTarget
  <2>1. PositionState = IF fwType = "sync" THEN "query" ELSE "enable"
    BY <1>1, <1>3 DEF PositionState
  <2>2. ctl.mode = "Position" /\ sub = "ready" /\ sub # "failed" /\ PositionInv
    BY <1>1, <1>3
  <2>3. Clear /\ wheel.goal = Still
    BY <2>2 DEF PositionInv, AtTarget, WheelAtRest
  <2> QED
    BY <1>1, <1>3, <2>1, <2>2, <2>3 DEF SubOf
<1>4. CASE ~Changed /\ ~NewTarget
  <2>1. PositionState = sub
    BY <1>1, <1>4 DEF PositionState
  <2>2. ctl.mode = "Position" /\ sub # "failed" /\ PositionInv /\ Ctl.requested = ctl.requested
    BY <1>1, <1>4
  <2> QED
    BY <1>1, <1>4, <2>1, <2>2 DEF PositionInv
<1> QED
  BY <1>2, <1>3, <1>4

(* What a call of the position mode does in each state.                    *)
LEMMA PositionSteps ==
  ASSUME IInv, NEW expired \in BOOLEAN, FW_ControllerProcess(expired), Ctl.mode = "Position",
         NEW s, s = PositionState
  PROVE  /\ UNCHANGED <<host, motor, errorTimer, lastTarget>>
         /\ ctl'.mode = "Position" /\ ctl'.requested = Ctl.requested
         /\ ctl'.ready = (s = "ready") /\ shown' = FWPosition(s)
         /\ verifyPos' = CASE s = "moveWait" /\ sub' = "query" -> TRUE
                           [] \/ sub' = "query" /\ s \in {"gainAck", "enableAck"}
                              \/ NewTarget /\ sub = "ready" /\ fwType = "sync" -> FALSE
                           [] OTHER -> verifyPos
         /\ \/ /\ s \in {"stop", "gain", "enable", "query", "disable"} /\ Send(Ctl, s)
               /\ UNCHANGED <<backlashMode, rawPosition>>
            \/ /\ s \in {"stopAck", "gainAck", "enableAck", "moveAck", "disableAck"}
               /\ AwaitAck(Ctl, s, expired)
               /\ expected' = AcksLeft /\ UNCHANGED <<line, backlashMode, rawPosition>>
            \/ /\ s \in {"stopWait", "moveWait"}
               /\ responses' = IF Notified THEN Tail(responses) ELSE responses
               /\ IF Notified /\ Head(responses).of = (IF s = "stopWait" THEN "velocity" ELSE "move")
                  THEN /\ sub' = IF s = "stopWait" THEN "gain" ELSE "query"
                       /\ err' = err
                  ELSE \/ sub' = s /\ err' = err
                       \/ sub' = "failed" /\ err' = TRUE
               /\ UNCHANGED <<line, expected, backlashMode, rawPosition>>
            \/ /\ s = "moveWait" /\ sub' = s
               /\ UNCHANGED <<line, expected, responses, err, backlashMode, rawPosition>>
            \/ /\ s = "queryAnswer" /\ expected' = AcksLeft /\ UNCHANGED line
               /\ IF Answered
                  THEN /\ responses' = Tail(AfterAcks) /\ err' = err
                       /\ rawPosition' = IF fwType = "sync" THEN wheel.at ELSE Head(AfterAcks).is
                       /\ sub' = AfterPosition(Ctl, rawPosition')
                       /\ backlashMode' = (backlashMode /\ ~verifyPos)
                  ELSE /\ responses' = AfterAcks /\ UNCHANGED <<backlashMode, rawPosition>>
                       /\ \/ sub' = s /\ err' = err
                          \/ sub' = "failed" /\ err' = TRUE
            \/ /\ s = "move" /\ Command(MoveCommand(Ctl), s, "moveAck")
               /\ backlashMode' = IF fwType = "fixed" THEN Backlash(Ctl) ELSE backlashMode
               /\ UNCHANGED <<responses, rawPosition, err>>
            \/ /\ s = "moveDone" /\ sub' = (IF fwType = "sync" THEN "ready" ELSE "disable")
               /\ UNCHANGED <<line, expected, responses, err, backlashMode, rawPosition>>
            \/ /\ s = "ready" /\ sub' = s /\ ConsumeResponses
               /\ UNCHANGED <<line, err, backlashMode, rawPosition>>
<1> DEFINE again == NewTarget /\ sub = "ready"
           t == CASE Changed -> IF wheel.speed # 0 THEN "stop" ELSE "gain"
                  [] again /\ ~Changed -> IF fwType = "sync" THEN "query" ELSE "enable"
                  [] OTHER -> sub
<1>1. /\ PositionMode(Ctl, Changed, NewTarget, expired) /\ UNCHANGED <<host, motor>>
      /\ ctl'.mode = "Position" /\ Ctl \in CtlType /\ ctl'.requested = Ctl.requested
  BY CallIs, CallStatics, CtlIs DEF IInv
<1>2. t = s
  BY DEF PositionState
<1>3. /\ \/ /\ t \in {"stop", "gain", "enable", "query", "disable"} /\ Send(Ctl, t)
            /\ UNCHANGED <<backlashMode, rawPosition>>
         \/ /\ t \in {"stopAck", "gainAck", "enableAck", "moveAck", "disableAck"}
            /\ AwaitAck(Ctl, t, expired)
            /\ expected' = AcksLeft /\ UNCHANGED <<line, backlashMode, rawPosition>>
         \/ /\ t \in {"stopWait", "moveWait"}
            /\ responses' = IF Notified THEN Tail(responses) ELSE responses
            /\ IF Notified /\ Head(responses).of = (IF t = "stopWait" THEN "velocity" ELSE "move")
               THEN /\ sub' = IF t = "stopWait" THEN "gain" ELSE "query"
                    /\ UNCHANGED <<err, faults>>
               ELSE Wait(t, expired)
            /\ UNCHANGED <<line, expected, backlashMode, rawPosition>>
         \/ /\ t = "moveWait" /\ fwType = "sync" /\ ~expired
            /\ Go(t) /\ UNCHANGED <<backlashMode, rawPosition>>
         \/ /\ t = "queryAnswer"
            /\ expected' = AcksLeft /\ UNCHANGED line
            /\ IF Answered
               THEN LET position == IF fwType = "sync" THEN wheel.at ELSE Head(AfterAcks).is IN
                    /\ responses' = Tail(AfterAcks)
                    /\ rawPosition' = position
                    /\ sub' = AfterPosition(Ctl, position)
                    /\ backlashMode' = (backlashMode /\ ~verifyPos)
                    /\ UNCHANGED <<err, faults>>
               ELSE /\ responses' = AfterAcks /\ Wait(t, expired)
                    /\ UNCHANGED <<backlashMode, rawPosition>>
         \/ /\ t = "move"
            /\ Command(MoveCommand(Ctl), t, "moveAck")
            /\ backlashMode' = IF fwType = "fixed" THEN Backlash(Ctl) ELSE backlashMode
            /\ UNCHANGED <<responses, rawPosition, err, faults>>
         \/ /\ t = "moveDone"
            /\ Go(IF fwType = "sync" THEN "ready" ELSE "disable")
            /\ UNCHANGED <<backlashMode, rawPosition>>
         \/ /\ t = "ready"
            /\ sub' = t /\ ConsumeResponses
            /\ UNCHANGED <<line, err, faults, backlashMode, rawPosition>>
      /\ verifyPos' = CASE t = "moveWait" /\ sub' = "query" -> TRUE
                        [] \/ sub' = "query" /\ t \in {"gainAck", "enableAck"}
                           \/ again /\ fwType = "sync" -> FALSE
                        [] OTHER -> verifyPos
      /\ ctl' = [Ctl EXCEPT !.ready = t = "ready"]
      /\ shown' = FWPosition(t)
      /\ UNCHANGED <<errorTimer, lastTarget>>
  BY <1>1, Zenon DEF PositionMode
<1>4. /\ Wait(s, expired) => \/ sub' = "failed" /\ err' = TRUE
                             \/ sub' = s /\ err' = err
      /\ \A u : Go(u) => sub' = u /\ UNCHANGED <<line, expected, responses, err>>
  BY Zenon DEF Wait, Go
<1> HIDE DEF t
<1>5. ctl'.ready = (s = "ready")
  <2> DEFINE r == s = "ready"
  <2>1. ctl' = [Ctl EXCEPT !.ready = r]
    BY <1>2, <1>3
  <2> HIDE DEF r
  <2>2. ctl'.ready = r
    BY <1>1, <2>1 DEF CtlType
  <2> QED
    BY <2>2 DEF r
<1>6. /\ UNCHANGED <<errorTimer, lastTarget>> /\ shown' = FWPosition(s)
      /\ verifyPos' = CASE s = "moveWait" /\ sub' = "query" -> TRUE
                        [] \/ sub' = "query" /\ s \in {"gainAck", "enableAck"}
                           \/ NewTarget /\ sub = "ready" /\ fwType = "sync" -> FALSE
                        [] OTHER -> verifyPos
  BY <1>2, <1>3
<1>7. CASE s = "queryAnswer"
  BY <1>1, <1>2, <1>3, <1>4, <1>5, <1>6, <1>7, Zenon
<1>8. CASE s = "moveWait"
  BY <1>1, <1>2, <1>3, <1>4, <1>5, <1>6, <1>8
<1>9. CASE s \notin {"queryAnswer", "moveWait"}
  BY <1>1, <1>2, <1>3, <1>4, <1>5, <1>6, <1>9, Zenon
<1> QED
  BY <1>7, <1>8, <1>9

(* Once a move has brought the wheel to its target, and an answer has said *)
(* so, the position read is where the wheel is.                            *)
LEMMA PositionCall ==
  ASSUME IInv, NEW expired \in BOOLEAN, FW_ControllerProcess(expired), Ctl.mode = "Position"
  PROVE  CallOK' /\ (~Changed /\ ~NewTarget /\ sub = "ready" => sub' = "ready")
<1> DEFINE s == PositionState
<1>1. /\ UNCHANGED <<host, motor, errorTimer, lastTarget>>
      /\ ctl'.mode = "Position" /\ ctl'.requested = Ctl.requested
      /\ ctl'.ready = (s = "ready") /\ shown' = FWPosition(s)
      /\ verifyPos' = CASE s = "moveWait" /\ sub' = "query" -> TRUE
                        [] \/ sub' = "query" /\ s \in {"gainAck", "enableAck"}
                           \/ NewTarget /\ sub = "ready" /\ fwType = "sync" -> FALSE
                        [] OTHER -> verifyPos
      /\ \/ /\ s \in {"stop", "gain", "enable", "query", "disable"} /\ Send(Ctl, s)
            /\ UNCHANGED <<backlashMode, rawPosition>>
         \/ /\ s \in {"stopAck", "gainAck", "enableAck", "moveAck", "disableAck"}
            /\ AwaitAck(Ctl, s, expired)
            /\ expected' = AcksLeft /\ UNCHANGED <<line, backlashMode, rawPosition>>
         \/ /\ s \in {"stopWait", "moveWait"}
            /\ responses' = IF Notified THEN Tail(responses) ELSE responses
            /\ IF Notified /\ Head(responses).of = (IF s = "stopWait" THEN "velocity" ELSE "move")
               THEN /\ sub' = IF s = "stopWait" THEN "gain" ELSE "query"
                    /\ err' = err
               ELSE \/ sub' = s /\ err' = err
                    \/ sub' = "failed" /\ err' = TRUE
            /\ UNCHANGED <<line, expected, backlashMode, rawPosition>>
         \/ /\ s = "moveWait" /\ sub' = s
            /\ UNCHANGED <<line, expected, responses, err, backlashMode, rawPosition>>
         \/ /\ s = "queryAnswer" /\ expected' = AcksLeft /\ UNCHANGED line
            /\ IF Answered
               THEN /\ responses' = Tail(AfterAcks) /\ err' = err
                    /\ rawPosition' = IF fwType = "sync" THEN wheel.at ELSE Head(AfterAcks).is
                    /\ sub' = AfterPosition(Ctl, rawPosition')
                    /\ backlashMode' = (backlashMode /\ ~verifyPos)
               ELSE /\ responses' = AfterAcks /\ UNCHANGED <<backlashMode, rawPosition>>
                    /\ \/ sub' = s /\ err' = err
                       \/ sub' = "failed" /\ err' = TRUE
         \/ /\ s = "move" /\ Command(MoveCommand(Ctl), s, "moveAck")
            /\ backlashMode' = IF fwType = "fixed" THEN Backlash(Ctl) ELSE backlashMode
            /\ UNCHANGED <<responses, rawPosition, err>>
         \/ /\ s = "moveDone" /\ sub' = (IF fwType = "sync" THEN "ready" ELSE "disable")
            /\ UNCHANGED <<line, expected, responses, err, backlashMode, rawPosition>>
         \/ /\ s = "ready" /\ sub' = s /\ ConsumeResponses
            /\ UNCHANGED <<line, err, backlashMode, rawPosition>>
  BY PositionSteps
<1>2. /\ s \in SubOf("Position") /\ wheel.homed /\ ~err
      /\ s \notin {"stop", "gain", "enable", "query"} =>
           /\ s = sub /\ Ctl.requested = ctl.requested /\ ~NewTarget
           /\ ctl.mode = "Position" /\ sub # "failed" /\ PositionInv
      /\ s = "stop" => Clear /\ Coasting
      /\ s \in {"gain", "enable"} => Clear /\ wheel.goal = Still
      /\ s = "query" =>
           /\ Clear /\ wheel.goal = Still
           /\ \/ NewTarget /\ sub = "ready" /\ fwType = "sync"
              \/ Ctl.requested = ctl.requested /\ (verifyPos => There) /\ ~NewTarget
      /\ ~Changed /\ ~NewTarget => s = sub
  BY PositionEntry
<1>3. TypeOK /\ LinkTypeOK /\ UNCHANGED <<todo, wheel, fwType>> /\ err \in BOOLEAN
      /\ Ctl.requested \in Int /\ wheel.at \in Int /\ rawPosition \in Int
      /\ fwType \in {"fixed", "sync"}
  <2>1. Targets \subseteq Int
    BY TargetsAreNumbers
  <2> QED
    BY <1>1, <2>1, CtlIs, WheelAssumption DEF IInv, TypeOK, LinkTypeOK, CtlType, WheelType
<1> HIDE DEF s
<1>4. verifyPos' \in BOOLEAN
  BY <1>1, <1>3 DEF TypeOK
<1>5. wheel'.homed
  BY <1>2, <1>3
<1>6. ASSUME sub' \in SubOf("Position") \/ (sub' = "failed" /\ err'), err' \in BOOLEAN,
             LinkTypeOK', PositionInv', backlashMode' \in BOOLEAN, rawPosition' \in Int,
             s = "ready" => sub' = "ready" /\ rawPosition' = rawPosition
      PROVE  CallOK' /\ (~Changed /\ ~NewTarget /\ sub = "ready" => sub' = "ready")
  <2>1. SubOf("Position") = SubOf("Position")'
    BY DEF SubOf
  <2>2. shown' \in Filters \cup {Transition} /\ ShownInv'
    BY <1>1, <1>6, TransitionIsNoFilter DEF ShownInv, FWPosition
  <2>3. InitInv' /\ IdleInv' /\ VelocityInv'
    BY <1>1 DEF InitInv, IdleInv, VelocityInv
  <2>4. errorTimer' \in BOOLEAN /\ lastTarget' \in Speeds \cup {0}
    BY <1>1, <1>3 DEF TypeOK
  <2> QED
    BY <1>1, <1>2, <1>4, <1>6, <2>1, <2>2, <2>3, <2>4 DEF CallOK
<1>7. CASE s \in {"stop", "gain", "enable", "query", "disable"} /\ Send(Ctl, s)
           /\ UNCHANGED <<backlashMode, rawPosition>>
  <2> DEFINE cmd == CommandOf(Ctl, s)
  <2>1. Clear /\ Quiet /\ expected = 0 /\ (s = "stop" => Coasting)
        /\ (s # "stop" => wheel.goal = Still)
    BY <1>2, <1>7 DEF PositionInv, Clear, AtTarget, WheelAtRest
  <2>2. /\ line' = cmd /\ sub' = AckOf[s] /\ responses' = <<>> /\ err' = err
        /\ expected' = IF cmd.kind = "query" THEN 0 ELSE 1
        /\ todo' = <<>>
    BY <1>3, <1>7, <2>1, SendIs DEF Clear, Quiet
  <2>3. /\ s = "stop" => cmd = StopMove /\ sub' = "stopAck"
        /\ s = "gain" => cmd = [kind |-> "gain"] /\ sub' = "gainAck"
        /\ s = "enable" => cmd = [kind |-> "enable"] /\ sub' = "enableAck"
        /\ s = "disable" => cmd = [kind |-> "disable"] /\ sub' = "disableAck"
        /\ s = "query" => cmd = [kind |-> "query", what |-> "Position"] /\ sub' = "queryAnswer"
    <3>1. sub' = AckOf[s]
      BY <2>2
    <3>2. /\ CommandOf(Ctl, "stop") = StopMove
          /\ CommandOf(Ctl, "gain") = [kind |-> "gain"]
          /\ CommandOf(Ctl, "enable") = [kind |-> "enable"]
          /\ CommandOf(Ctl, "disable") = [kind |-> "disable"]
          /\ CommandOf(Ctl, "query") = [kind |-> "query", what |-> "Position"]
      BY CommandIs
    <3> QED
      BY <1>7, <3>1, <3>2 DEF AckOf
  <2>4. cmd \in Commands /\ (s = "query" <=> cmd.kind = "query")
    <3>1. CASE s = "stop"
      BY <2>3, <3>1, StopsAreCommands
    <3>2. CASE s # "stop"
      BY <1>7, <2>3, <3>2 DEF Commands
    <3> QED
      BY <3>1, <3>2
  <2> HIDE DEF cmd
  <2>5. LinkTypeOK'
    BY <1>3, <2>2, <2>4 DEF LinkTypeOK
  <2>6. s = "query" => (verifyPos' => There')
    <3>1. CASE s = "query" /\ NewTarget /\ sub = "ready" /\ fwType = "sync"
      <4>1. ~verifyPos'
        BY <1>1, <3>1
      <4> QED
        BY <4>1
    <3>2. CASE s = "query" /\ Ctl.requested = ctl.requested /\ (verifyPos => There) /\ ~NewTarget
      <4>1. verifyPos' = verifyPos
        BY <1>1, <3>2
      <4>2. There' = There
        BY <1>1, <1>3, <1>7, <3>2 DEF There, Aim
      <4> QED
        BY <3>2, <4>1, <4>2
    <3> QED
      BY <1>2, <3>1, <3>2
  <2>7. s = "disable" => AtTarget'
    BY <1>1, <1>2, <1>3, <1>7 DEF PositionInv, AtTarget, WheelAtRest
  <2>8. s = "stop" => Coasting'
    BY <1>3, <2>1 DEF Coasting
  <2>9. PositionInv'
    <3>1. CASE s = "query"
      BY <1>1, <1>3, <1>5, <1>7, <2>1, <2>2, <2>3, <2>4, <2>6, <3>1 DEF PositionInv, Pending
    <3>2. CASE s = "stop"
      BY <1>1, <1>3, <1>5, <1>7, <2>1, <2>2, <2>3, <2>4, <2>8, <3>2 DEF PositionInv, Pending
    <3>3. CASE s = "disable"
      BY <1>1, <1>3, <1>5, <1>7, <2>1, <2>2, <2>3, <2>4, <2>7, <3>3 DEF PositionInv, Pending
    <3>4. CASE s \in {"gain", "enable"}
      BY <1>1, <1>3, <1>5, <1>7, <2>1, <2>2, <2>3, <2>4, <3>4 DEF PositionInv, Pending
    <3> QED
      BY <1>7, <3>1, <3>2, <3>3, <3>4
  <2> QED
    BY <1>3, <1>6, <1>7, <2>2, <2>3, <2>5, <2>9 DEF SubOf, TypeOK
<1>8. CASE s \in {"stopAck", "gainAck", "enableAck", "moveAck", "disableAck"}
           /\ AwaitAck(Ctl, s, expired)
           /\ expected' = AcksLeft /\ UNCHANGED <<line, backlashMode, rawPosition>>
  <2>1. /\ s = sub /\ Ctl.requested = ctl.requested /\ ~NewTarget /\ ctl.mode = "Position"
        /\ sub # "failed" /\ PositionInv /\ ctl'.requested = ctl.requested /\ ~ctl'.ready
    BY <1>1, <1>2, <1>8
  <2> DEFINE before ==
               /\ sub = "stopAck" => responses = <<>> /\ Coasting
               /\ sub \in {"gainAck", "enableAck", "moveAck"} => responses = <<>> /\ wheel.goal = Still
               /\ sub = "disableAck" => responses = <<>>
             after ==
               /\ sub = "stopAck" =>
                    \/ responses = <<Ack>> /\ (wheel.goal = StopMove \/ Coasting)
                    \/ responses = <<Ack, Notice("velocity")>> /\ wheel.goal = Still
               /\ sub \in {"gainAck", "enableAck"} => responses = <<Ack>> /\ wheel.goal = Still
               /\ sub = "moveAck" =>
                    \/ responses = <<Ack>> /\ (wheel.goal = Still \/ Moving)
                    \/ responses = <<Ack, Notice("move")>> /\ wheel.goal = Still /\ There
               /\ sub = "disableAck" => responses = <<Ack>>
             cmd == CASE sub = "stopAck" -> StopMove
                      [] sub = "gainAck" -> [kind |-> "gain"]
                      [] sub = "enableAck" -> [kind |-> "enable"]
                      [] sub = "moveAck" -> Move
                      [] OTHER -> [kind |-> "disable"]
  <2>2. /\ expected = 1
        /\ \/ line = cmd /\ todo = <<>> /\ before
           \/ line = NoCommand /\ todo = <<cmd>> /\ before
           \/ Quiet /\ Notices
           \/ Quiet /\ after
        /\ sub = "disableAck" => AtTarget
    <3>1. CASE sub = "stopAck"
      BY <2>1, <3>1 DEF PositionInv, Pending, StopMove
    <3>2. CASE sub = "gainAck"
      BY <2>1, <3>2 DEF PositionInv, Pending
    <3>3. CASE sub = "enableAck"
      BY <2>1, <3>3 DEF PositionInv, Pending
    <3>4. CASE sub = "moveAck"
      BY <2>1, <3>4 DEF PositionInv, Pending, Move
    <3>5. CASE sub = "disableAck"
      BY <2>1, <3>5 DEF PositionInv, Pending
    <3> QED
      BY <1>8, <2>1, <3>1, <3>2, <3>3, <3>4, <3>5
  <2>3. cmd # NoCommand
    BY DEF StopMove, Move, NoCommand
  <2>4. before => responses = <<>>
    BY <1>8, <2>1
  <2>5. after => responses = <<Ack>> \/ (\E k : responses = <<Ack, Notice(k)>>)
    BY <1>8, <2>1
  <2> HIDE DEF before, after, cmd
  <2>6. responses = <<>> => Notices
    BY DEF Notices
  <2>7. after => OneAck
    <3>1. responses = <<Ack>> => OneAck
      BY DEF OneAck
    <3>2. ASSUME NEW k, responses = <<Ack, Notice(k)>> PROVE OneAck
      BY <3>2 DEF OneAck, Notice
    <3> QED
      BY <2>5, <3>1, <3>2
  <2>8. Notices => ~OneAck
    BY DEF Notices, OneAck, Ack
  <2>9. line # NoCommand \/ Notices \/ OneAck
    BY <2>2, <2>3, <2>4, <2>6, <2>7
  <2> DEFINE Got == /\ expected' = 0 /\ line = NoCommand /\ OneAck /\ sub' = AfterAck(Ctl, s)
                    /\ responses' = Tail(responses) /\ responses # <<>> /\ responses[1] = Ack
                    /\ \A i \in 1..Len(Tail(responses)) : Tail(responses)[i].kind = "notify"
                    /\ err' = err
             Waits == /\ expected' = 1 /\ responses' = responses
                      /\ \/ sub' = s /\ err' = err
                         \/ sub' = "failed" /\ err' = TRUE
  <2>10. Got \/ Waits
    BY <1>3, <1>8, <2>2, <2>9, AwaitIs
  <2>11. CASE Waits
    <3>1. LinkTypeOK' /\ UNCHANGED <<line, responses, todo, wheel, backlashMode, rawPosition, fwType>>
      BY <1>3, <1>8, <2>11 DEF LinkTypeOK
    <3>2. CASE sub' = "failed"
      BY <1>3, <1>6, <1>8, <2>1, <2>11, <3>1, <3>2 DEF PositionInv, TypeOK
    <3>3. CASE sub' = s
      <4>1. /\ Notices' = Notices /\ Quiet' = Quiet /\ Coasting' = Coasting /\ There' = There
            /\ Moving' = Moving /\ AtTarget' = AtTarget /\ Move' = Move
        BY <2>1, <3>1 DEF Notices, Quiet, Coasting, There, Aim, Moving, AtTarget, WheelAtRest, Move
      <4>2. PositionInv'
        <5>1. sub' = sub /\ expected' = expected /\ ctl'.mode = "Position"
          BY <1>1, <2>1, <2>2, <2>11, <3>3
        <5>2. Move'.kind = Move.kind
          BY <4>1
        <5> QED
          BY <1>5, <1>8, <2>1, <3>1, <4>1, <5>1 DEF PositionInv, Pending
      <4> QED
        BY <1>2, <1>3, <1>6, <1>8, <2>1, <2>11, <3>1, <3>3, <4>2 DEF TypeOK
    <3> QED
      BY <2>11, <3>2, <3>3
  <2>12. CASE Got
    <3>1. /\ s = "stopAck" => sub' = "stopWait"
          /\ s = "gainAck" => sub' = IF fwType = "sync" THEN "query" ELSE "enable"
          /\ s = "enableAck" => sub' = "query"
          /\ s = "moveAck" => sub' = "moveWait"
          /\ s = "disableAck" => sub' = "ready"
      <4>1. sub' = AfterAck(Ctl, s)
        BY <2>12
      <4> QED
        BY <4>1 DEF AfterAck
    <3>2. Quiet /\ after
      BY <2>2, <2>3, <2>4, <2>6, <2>8, <2>12
    <3>3. Quiet' /\ LinkTypeOK'
      <4>1. responses \in Seq(Responses) /\ Tail(responses) \in Seq(Responses)
        BY <1>3, <2>12 DEF LinkTypeOK
      <4> QED
        BY <1>3, <1>8, <2>12, <3>2, <4>1 DEF Quiet, LinkTypeOK
    <3>4. /\ sub = "stopAck" =>
               \/ responses' = <<>> /\ (wheel.goal = StopMove \/ Coasting)
               \/ responses' = <<Notice("velocity")>> /\ wheel.goal = Still
          /\ sub \in {"gainAck", "enableAck"} => responses' = <<>> /\ wheel.goal = Still
          /\ sub = "moveAck" =>
               \/ responses' = <<>> /\ (wheel.goal = Still \/ Moving)
               \/ responses' = <<Notice("move")>> /\ wheel.goal = Still /\ There
          /\ sub = "disableAck" => responses' = <<>> /\ AtTarget
      <4>1. responses = <<Ack>> => responses' = <<>>
        BY <2>12
      <4>2. \A k : responses = <<Ack, Notice(k)>> => responses' = <<Notice(k)>>
        BY <2>12
      <4>3. after /\ (sub = "disableAck" => AtTarget)
        BY <2>2, <3>2
      <4> HIDE DEF Got, Waits
      <4> QED
        BY <4>1, <4>2, <4>3 DEF after
    <3>5. /\ Coasting' = Coasting /\ There' = There /\ Moving' = Moving /\ AtTarget' = AtTarget
      BY <1>3, <1>8, <2>1 DEF Coasting, There, Aim, Moving, AtTarget, WheelAtRest
    <3>6. sub' = "query" => ~verifyPos'
      BY <1>1, <1>8, <2>1, <3>1
    <3>7. expected' = 0 /\ err' = err
      BY <2>12
    <3> HIDE DEF Got, Waits
    <3>8. PositionInv'
      <4>1. CASE sub = "stopAck"
        BY <1>1, <1>3, <1>5, <2>1, <3>1, <3>3, <3>4, <3>5, <3>7, <4>1 DEF PositionInv
      <4>2. CASE sub \in {"gainAck", "enableAck"}
        BY <1>1, <1>3, <1>5, <2>1, <3>1, <3>3, <3>4, <3>5, <3>6, <3>7, <4>2 DEF PositionInv, Clear
      <4>3. CASE sub = "moveAck"
        BY <1>1, <1>3, <1>5, <2>1, <3>1, <3>3, <3>4, <3>5, <3>7, <4>3 DEF PositionInv
      <4>4. CASE sub = "disableAck"
        BY <1>1, <1>3, <1>5, <2>1, <3>1, <3>3, <3>4, <3>5, <3>7, <4>4 DEF PositionInv, Clear
      <4> QED
        BY <1>8, <2>1, <4>1, <4>2, <4>3, <4>4
    <3> QED
      BY <1>3, <1>6, <1>8, <2>1, <3>1, <3>3, <3>7, <3>8 DEF SubOf, TypeOK
  <2> HIDE DEF Got, Waits
  <2> QED
    BY <2>10, <2>11, <2>12
<1>9. CASE s \in {"stopWait", "moveWait"}
  <2>1. /\ s = sub /\ Ctl.requested = ctl.requested /\ ~NewTarget /\ ctl.mode = "Position"
        /\ sub # "failed" /\ PositionInv /\ ctl'.requested = ctl.requested /\ ~ctl'.ready
    BY <1>1, <1>2, <1>9
  <2> DEFINE reads ==
               /\ responses' = IF Notified THEN Tail(responses) ELSE responses
               /\ IF Notified /\ Head(responses).of = (IF s = "stopWait" THEN "velocity" ELSE "move")
                  THEN /\ sub' = IF s = "stopWait" THEN "gain" ELSE "query"
                       /\ err' = err
                  ELSE \/ sub' = s /\ err' = err
                       \/ sub' = "failed" /\ err' = TRUE
             stays == sub' = s /\ err' = err /\ responses' = responses
  <2>2. (reads \/ stays) /\ UNCHANGED <<line, expected, backlashMode, rawPosition>>
    BY <1>1, <1>9
  <2>3. /\ Quiet /\ expected = 0
        /\ s = "stopWait" =>
             \/ responses = <<>> /\ (wheel.goal = StopMove \/ Coasting)
             \/ responses = <<Notice("velocity")>> /\ wheel.goal = Still
        /\ s = "moveWait" =>
             \/ responses = <<>> /\ (wheel.goal = Still \/ Moving)
             \/ responses = <<Notice("move")>> /\ wheel.goal = Still /\ There
    BY <1>9, <2>1 DEF PositionInv
  <2>4. /\ Coasting' = Coasting /\ There' = There /\ Moving' = Moving
    BY <1>3, <2>1, <2>2 DEF Coasting, There, Aim, Moving
  <2>5. CASE responses = <<>>
    <3>1. responses' = <<>> /\ ((sub' = s /\ err' = err) \/ (sub' = "failed" /\ err' = TRUE))
      <4>1. ~Notified
        BY <2>5 DEF Notified
      <4>2. responses' = responses
        BY <2>2, <4>1, Zenon
      <4>3. (sub' = s /\ err' = err) \/ (sub' = "failed" /\ err' = TRUE)
        BY <2>2, <4>1
      <4> QED
        BY <2>5, <4>2, <4>3
    <3>2. Quiet' /\ expected' = 0 /\ LinkTypeOK'
      <4>1. UNCHANGED <<line, expected, responses>>
        BY <2>2, <2>5, <3>1
      <4> QED
        BY <1>3, <2>3, <4>1 DEF Quiet, LinkTypeOK
    <3>3. PositionInv'
      BY <1>1, <1>3, <1>5, <1>9, <2>1, <2>3, <2>4, <2>5, <3>1, <3>2 DEF PositionInv
    <3> QED
      BY <1>2, <1>3, <1>6, <1>9, <2>1, <2>2, <3>1, <3>2, <3>3 DEF TypeOK
  <2>6. CASE stays
    <3>1. /\ sub' = s /\ err' = err
          /\ UNCHANGED <<line, expected, responses, backlashMode, rawPosition>>
      BY <2>2, <2>6
    <3>2. Quiet' /\ expected' = 0 /\ LinkTypeOK'
      BY <1>3, <2>3, <3>1 DEF Quiet, LinkTypeOK
    <3>3. PositionInv'
      BY <1>1, <1>3, <1>5, <1>9, <2>1, <2>3, <2>4, <3>1, <3>2 DEF PositionInv
    <3> QED
      BY <1>2, <1>3, <1>6, <1>9, <2>1, <3>1, <3>2, <3>3 DEF TypeOK
  <2>7. CASE reads /\ \E k : responses = <<Notice(k)>>
    <3>1. Notified /\ responses' = <<>>
      BY <2>3, <2>7 DEF Notified, Notice, Quiet
    <3>2. Head(responses).of = (IF s = "stopWait" THEN "velocity" ELSE "move") /\ wheel.goal = Still
          /\ (s = "moveWait" => There)
      BY <1>9, <2>3, <2>7 DEF Notice
    <3>3. sub' = (IF s = "stopWait" THEN "gain" ELSE "query") /\ err' = err
      BY <2>7, <3>1, <3>2
    <3>4. Clear' /\ LinkTypeOK'
      <4>1. UNCHANGED <<line, expected>> /\ responses' = <<>>
        BY <2>2, <3>1
      <4>2. <<>> \in Seq(Responses)
        OBVIOUS
      <4> QED
        BY <1>3, <2>3, <4>1, <4>2 DEF Clear, Quiet, LinkTypeOK
    <3>5. PositionInv'
      BY <1>1, <1>3, <1>5, <1>9, <2>1, <2>4, <3>2, <3>3, <3>4 DEF PositionInv
    <3> QED
      BY <1>3, <1>6, <1>9, <2>1, <2>2, <3>3, <3>4, <3>5 DEF SubOf, TypeOK
  <2> QED
    BY <1>9, <2>2, <2>3, <2>5, <2>6, <2>7
<1>10. CASE s = "queryAnswer"
  <2>1. /\ s = sub /\ Ctl.requested = ctl.requested /\ ~NewTarget /\ ctl.mode = "Position"
        /\ sub # "failed" /\ PositionInv /\ ctl'.requested = ctl.requested /\ ~ctl'.ready
    BY <1>1, <1>2, <1>10
  <2> DEFINE query == [kind |-> "query", what |-> "Position"]
             v == [kind |-> "value", what |-> "Position", is |-> wheel.at]
  <2>2. /\ expected = 0 /\ wheel.goal = Still /\ (verifyPos => There)
        /\ \/ line = query /\ todo = <<>> /\ responses = <<>>
           \/ line = NoCommand /\ todo = <<query>> /\ responses = <<>>
           \/ Quiet /\ Notices
           \/ Quiet /\ responses = <<v>>
    BY <1>10, <2>1 DEF PositionInv, Pending
  <2>3. responses \in Seq(Responses)
    BY <1>3 DEF LinkTypeOK
  <2>4. AcksLeft = 0 /\ AfterAcks = responses
    BY <2>2, <2>3, NoAckFirst DEF Notices
  <2>5. expected' = 0 /\ UNCHANGED line
    BY <1>1, <1>10, <2>4
  <2>6. verifyPos' = verifyPos
    BY <1>1, <1>10, <2>1
  <2>7. CASE Answered
    <3>1. /\ responses' = Tail(responses) /\ err' = err
          /\ rawPosition' = IF fwType = "sync" THEN wheel.at ELSE Head(responses).is
          /\ sub' = AfterPosition(Ctl, rawPosition')
          /\ backlashMode' = (backlashMode /\ ~verifyPos)
      BY <1>1, <1>10, <2>4, <2>7
    <3>2. line = NoCommand /\ responses # <<>> /\ responses[1].kind = "value"
      BY <2>3, <2>4, <2>7 DEF Answered
    <3>3. Quiet /\ responses = <<v>>
      BY <2>2, <2>3, <3>2 DEF Notices, query, NoCommand
    <3>4. rawPosition' = wheel.at /\ responses' = <<>>
      BY <3>1, <3>3
    <3>5. Clear' /\ LinkTypeOK'
      BY <1>3, <2>5, <3>3, <3>4 DEF Clear, Quiet, LinkTypeOK
    <3>6. /\ sub' \in {"move", "moveDone"}
          /\ sub' = "moveDone" => /\ verifyPos
                                  /\ fwType = "sync" => wheel.at = Ctl.requested
                                  /\ fwType = "fixed" => ~backlashMode
      BY <3>1, <3>4 DEF AfterPosition
    <3>7. sub' = "moveDone" => AtTarget'
      BY <1>1, <1>3, <2>1, <2>2, <3>4, <3>6 DEF There, Aim, AtTarget, WheelAtRest
    <3>8. backlashMode' \in BOOLEAN
      BY <3>1
    <3>9. PositionInv'
      BY <1>1, <1>3, <1>5, <2>1, <2>2, <3>5, <3>6, <3>7 DEF PositionInv
    <3> QED
      BY <1>3, <1>6, <1>10, <3>1, <3>4, <3>5, <3>6, <3>8, <3>9 DEF SubOf
  <2>8. CASE ~Answered
    <3>1. /\ UNCHANGED <<responses, backlashMode, rawPosition>>
          /\ \/ sub' = s /\ err' = err
             \/ sub' = "failed" /\ err' = TRUE
      BY <1>1, <1>10, <2>4, <2>8
    <3>2. LinkTypeOK'
      BY <1>3, <2>5, <3>1 DEF LinkTypeOK
    <3>3. Notices' = Notices /\ Quiet' = Quiet /\ There' = There
      BY <1>3, <2>1, <2>5, <3>1 DEF Notices, Quiet, There, Aim
    <3>4. CASE sub' = "failed"
      BY <1>3, <1>6, <1>10, <3>1, <3>2, <3>4 DEF PositionInv, TypeOK
    <3>5. CASE sub' = s
      <4>1. PositionInv'
        BY <1>1, <1>3, <1>5, <1>10, <2>1, <2>2, <2>5, <2>6, <3>1, <3>3, <3>5
           DEF PositionInv, Pending
      <4> QED
        BY <1>2, <1>3, <1>6, <1>10, <3>1, <3>2, <3>5, <4>1 DEF TypeOK
    <3> QED
      BY <3>1, <3>4, <3>5
  <2> QED
    BY <2>7, <2>8
<1>11. CASE s = "move"
  <2>1. /\ s = sub /\ Ctl.requested = ctl.requested /\ ctl.mode = "Position"
        /\ sub # "failed" /\ PositionInv /\ ctl'.requested = ctl.requested /\ ~ctl'.ready
    BY <1>1, <1>2, <1>11
  <2>2. Clear /\ Quiet /\ wheel.goal = Still /\ expected = 0 /\ responses = <<>>
    BY <1>11, <2>1 DEF PositionInv, Clear
  <2> DEFINE cmd == MoveCommand(Ctl)
  <2>3. /\ Command(cmd, s, "moveAck")
        /\ backlashMode' = IF fwType = "fixed" THEN Backlash(Ctl) ELSE backlashMode
        /\ UNCHANGED <<responses, rawPosition, err>>
    BY <1>1, <1>11
  <2>4. cmd = Move' /\ cmd \in Commands /\ cmd.kind = "move"
    <3> DEFINE rel == fwType = "sync"
               to == IF fwType = "sync" THEN Ctl.requested - rawPosition
                     ELSE IF Backlash(Ctl) THEN Ctl.requested - 1 ELSE Ctl.requested
    <3>1. cmd = [kind |-> "move", relative |-> rel, to |-> to]
      <4>1. (CASE fwType = "sync" -> Ctl.requested - rawPosition
               [] Backlash(Ctl)   -> Ctl.requested - 1
               [] OTHER           -> Ctl.requested) = to
        BY DEF Backlash
      <4> QED
        BY <4>1 DEF MoveCommand
    <3>2. rel \in BOOLEAN /\ to \in Int
      BY <1>3
    <3>3. Aim' = IF backlashMode' THEN Ctl.requested - 1 ELSE Ctl.requested
      BY <1>1 DEF Aim
    <3>4. Move' = [kind |-> "move", relative |-> rel, to |-> to]
      <4>1. (IF fwType' = "sync" THEN ctl'.requested - rawPosition' ELSE Aim') = to
        BY <1>1, <1>3, <2>3, <3>3
      <4>2. (fwType' = "sync") = rel
        BY <1>3
      <4> HIDE DEF to, rel
      <4> QED
        BY <4>1, <4>2 DEF Move
    <3> HIDE DEF rel, to
    <3> QED
      BY <3>1, <3>2, <3>4 DEF Commands
  <2> HIDE DEF cmd
  <2>5. line' = cmd /\ expected' = 1 /\ sub' = "moveAck" /\ todo' = <<>>
    BY <1>3, <2>2, <2>3, <2>4 DEF Command, Quiet
  <2>6. LinkTypeOK' /\ backlashMode' \in BOOLEAN
    BY <1>3, <2>3, <2>4, <2>5 DEF LinkTypeOK, Backlash, TypeOK
  <2>7. PositionInv'
    <3>1. Move'.kind = "move"
      BY <2>4
    <3> QED
      BY <1>1, <1>3, <1>5, <2>1, <2>2, <2>3, <2>4, <2>5, <3>1 DEF PositionInv, Pending
  <2> QED
    BY <1>3, <1>6, <1>11, <2>3, <2>5, <2>6, <2>7 DEF SubOf
<1>12. CASE s \in {"moveDone", "ready"}
  <2>1. /\ s = sub /\ Ctl.requested = ctl.requested /\ ctl.mode = "Position"
        /\ sub # "failed" /\ PositionInv /\ ctl'.requested = ctl.requested
    BY <1>1, <1>2, <1>12
  <2>2. Clear /\ AtTarget
    BY <1>12, <2>1 DEF PositionInv
  <2>3. /\ UNCHANGED <<line, err, backlashMode, rawPosition>>
        /\ s = "moveDone" => sub' \in {"ready", "disable"}
        /\ s = "ready" => sub' = "ready"
        /\ UNCHANGED <<responses, expected>> \/ ConsumeResponses
    BY <1>1, <1>12
  <2>4. Clear' /\ LinkTypeOK'
    <3>1. UNCHANGED <<responses, expected>>
      BY <2>2, <2>3 DEF ConsumeResponses, Clear, Quiet
    <3> QED
      BY <1>3, <2>2, <2>3, <3>1 DEF Clear, Quiet, LinkTypeOK
  <2>5. AtTarget'
    BY <1>3, <2>1, <2>2, <2>3 DEF AtTarget, WheelAtRest
  <2>6. PositionInv'
    BY <1>1, <1>5, <1>12, <2>3, <2>4, <2>5 DEF PositionInv
  <2> QED
    BY <1>3, <1>6, <1>12, <2>3, <2>4, <2>6 DEF SubOf, TypeOK
<1> QED
  <2>1. \/ s \in {"stop", "gain", "enable", "query", "disable"} /\ Send(Ctl, s)
           /\ UNCHANGED <<backlashMode, rawPosition>>
        \/ s \in {"stopAck", "gainAck", "enableAck", "moveAck", "disableAck"}
           /\ AwaitAck(Ctl, s, expired)
           /\ expected' = AcksLeft /\ UNCHANGED <<line, backlashMode, rawPosition>>
        \/ s \in {"stopWait", "moveWait"} \/ s = "queryAnswer" \/ s = "move"
        \/ s \in {"moveDone", "ready"}
    BY <1>1
  <2> QED
    BY <2>1, <1>7, <1>8, <1>9, <1>10, <1>11, <1>12

-----------------------------------------------------------------------------
(* A call, and the theorems.                                               *)

(* After a call the queue still holds the last command, if any.            *)
LEMMA CallQueue ==
  ASSUME IInv, NEW expired \in BOOLEAN, FW_ControllerProcess(expired)
  PROVE  /\ queue' \in Queueable \cup {NoCommand}
         /\ asked' \in CommandType
         /\ asked'.mode = IF fwMode = "Fixed" THEN "Position" ELSE "Velocity"
         /\ asked'.mode = "Velocity" => asked'.target \in Speeds
         /\ ~asked'.raw => asked' = ByRegisters
         /\ queue' # NoCommand =>
              /\ queue'.mode = asked'.mode \/ (queue'.mode = "Error" /\ asked'.mode = "Velocity")
              /\ queue'.target = asked'.target
<1>1. CASE Ctl.mode = "Idle"
  <2>1. /\ ByRegisters \in CommandType
        /\ ByRegisters.mode = (IF fwMode = "Fixed" THEN "Position" ELSE "Velocity")
        /\ ByRegisters.mode = "Velocity" => ByRegisters.target \in Speeds
    BY ByRegistersIs DEF IInv
  <2>2. /\ queue' \in Queueable /\ asked' = ByRegisters /\ queue'.target = asked'.target
        /\ queue'.mode = asked'.mode \/ (queue'.mode = "Error" /\ asked'.mode = "Velocity")
    BY <1>1, IdleCall
  <2> HIDE DEF ByRegisters
  <2> QED
    BY <2>1, <2>2
<1>2. CASE Ctl.mode # "Idle"
  <2>1. queue' \in {NoCommand, queue} /\ asked' = asked
    BY <1>2, CallIs, CtlIs DEF IInv
  <2>2. TypeOK /\ QueueInv
    BY DEF IInv
  <2> QED
    BY <2>1, <2>2 DEF TypeOK, QueueInv, CommandType
<1> QED
  BY <1>1, <1>2

(* A ready mode has carried out the last command.                          *)
LEMMA CallTarget ==
  ASSUME IInv, NEW expired \in BOOLEAN, FW_ControllerProcess(expired),
         Ctl.mode \in {"Velocity", "Position"}
  PROVE  /\ ~Ctl.available
         /\ queue' = NoCommand => Ctl.mode = asked'.mode /\ Ctl.requested = asked'.target
         /\ ~waiting' => sub' = "ready"
<1>1. ~reset /\ ~err /\ QueueInv
  BY EntryVelocity, EntryPosition DEF IInv
<1>2. queue' = Queue1 /\ asked' = asked /\ waiting' = ~(queue = NoCommand /\ ctl.ready)
  BY <1>1, CallIs, Transitions DEF IInv
<1>3. (Changed <=> Ctl.mode # ctl.mode)
  BY <1>1, Transitions DEF IInv
<1>4. ASSUME queue # NoCommand, Ctl.mode = queue.mode, Ctl.requested = queue.target
      PROVE  Ctl.mode = asked.mode /\ Ctl.requested = asked.target
  BY <1>1, <1>4 DEF QueueInv
<1>5. CASE /\ ctl.mode = "Idle" /\ ctl.ready /\ ~Ctl.available
           /\ \/ ctl.available /\ Queue1 = queue
              \/ queue # NoCommand /\ Ctl.mode = queue.mode /\ Ctl.requested = queue.target
  <2>1. queue # NoCommand
    BY <1>5 DEF IInv, IdleInv
  <2> QED
    BY <1>2, <1>4, <1>5, <2>1
<1>6. CASE /\ ctl.mode \in {"Velocity", "Position"} /\ ctl.ready /\ ~Ctl.available
           /\ \/ ctl.available
              \/ queue # NoCommand /\ Ctl.mode = queue.mode /\ Ctl.requested = queue.target
  BY <1>1, <1>2, <1>4, <1>6 DEF QueueInv
<1>7. CASE /\ Ctl.mode = ctl.mode /\ Ctl.requested = ctl.requested /\ ~NewTarget
           /\ Ctl.available = ctl.available /\ Queue1 = queue
  <2>1. ctl.ready => sub = "ready"
    BY <1>1, <1>7, NotFailed DEF IInv, VelocityInv, PositionInv
  <2>2. sub = "ready" => sub' = "ready"
    BY <1>3, <1>7, VelocityCall, PositionCall
  <2> QED
    BY <1>1, <1>2, <1>7, <2>1, <2>2 DEF QueueInv
<1> QED
  BY <1>1, <1>5, <1>6, <1>7, Transitions DEF IInv

(* A call of FW_ControllerProcess keeps the invariant.                     *)
LEMMA ProcessPreserves ==
  ASSUME IInv, NEW expired \in BOOLEAN, FW_ControllerProcess(expired)
  PROVE  IInv'
<1>1. /\ ctl' \in CtlType /\ ctl'.last = ctl'.mode /\ ctl'.mode = Ctl.mode
      /\ ctl'.available = Ctl.available /\ ctl'.newMode = Ctl.newMode
      /\ ctl'.newTarget = Ctl.newTarget /\ ctl'.requested = Ctl.requested
  BY CallStatics
<1>2. reset' = FALSE /\ waiting' \in BOOLEAN /\ UNCHANGED <<host, todo>>
  BY CallIs
<1>3. CallOK'
  <2>1. Ctl.mode \in {"Startup", "Init", "Idle", "Velocity", "Position", "Error"}
    BY CallIs
  <2>2. Ctl.mode = "Idle" => CallOK'
    BY IdleCall
  <2> QED
    BY <2>1, <2>2, StartupCall, InitCall, VelocityCall, PositionCall, ErrorCall
<1>4. TypeOK'
  <2>1. queue' \in Queueable \cup {NoCommand} /\ asked' \in CommandType
    BY CallQueue
  <2>2. /\ sub' \in SubOf(ctl.mode)' \/ (sub' = "failed" /\ (err' \/ reset'))
        /\ err' \in BOOLEAN /\ errorTimer' \in BOOLEAN
        /\ lastTarget' \in Speeds \cup {0} /\ verifyPos' \in BOOLEAN /\ backlashMode' \in BOOLEAN
        /\ rawPosition' \in Int /\ shown' \in Filters \cup {Transition}
        /\ LinkTypeOK'
    BY <1>3 DEF CallOK
  <2>3. TypeOK
    BY DEF IInv
  <2> QED
    BY <1>1, <1>2, <2>1, <2>2, <2>3 DEF TypeOK, CtlType, CommandType
<1>5. RecoveryInv'
  <2>1. ctl'.mode = "Startup" => Quiet'
    <3>1. CASE Ctl.mode = "Startup"
      BY <1>2, <3>1, CallIs, EntryStartup DEF StartupMode, Quiet
    <3> QED
      BY <1>1, <3>1
  <2>2. ctl'.mode = "Error" /\ ctl'.ready => Quiet'
    BY <1>1, ErrorCall
  <2> QED
    BY <1>1, <1>2, <2>1, <2>2 DEF RecoveryInv
<1>6. QueueInv'
  <2>1. ctl'.available /\ ctl'.newMode = "Velocity" => ctl'.newTarget \in Speeds
    <3>1. ctl'.available /\ ctl'.newMode = "Velocity" =>
            \/ ctl.available /\ ctl.newMode = "Velocity" /\ ctl'.newTarget = ctl.newTarget
            \/ queue # NoCommand /\ queue.mode = "Velocity" /\ ctl'.newTarget = queue.target
      BY <1>1, CtlIs DEF IInv
    <3> QED
      BY <3>1 DEF IInv, QueueInv, TypeOK
  <2>2. ByRegisters' = ByRegisters
    BY <1>2 DEF ByRegisters, To, At
  <2> QED
    BY <1>1, <1>2, <2>1, <2>2, CallQueue, CallTarget DEF QueueInv
<1> QED
  BY <1>3, <1>4, <1>5, <1>6 DEF IInv, CallOK

(* The invariant holds at the start.                                       *)
LEMMA InitIInv ==
  Init => IInv
<1> SUFFICES ASSUME Init PROVE IInv
  OBVIOUS
<1> DEFINE startup == "Startup"
           position == "Position"
           false == FALSE
           zero == 0
<1>1. /\ fwType \in WheelTypes /\ fastAllowed = TRUE /\ fwMode = "Fixed" /\ posSetpoint = 0
      /\ speedSetpoint = 0 /\ shown = Transition /\ waiting = TRUE /\ queue = NoCommand
      /\ asked = To(posSetpoint)
      /\ reset = FALSE /\ err = FALSE /\ errorTimer = FALSE
      /\ sub = "setup" /\ lastTarget = 0 /\ verifyPos = FALSE /\ backlashMode = FALSE
      /\ rawPosition = Elsewhere /\ line = NoCommand /\ expected = 0 /\ responses = <<>>
      /\ todo = <<>>
  BY DEF Init
<1>2. /\ ctl \in CtlType /\ ctl.mode = startup /\ ctl.last = startup /\ ctl.available = false
      /\ ctl.ready = false
  <2>1. ctl = [mode |-> startup, last |-> startup, available |-> false, newMode |-> position,
               newTarget |-> posSetpoint, requested |-> posSetpoint, ready |-> false]
    BY DEF Init
  <2>2. startup \in Modes /\ position \in {"Velocity", "Position", "Error"} /\ false \in BOOLEAN
        /\ posSetpoint \in Targets
    BY <1>1, WheelAssumption DEF Modes, Targets, RawPositions
  <2> HIDE DEF startup, position, false
  <2> QED
    BY <2>1, <2>2 DEF CtlType
<1>3. wheel \in WheelType
  <2>1. PICK v \in {zero, Slow} :
          wheel = [at |-> Elsewhere, homed |-> false, enabled |-> v = Slow,
                   speed |-> v, goal |-> Still]
    BY DEF Init
  <2> DEFINE e == v = Slow
  <2>2. Elsewhere \in Int /\ false \in BOOLEAN /\ e \in BOOLEAN /\ v \in Int /\ Still \in Goals
    BY DEF Elsewhere, Slow, Goals
  <2>3. wheel = [at |-> Elsewhere, homed |-> false, enabled |-> e, speed |-> v, goal |-> Still]
    BY <2>1
  <2> HIDE DEF e, false
  <2> QED
    BY <2>2, <2>3 DEF WheelType
<1>4. LinkTypeOK /\ Quiet
  BY <1>1, <1>3 DEF LinkTypeOK, Quiet
<1>5. sub \in SubOf(ctl.mode)
  BY <1>2 DEF SubOf
<1>6. TypeOK
  <2>1. /\ fwType \in WheelTypes /\ fastAllowed \in BOOLEAN /\ fwMode \in {"Fixed", "Rotating"}
        /\ posSetpoint \in Filters
        /\ speedSetpoint \in Speeds \cup (IF fwMode = "Fixed" THEN {0} ELSE {})
        /\ shown \in Filters \cup {Transition} /\ waiting \in BOOLEAN
        /\ queue \in Queueable \cup {NoCommand}
    BY <1>1, WheelAssumption
  <2>4. asked \in [mode : {"Velocity", "Position"}, target : Targets, raw : BOOLEAN]
    BY <1>1, <2>1, CommandsAre DEF CommandType
  <2>2. /\ reset \in BOOLEAN /\ err \in BOOLEAN /\ errorTimer \in BOOLEAN
        /\ lastTarget \in Speeds \cup {0} /\ verifyPos \in BOOLEAN /\ backlashMode \in BOOLEAN
        /\ rawPosition \in Int
    <3>1. Elsewhere \in Int
      BY DEF Elsewhere
    <3>2. TRUE \in BOOLEAN /\ FALSE \in BOOLEAN
      OBVIOUS
    <3> QED
      BY <1>1, <3>1, <3>2
  <2> HIDE DEF startup, position, false, zero
  <2>3. /\ ctl \in [mode : Modes, last : Modes, available : BOOLEAN,
                    newMode : {"Velocity", "Position", "Error"},
                    newTarget : Targets, requested : Targets, ready : BOOLEAN]
        /\ sub \in SubOf(ctl.mode) \/ (sub = "failed" /\ (err \/ reset))
    BY <1>2, <1>5 DEF CtlType
  <2> QED
    BY <1>4, <2>1, <2>2, <2>3, <2>4, Zenon DEF TypeOK
<1>7. RecoveryInv /\ InitInv /\ IdleInv /\ VelocityInv /\ PositionInv
  BY <1>1, <1>2, <1>4 DEF RecoveryInv, InitInv, IdleInv, VelocityInv, PositionInv
<1>8. QueueInv
  <2>1. asked = ByRegisters /\ asked.mode = "Position"
    BY <1>1, <1>6, CommandsAre DEF ByRegisters, TypeOK
  <2> QED
    BY <1>1, <1>2, <2>1 DEF QueueInv
<1>9. ShownInv
  BY <1>1, TransitionIsNoFilter DEF ShownInv
<1> QED
  BY <1>6, <1>7, <1>8, <1>9 DEF IInv

(* FW_ControllerProcess, its mode functions and the link: in every state   *)
(* of every mode the commands and answers on the link are the ones that    *)
(* state expects, whatever was lost, and what is queued or carried out is  *)
(* the last command accepted.                                              *)
THEOREM Invariance ==
  ASSUME ~ResetAnyTime
  PROVE  Spec => []IInv
<1>1. IInv /\ [Next]_vars => IInv'
  <2> SUFFICES ASSUME IInv, [Next]_vars PROVE IInv'
    OBVIOUS
  <2>1. CASE Host
    BY <2>1, HostPreserves
  <2>2. CASE Motor
    BY <2>2, MotorPreserves
  <2>3. CASE \E expired \in BOOLEAN : FW_ControllerProcess(expired)
    BY <2>3, ProcessPreserves
  <2>4. CASE UNCHANGED vars
    <3>1. HostFrame /\ UNCHANGED <<queue, asked, reset, err, errorTimer, waiting, fwMode,
                                   fastAllowed, posSetpoint, speedSetpoint>>
      BY <2>4 DEF vars, HostFrame
    <3>2. /\ LinkTypeOK' /\ RecoveryInv' /\ InitInv' /\ IdleInv' /\ VelocityInv' /\ PositionInv'
          /\ ShownInv'
      BY <3>1, WritesLeaveModes
    <3>3. TypeOK'
      BY <3>1, <3>2 DEF IInv, TypeOK, HostFrame, SubOf
    <3>4. ByRegisters' = ByRegisters
      BY <3>1 DEF ByRegisters, To, At
    <3>5. QueueInv'
      BY <3>1, <3>4 DEF IInv, QueueInv, HostFrame
    <3> QED
      BY <3>2, <3>3, <3>5 DEF IInv
  <2> QED
    BY <2>1, <2>2, <2>3, <2>4 DEF Next
<1> QED
  BY InitIInv, <1>1, PTL DEF Spec

(* FWPosition, which goes into the header of every image (FWController.c,  *)
(* FWPositionMode): it names a filter only while that filter is in front   *)
(* of the detector.                                                        *)
THEOREM FilterShownIsThere ==
  ASSUME ~ResetAnyTime
  PROVE  Spec => []ShownIsThere
<1>1. IInv => ShownIsThere
  BY DEF IInv, ShownInv, PositionInv, AtTarget, ShownIsThere
<1> QED
  BY Invariance, <1>1, PTL

(* WaitingForFilterWheel: when a working mode has cleared it with nothing  *)
(* queued, the wheel is where the last command accepted wants it, or turns *)
(* at that speed, and that command is what the registers ask for unless    *)
(* FWPositionRawSetpoint gave it.                                          *)
THEOREM ClearIsAsAsked ==
  ASSUME ~ResetAnyTime
  PROVE  Spec => []ClearMeansAsAsked
<1>1. IInv => ClearMeansAsAsked
  BY DEF IInv, QueueInv, VelocityInv, PositionInv, AtTarget, WheelAtRest, AsAsked,
         ClearMeansAsAsked
<1> QED
  BY Invariance, <1>1, PTL

=============================================================================
