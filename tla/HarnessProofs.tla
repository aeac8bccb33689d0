--------------------------- MODULE HarnessProofs ---------------------------
(***************************************************************************)
(* No test earns points with what another process left, and a session       *)
(* without faults scores what the programs deserve, for all lists of tests  *)
(* and weights and any number of sessions.                                  *)
(***************************************************************************)
EXTENDS Harness, FiniteSetTheorems, TLAPS

Progs == {"ref", "student"}
File == [test : Nat, agree : Nat]

\* A process belongs to a test.
Started(c) == /\ c.prog \in Progs /\ c.tool \in Tools
              /\ c.test \in DOMAIN Tests[c.tool]

(* The part of the invariant that holds whatever earlier sessions did.      *)
Shape ==
  /\ agree \in [Cases -> Agreements]
  /\ files \in [FileNames -> File]
  /\ tool \in Tools /\ test \in Nat \ {0} /\ at \in Nat \ {0}
  /\ verdicts \in Seq([given : Nat, own : File]) /\ Len(verdicts) = test - 1
  /\ pass \in Nat /\ seen \in [Progs -> File] /\ delivered \in File
  /\ Waiting => /\ session = "running" /\ Started(child)
                /\ child.tool = tool /\ child.test = test
                /\ at \in DOMAIN Script(tool) /\ child.prog = Script(tool)[at]
  /\ \A c \in strays : Started(c)

(* The tests are sequences and their results files.                         *)
LEMMA TestFacts ==
  ASSUME NEW t \in Tools
  PROVE  /\ Len(Tests[t]) \in Nat /\ DOMAIN Tests[t] = 1 .. Len(Tests[t])
         /\ \A n \in DOMAIN Tests[t] : n \in Nat /\ <<t, n>> \in Cases
         /\ \A n \in DOMAIN Tests[t], p \in Progs : FileOf(t, p, n) \in FileNames
<1>1. Len(Tests[t]) \in Nat /\ DOMAIN Tests[t] = 1 .. Len(Tests[t])
  BY HarnessAssumption
<1>2. ASSUME NEW n \in DOMAIN Tests[t]
      PROVE  <<t, n>> \in Cases
  <2>1. <<t, n>> \in {t} \X DOMAIN Tests[t]
    OBVIOUS
  <2> QED
    BY <2>1 DEF Cases
<1>3. ASSUME NEW n \in DOMAIN Tests[t], NEW p \in Progs
      PROVE  FileOf(t, p, n) \in FileNames
  <2> DEFINE c == <<t, n>>
  <2>1. c \in Cases /\ c[1] = t /\ c[2] = n
    BY <1>2
  <2> QED
    BY <2>1 DEF FileNames, Progs
<1> QED
  BY <1>1, <1>2, <1>3

(* A program agrees with the reference in a number of parts.                *)
LEMMA AgreementsType == Agreements \subseteq Nat /\ PARTS \in Nat
<1>1. Agreements \subseteq 0 .. PARTS
  BY Zenon, HarnessAssumption
<1> QED
  BY <1>1 DEF PARTS

(* The constants that stand for files.                                      *)
LEMMA FileFacts ==
  /\ NoFile \in File /\ Cut \in File /\ NoFile # Cut /\ Idle \in [Progs -> File]
  /\ \A n, k \in Nat : Output(n, k) \in File /\ Output(n, k).test = n
                       /\ Output(n, k).agree = k
BY DEF NoFile, Cut, Output, File, Idle, Progs

(* What a process writes is a file.                                         *)
LEMMA OutputType ==
  ASSUME agree \in [Cases -> Agreements], NEW c, Started(c)
  PROVE  OutputOf(c) \in File
<1>1. c.test \in Nat /\ <<c.tool, c.test>> \in Cases
  BY TestFacts DEF Started
<1>2. agree[<<c.tool, c.test>>] \in Agreements
  BY <1>1
<1>3. agree[<<c.tool, c.test>>] \in Nat /\ PARTS \in Nat
  BY <1>2, AgreementsType
<1>4. CASE c.prog = "ref"
  BY <1>1, <1>3, <1>4, FileFacts DEF OutputOf
<1>5. CASE c.prog # "ref"
  BY <1>1, <1>3, <1>5, FileFacts DEF OutputOf
<1> QED
  BY <1>4, <1>5

(* A verdict that is returned is appended to the ones before it.            *)
LEMMA ReturnShape ==
  ASSUME Shape, NEW v \in Nat, Return(v)
  PROVE  /\ verdicts' \in Seq([given : Nat, own : File]) /\ Len(verdicts') = test' - 1
         /\ test' \in Nat \ {0} /\ at' \in Nat \ {0}
         /\ pass' \in Nat /\ seen' \in [Progs -> File] /\ delivered' \in File
<1>1. [given |-> v, own |-> delivered] \in [given : Nat, own : File]
  BY DEF Shape
<1>2. /\ verdicts' \in Seq([given : Nat, own : File])
      /\ Len(verdicts') = Len(verdicts) + 1
  BY <1>1 DEF Return, Shape
<1> QED
  BY <1>2, FileFacts DEF Return, Shape

\* What a step must establish when no process is running after it.
Calm ==
  /\ tool' \in Tools /\ test' \in Nat \ {0} /\ at' \in Nat \ {0}
  /\ verdicts' \in Seq([given : Nat, own : File]) /\ Len(verdicts') = test' - 1
  /\ pass' \in Nat /\ seen' \in [Progs -> File] /\ delivered' \in File

(* The shape of the state after a step that leaves no process running.      *)
LEMMA CalmShape ==
  ASSUME Shape, Calm, agree' = agree, files' \in [FileNames -> File],
         child' = NoChild, strays' \subseteq strays
  PROVE  Shape'
BY DEF Shape, Calm, Waiting

(* The test under way is one of the list.                                   *)
LEMMA TestingCase ==
  ASSUME Shape, Testing
  PROVE  test \in DOMAIN Tests[tool] /\ ~Waiting /\ session = "running"
<1>1. tool \in Tools /\ test \in Nat \ {0}
  BY DEF Shape
<1>2. test <= Len(Tests[tool]) /\ ~Waiting /\ session = "running"
  BY DEF Testing
<1>3. Len(Tests[tool]) \in Nat /\ DOMAIN Tests[tool] = 1 .. Len(Tests[tool])
  BY <1>1, TestFacts
<1> QED
  BY <1>1, <1>2, <1>3

(* A step that goes on with the test.                                       *)
LEMMA AdvanceShape ==
  ASSUME Shape, Advance, tool' = tool,
         pass' \in Nat, seen' \in [Progs -> File], delivered' \in File
  PROVE  Calm
<1>1. at' = at + 1 /\ test' = test /\ verdicts' = verdicts
  BY DEF Advance
<1>2. at' \in Nat \ {0}
  BY <1>1 DEF Shape
<1> QED
  BY <1>1, <1>2 DEF Shape, Calm

(* Every step keeps the shape of the state.                                 *)
LEMMA ShapeNext == Shape /\ [Next]_vars => Shape'
<1> SUFFICES ASSUME Shape, [Next]_vars PROVE Shape'
  OBVIOUS
<1>0. /\ agree \in [Cases -> Agreements] /\ files \in [FileNames -> File]
      /\ pass \in Nat /\ seen \in [Progs -> File] /\ delivered \in File
  BY DEF Shape
<1>1. CASE Begin
  <2>1. verdicts' \in Seq([given : Nat, own : File]) /\ Len(verdicts') = 0
    BY <1>1 DEF Begin
  <2>2. child' = NoChild
    BY <1>1 DEF Begin, Shape, Waiting
  <2>3. Calm
    BY <1>1, <2>1, <1>0, FileFacts DEF Begin, Calm
  <2>4. agree' = agree /\ files' = files /\ strays' \subseteq strays
    BY <1>1 DEF Begin
  <2> QED
    BY <2>2, <2>3, <2>4, <1>0, CalmShape
<1>2. CASE SystemFails
  <2>1. child' = NoChild
    BY <1>2 DEF SystemFails, Testing, Waiting
  <2>2. CASE Return(0)
    BY <1>2, <2>1, <2>2, <1>0, ReturnShape, CalmShape DEF SystemFails, Session, Shape, Calm
  <2>3. CASE Advance /\ pass' = 0 /\ UNCHANGED <<seen, delivered>>
    <3>1. Calm
      BY <1>2, <2>3, <1>0, AdvanceShape DEF SystemFails, Session
    <3> QED
      BY <1>2, <2>1, <3>1, <1>0, CalmShape DEF SystemFails, Session
  <2> QED
    BY <1>2, <2>2, <2>3 DEF SystemFails
<1>3. CASE Launch
  <2>1. /\ test \in DOMAIN Tests[tool] /\ Command \in Progs /\ session = "running"
    BY <1>3, TestFacts DEF Launch, Testing, Shape, Progs
  <2>2. at \in DOMAIN Script(tool) /\ Command = Script(tool)[at]
    BY <1>3 DEF Launch, Command
  <2>3. child' = [prog |-> Command, tool |-> tool, test |-> test] /\ Started(child')
    BY <1>3, <2>1 DEF Launch, Started, Shape
  <2>4. files' \in [FileNames -> File] /\ delivered' \in File
    BY <1>3, <1>0, FileFacts DEF Launch
  <2>5. /\ UNCHANGED <<agree, session, tool, strays, test, at, pass, seen, verdicts>>
        /\ child'.tool = tool' /\ child'.test = test' /\ child'.prog = Script(tool')[at']
        /\ at' \in DOMAIN Script(tool')
    BY <1>3, <2>2, <2>3 DEF Launch, Session
  <2>6. \A c \in strays' : Started(c)
    BY <2>5 DEF Shape
  <2> QED
    BY <2>1, <2>3, <2>4, <2>5, <2>6 DEF Shape
<1>4. CASE Finish
  <2>1. OutputOf(child) \in File
    BY <1>4, <1>0, OutputType DEF Finish, Shape
  <2>2. files' \in [FileNames -> File] /\ delivered' \in File
    BY <1>4, <1>0, <2>1 DEF Finish, Write, Delivers
  <2> QED
    BY <1>4, <2>2, <1>0, CalmShape DEF Finish, Session, Shape, Calm, Advance, Local
<1>5. CASE Fail
  BY <1>5, <1>0, ReturnShape, CalmShape DEF Fail, Session, Shape, Calm
<1>6. CASE Crash
  <2>1. files' \in [FileNames -> File] /\ delivered' \in File
    BY <1>6, <1>0, FileFacts DEF Crash, Write, Delivers
  <2> QED
    BY <1>6, <2>1, <1>0, CalmShape DEF Crash, Session, Shape, Calm, Advance
<1>7. CASE Diff
  <2>1. child' = NoChild /\ pass' \in Nat
    BY <1>7 DEF Diff, Testing, Waiting, PARTS
  <2> QED
    BY <1>7, <2>1, <1>0, CalmShape DEF Diff, Session, Shape, Calm, Advance
<1>8. CASE Remove
  <2>1. child' = NoChild /\ files' \in [FileNames -> File]
    BY <1>8, <1>0, FileFacts DEF Remove, Testing, Waiting
  <2>2. Calm
    BY <1>8, <1>0, AdvanceShape DEF Remove, Session
  <2> QED
    BY <1>8, <2>1, <2>2, <1>0, CalmShape DEF Remove, Session
<1>9. CASE Read
  <2>1. child' = NoChild /\ UNCHANGED <<files, strays, agree, tool>>
    BY <1>9 DEF Read, Testing, Waiting, Session
  <2>2. CASE Return(0)
    BY <2>1, <2>2, <1>0, ReturnShape, CalmShape DEF Shape, Calm
  <2>3. CASE ~Return(0)
    <3>1. PICK prog, c :
            /\ seen' = [seen EXCEPT ![prog] = c] /\ c \in File
            /\ Advance /\ UNCHANGED <<pass, delivered>>
      <4>1. Command \in {"read ref", "read student"} /\ test \in DOMAIN Tests[tool]
        <5>1. Command \in {"read ref", "read student"}
          BY <1>9 DEF Read
        <5>2. Testing
          BY <1>9 DEF Read
        <5> QED
          BY <5>1, <5>2, TestingCase
      <4> DEFINE prog == IF Command = "read ref" THEN "ref" ELSE "student"
                 o == files[FileOf(tool, prog, test)]
                 counters == IF o = Cut THEN {Output(test, k) : k \in Agreements} ELSE {o}
      <4>2. o \in File
        BY <4>1, <1>0, TestFacts DEF Shape, Progs
      <4>3. counters \subseteq File
        <5>1. \A k \in Agreements : Output(test, k) \in File
          BY FileFacts, AgreementsType DEF Shape
        <5> QED
          BY <4>2, <5>1
      <4>4. PICK c \in counters : seen' = [seen EXCEPT ![prog] = c]
        BY <1>9, <2>3 DEF Read
      <4>5. Advance /\ UNCHANGED <<pass, delivered>>
        BY <1>9, <2>3 DEF Read
      <4> QED
        BY <4>3, <4>4, <4>5
    <3>2. seen' \in [Progs -> File]
      BY <3>1, <1>0
    <3> QED
      BY <2>1, <3>1, <3>2, <1>0, CalmShape DEF Shape, Calm, Advance
  <2> QED
    BY <2>2, <2>3
<1>10. CASE EndTest
  <2> DEFINE v == IF tool = "test-se" THEN pass ELSE Agreement(seen["ref"], seen["student"])
  <2>1. v \in Nat
    BY <1>0 DEF Agreement, File, Progs
  <2>2. Return(v) /\ child' = NoChild
    BY <1>10 DEF EndTest, Testing, Waiting
  <2> QED
    BY <1>10, <2>1, <2>2, <1>0, ReturnShape, CalmShape DEF EndTest, Session, Shape, Calm
<1>11. CASE Score
  <2>1. ~Waiting
    BY <1>11, TestFacts DEF Score, Shape, Started
  <2> QED
    BY <1>11, <2>1, <1>0, CalmShape DEF Score, Shape, Calm, Waiting
<1>12. CASE Alarm
  <2>1. \A c \in strays' : Started(c)
    BY <1>12 DEF Alarm, Shape
  <2> QED
    BY <1>12, <2>1 DEF Alarm, Shape, Waiting
<1>13. ASSUME NEW c \in strays, StrayEnds(c) PROVE Shape'
  <2>1. OutputOf(c) \in File
    BY <1>0, OutputType DEF Shape
  <2>2. files' \in [FileNames -> File]
    BY <1>13, <1>0, <2>1 DEF StrayEnds, Write
  <2> QED
    BY <1>13, <2>2 DEF StrayEnds, Shape, Waiting
<1>14. CASE UNCHANGED vars
  BY <1>14 DEF vars, Shape, Waiting
<1> QED
  BY <1>1, <1>2, <1>3, <1>4, <1>5, <1>6, <1>7, <1>8, <1>9, <1>10, <1>11, <1>12, <1>13, <1>14
     DEF Next

\* The student's results as the test under way will read them.
Result == files[FileOf(tool, "student", test)]

\* In test-se the checkpoint is this test's from the student's start on.
FreshSe ==
  /\ at = 2 /\ Waiting => Result = Cut
  /\ at = 3 => \/ Result = Cut
               \/ Result = delivered /\ delivered.test = test
  /\ at <= 3 => pass = 0
  /\ at >= 4 => \/ pass = 0
                \/ pass = PARTS /\ delivered = Output(test, PARTS)

\* In test-csim .csim_results is removed before the student's start.
FreshCsim ==
  /\ at <= 5 => delivered = NoFile
  /\ at = 5 => Result = NoFile
  /\ at = 6 => Result = delivered /\ (Result \in {NoFile, Cut} \/ Result.test = test)
  /\ at >= 7 => \/ delivered = Cut
                \/ seen["student"] = delivered /\ delivered.test = test

\* No process of an earlier session interferes.
Fresh ==
  session = "running" /\ undisturbed =>
    /\ strays = {}
    /\ tool = "test-se" => FreshSe
    /\ tool = "test-csim" => FreshCsim

EarnedInv == Shape /\ Fresh /\ PassEarned

(* The step at which each command of a script is carried out.               *)
LEMMA CommandSe ==
  ASSUME tool = "test-se", at \in Nat \ {0}
  PROVE  /\ at = 1 <=> Command = "ref"
         /\ at = 2 <=> Command = "student"
         /\ at = 3 <=> Command = "diff"
         /\ at = 4 <=> Command = "rm ref"
         /\ at = 5 <=> Command = "rm student"
         /\ at >= 6 <=> Command = "return"
         /\ Command \in {"ref", "student", "diff", "rm ref", "rm student", "return"}
<1> DEFINE s == <<"ref", "student", "diff", "rm ref", "rm student">>
<1>1. Script(tool) = s
  BY DEF Script
<1>2. /\ DOMAIN s = 1 .. 5
      /\ s[1] = "ref" /\ s[2] = "student" /\ s[3] = "diff"
      /\ s[4] = "rm ref" /\ s[5] = "rm student"
  OBVIOUS
<1> HIDE DEF s
<1>3. Command = IF at \in 1 .. 5 THEN s[at] ELSE "return"
  BY <1>1, <1>2 DEF Command
<1>4. CASE at <= 5
  <2>1. at = 1 \/ at = 2 \/ at = 3 \/ at = 4 \/ at = 5
    BY <1>4
  <2>2. Command = s[at] /\ ~(at >= 6)
    BY <1>3, <1>4
  <2> QED
    BY <1>2, <2>1, <2>2
<1>5. CASE at >= 6
  <2>1. Command = "return" /\ at \notin 1 .. 5
    BY <1>3, <1>5
  <2> QED
    BY <1>5, <2>1
<1>6. at <= 5 \/ at >= 6
  OBVIOUS
<1> QED
  BY <1>4, <1>5, <1>6

LEMMA CommandCsim ==
  ASSUME tool = "test-csim", at \in Nat \ {0}
  PROVE  /\ at \in {1, 4, 7} <=> Command = "rm"
         /\ at = 2 <=> Command = "ref"
         /\ at = 3 <=> Command = "read ref"
         /\ at = 5 <=> Command = "student"
         /\ at = 6 <=> Command = "read student"
         /\ at >= 8 <=> Command = "return"
         /\ Command \in {"rm", "ref", "read ref", "student", "read student", "return"}
<1> DEFINE s == <<"rm", "ref", "read ref", "rm", "student", "read student", "rm">>
<1>1. Script(tool) = s
  BY DEF Script
<1>2. /\ DOMAIN s = 1 .. 7
      /\ s[1] = "rm" /\ s[2] = "ref" /\ s[3] = "read ref" /\ s[4] = "rm"
      /\ s[5] = "student" /\ s[6] = "read student" /\ s[7] = "rm"
  OBVIOUS
<1> HIDE DEF s
<1>3. Command = IF at \in 1 .. 7 THEN s[at] ELSE "return"
  BY <1>1, <1>2 DEF Command
<1>4. CASE at <= 7
  <2>1. at = 1 \/ at = 2 \/ at = 3 \/ at = 4 \/ at = 5 \/ at = 6 \/ at = 7
    BY <1>4
  <2>2. Command = s[at] /\ ~(at >= 8)
    BY <1>3, <1>4
  <2> QED
    BY <1>2, <2>1, <2>2
<1>5. CASE at >= 8
  <2>1. Command = "return" /\ at \notin 1 .. 7
    BY <1>3, <1>5
  <2> QED
    BY <1>5, <2>1
<1>6. at <= 7 \/ at >= 8
  OBVIOUS
<1> QED
  BY <1>4, <1>5, <1>6

(* While a process runs, its command is the one under way.                  *)
LEMMA WaitingCase ==
  ASSUME Shape, Waiting
  PROVE  /\ test \in DOMAIN Tests[tool] /\ session = "running"
         /\ child.tool = tool /\ child.test = test
         /\ child.prog = Command /\ Command \in Progs
<1>1. /\ session = "running" /\ Started(child) /\ child.tool = tool /\ child.test = test
      /\ at \in DOMAIN Script(tool) /\ child.prog = Script(tool)[at]
  BY DEF Shape
<1> QED
  BY <1>1 DEF Started, Command

(* A test that begins has everything before it.                             *)
LEMMA FreshReturned ==
  ASSUME Fresh, NEW v, Return(v),
         UNCHANGED <<session, undisturbed, strays, tool>>
  PROVE  Fresh'
BY DEF Fresh, FreshSe, FreshCsim, Return

(* A step outside an undisturbed session needs no argument.                 *)
LEMMA FreshOutside ==
  ASSUME UNCHANGED <<session, undisturbed>>, ~(session = "running" /\ undisturbed)
  PROVE  Fresh'
BY DEF Fresh

(* Every step of an undisturbed session keeps the files and results of the  *)
(* test under way its own.                                                  *)
LEMMA FreshNext == EarnedInv /\ [Next]_vars => Fresh'
<1> SUFFICES ASSUME Shape, Fresh, [Next]_vars PROVE Fresh'
  BY DEF EarnedInv
<1>0. at \in Nat \ {0} /\ tool \in Tools /\ files \in [FileNames -> File]
  BY DEF Shape
<1>1. CASE Begin
  <2>1. at' = 1 /\ pass' = 0 /\ delivered' = NoFile
    BY <1>1 DEF Begin
  <2>2. undisturbed' => strays' = {}
    BY <1>1, Zenon DEF Begin
  <2> QED
    BY <2>1, <2>2 DEF Fresh, FreshSe, FreshCsim
<1>2. CASE SystemFails
  <2>1. CASE Return(0)
    BY <1>2, <2>1, FreshReturned DEF SystemFails, Session
  <2>2. CASE Command = "diff" /\ Advance /\ pass' = 0
    <3>1. tool = "test-se" /\ at = 3
      BY <2>2, <1>0, CommandSe, CommandCsim DEF Tools
    <3> QED
      BY <1>2, <2>2, <3>1 DEF SystemFails, Session, Fresh, FreshSe, Advance
  <2> QED
    BY <1>2, <2>1, <2>2 DEF SystemFails
<1>3. CASE Launch
  <2>1. /\ Command \in Progs /\ test \in DOMAIN Tests[tool]
        /\ UNCHANGED <<session, undisturbed, strays, tool, test, at, pass>>
    BY <1>3, TestingCase DEF Launch, Session, Progs
  <2>2. CASE tool = "test-se"
    <3>1. at = 1 \/ (at = 2 /\ Command = "student")
      <4>1. Command = "ref" \/ Command = "student"
        BY <2>1 DEF Progs
      <4>2. (at = 1 <=> Command = "ref") /\ (at = 2 <=> Command = "student")
        BY <2>2, <1>0, CommandSe
      <4> QED
        BY <4>1, <4>2
    <3>2. Command = "student" => Result' = Cut
      BY <1>3, <2>1, <2>2, <1>0, TestFacts DEF Launch, Result, Progs
    <3> QED
      BY <2>1, <2>2, <3>1, <3>2 DEF Fresh, FreshSe
  <2>3. CASE tool = "test-csim"
    <3>1. at = 2 \/ (at = 5 /\ Command = "student")
      <4>1. Command = "ref" \/ Command = "student"
        BY <2>1 DEF Progs
      <4>2. (at = 2 <=> Command = "ref") /\ (at = 5 <=> Command = "student")
        BY <2>3, <1>0, CommandCsim
      <4> QED
        BY <4>1, <4>2
    <3>2. Result' = Result /\ (delivered' = NoFile \/ delivered' = delivered)
      BY <1>3, <2>1, <2>3 DEF Launch, Result
    <3> QED
      BY <2>1, <2>3, <3>1, <3>2 DEF Fresh, FreshCsim
  <2> QED
    BY <2>2, <2>3, <1>0 DEF Tools
<1>4. CASE Finish \/ Crash
  <2>1. /\ test \in DOMAIN Tests[tool] /\ Waiting /\ child.tool = tool /\ child.test = test
        /\ child.prog = Command /\ Command \in Progs
    BY <1>4, WaitingCase DEF Finish, Crash
  <2>2. /\ UNCHANGED <<session, undisturbed, strays, tool, test, pass, seen>>
        /\ at' = at + 1 /\ ~Waiting'
    BY <1>4 DEF Finish, Crash, Session, Local, Advance, Waiting
  <2>3. CASE Command = "ref"
    <3>1. delivered' = delivered
      BY <1>4, <2>1, <2>3 DEF Finish, Crash, Delivers
    <3>2. CASE tool = "test-se"
      <4>1. at = 1
        BY <2>3, <3>2, <1>0, CommandSe
      <4> QED
        BY <2>2, <3>2, <4>1 DEF Fresh, FreshSe
    <3>3. CASE tool = "test-csim"
      <4>1. at = 2
        BY <2>3, <3>3, <1>0, CommandCsim
      <4> QED
        BY <2>2, <3>1, <3>3, <4>1 DEF Fresh, FreshCsim
    <3> QED
      BY <3>2, <3>3, <1>0 DEF Tools
  <2>4. CASE Command = "student"
    <3>1. \/ Result' = delivered' /\ (delivered' = Cut \/ delivered'.test = test)
          \/ Result' = Result /\ delivered' = delivered
      <4>1. ASSUME NEW o, Write(child, o), Delivers(o)
            PROVE  Result' = o /\ delivered' = o
        BY <2>1, <2>2, <2>4, <4>1, <1>0, TestFacts DEF Write, Delivers, Result, Progs
      <4>2. OutputOf(child).test = test
        BY <2>1 DEF OutputOf, Output
      <4>3. CASE Finish
        BY <4>1, <4>2, <4>3 DEF Finish
      <4>4. CASE Crash
        <5>1. CASE UNCHANGED <<files, delivered>>
          BY <2>2, <5>1 DEF Result
        <5>2. CASE Write(child, Cut) /\ Delivers(Cut)
          BY <4>1, <5>2
        <5> QED
          BY <4>4, <5>1, <5>2 DEF Crash
      <4> QED
        BY <1>4, <4>3, <4>4
    <3>2. CASE tool = "test-se"
      <4>1. at = 2
        BY <2>4, <3>2, <1>0, CommandSe
      <4>2. at' = 3
        BY <2>2, <4>1
      <4> QED
        BY <2>1, <2>2, <3>1, <3>2, <4>1, <4>2 DEF Fresh, FreshSe
    <3>3. CASE tool = "test-csim"
      <4>1. at = 5
        BY <2>4, <3>3, <1>0, CommandCsim
      <4>2. at' = 6
        BY <2>2, <4>1
      <4> QED
        BY <2>2, <3>1, <3>3, <4>1, <4>2 DEF Fresh, FreshCsim
    <3> QED
      BY <3>2, <3>3, <1>0 DEF Tools
  <2> QED
    BY <2>1, <2>3, <2>4 DEF Progs
<1>5. CASE Fail
  BY <1>5, FreshReturned DEF Fail, Session
<1>7. CASE Diff
  <2>1. tool = "test-se" /\ at = 3 /\ Testing /\ test \in DOMAIN Tests[tool]
    BY <1>7, <1>0, CommandSe, CommandCsim, TestingCase DEF Diff, Tools
  <2>2. /\ UNCHANGED <<session, undisturbed, strays, tool, test, delivered>> /\ at' = 4
    BY <1>7, <2>1 DEF Diff, Session, Advance
  <2>3. CASE Agreement(files[FileOf(tool, "ref", test)], Result) = PARTS
    <3>1. Result.agree = PARTS /\ Result # Cut
      BY <2>3 DEF Agreement, PARTS, Cut, Output
    <3>2. pass' = PARTS
      BY <1>7, <2>3 DEF Diff, Result
    <3>3. Fresh => ~(session = "running" /\ undisturbed) \/ delivered = Output(test, PARTS)
      <4> SUFFICES ASSUME Result = delivered, delivered.test = test
                   PROVE  delivered = Output(test, PARTS)
        BY <2>1, <3>1 DEF Fresh, FreshSe
      <4> QED
        BY <3>1 DEF Shape, File, Output
    <3> QED
      BY <2>1, <2>2, <3>2, <3>3 DEF Fresh, FreshSe
  <2>4. CASE Agreement(files[FileOf(tool, "ref", test)], Result) # PARTS
    <3>1. pass' = 0
      BY <1>7, <2>4 DEF Diff, Result
    <3> QED
      BY <2>1, <2>2, <3>1 DEF Fresh, FreshSe
  <2> QED
    BY <2>3, <2>4
<1>8. CASE Remove
  <2>1. /\ test \in DOMAIN Tests[tool] /\ Command \in {"rm", "rm ref", "rm student"}
        /\ UNCHANGED <<session, undisturbed, strays, tool, test, pass, seen, delivered>>
        /\ at' = at + 1
    BY <1>8, TestingCase DEF Remove, Session, Advance
  <2>2. CASE tool = "test-se"
    <3>1. at = 4 \/ at = 5
      BY <2>1, <2>2, <1>0, CommandSe
    <3>2. at >= 4 /\ at' >= 4 /\ ~(at' <= 3) /\ at' # 2 /\ at' # 3
      <4>1. at' = at + 1
        BY <2>1
      <4> QED
        BY <3>1, <4>1
    <3> QED
      BY <2>1, <2>2, <3>2 DEF Fresh, FreshSe
  <2>3. CASE tool = "test-csim"
    <3>1. Command = "rm" /\ (at = 1 \/ at = 4 \/ at = 7)
      BY <2>1, <2>3, <1>0, CommandCsim
    <3>2. Result' = NoFile
      BY <1>8, <2>1, <3>1, <1>0, TestFacts DEF Remove, Result, Progs
    <3> QED
      BY <2>1, <2>3, <3>1, <3>2 DEF Fresh, FreshCsim
  <2> QED
    BY <2>2, <2>3, <1>0 DEF Tools
<1>9. CASE Read
  <2>1. Command = "read ref" \/ Command = "read student"
    BY <1>9 DEF Read
  <2>2. UNCHANGED <<session, undisturbed, strays, tool>>
    BY <1>9 DEF Read, Session
  <2>3. tool = "test-csim"
    BY <2>1, <1>0, CommandSe DEF Tools
  <2>4. CASE Return(0)
    BY <2>2, <2>4, FreshReturned
  <2>5. CASE ~Return(0)
    <3>1. at' = at + 1 /\ UNCHANGED <<test, delivered>>
      BY <1>9, <2>5 DEF Read, Advance
    <3>2. CASE Command = "read ref"
      <4>1. at = 3
        BY <3>2, <2>3, <1>0, CommandCsim
      <4>2. at' = 4
        BY <3>1, <4>1
      <4> QED
        BY <2>2, <2>3, <3>1, <4>1, <4>2 DEF Fresh, FreshCsim
    <3>3. CASE Command = "read student"
      <4>1. at = 6
        BY <3>3, <2>3, <1>0, CommandCsim
      <4>2. at' = 7
        BY <3>1, <4>1
      <4>3. Result # NoFile /\ (Result # Cut => seen' = [seen EXCEPT !["student"] = Result])
        BY <1>9, <2>5, <3>3 DEF Read, Result
      <4>4. Result # Cut => seen'["student"] = Result
        BY <4>3 DEF Shape, Progs
      <4> QED
        BY <2>2, <2>3, <3>1, <4>1, <4>2, <4>3, <4>4 DEF Fresh, FreshCsim
    <3> QED
      BY <2>1, <3>2, <3>3
  <2> QED
    BY <2>4, <2>5
<1>10. CASE EndTest
  BY <1>10, FreshReturned DEF EndTest, Session
<1>11. CASE Score \/ Alarm
  BY <1>11 DEF Score, Alarm, Fresh
<1>13. ASSUME NEW c \in strays, StrayEnds(c) PROVE Fresh'
  <2>1. UNCHANGED <<session, undisturbed>> /\ ~(session = "running" /\ undisturbed)
    BY <1>13 DEF StrayEnds, Fresh
  <2> QED
    BY <2>1, FreshOutside
<1>14. CASE UNCHANGED vars
  BY <1>14 DEF vars, Fresh, FreshSe, FreshCsim, Result, Waiting
<1> QED
  BY <1>1, <1>2, <1>3, <1>4, <1>5, <1>7, <1>8, <1>9, <1>10, <1>11, <1>13, <1>14
     DEF Next

(* A step that returns no verdict keeps what the verdicts are worth.        *)
LEMMA VerdictsKept ==
  ASSUME PassEarned, UNCHANGED <<undisturbed, tool, verdicts>>
  PROVE  PassEarned'
BY DEF PassEarned

(* A verdict that is returned must have been earned.                        *)
LEMMA VerdictReturned ==
  ASSUME Shape, PassEarned, NEW v \in Nat, Return(v), UNCHANGED <<undisturbed, tool>>,
         undisturbed /\ v > 0 => \/ delivered = Output(test, v)
                                 \/ tool = "test-csim" /\ delivered = Cut
  PROVE  PassEarned'
<1> DEFINE r == [given |-> v, own |-> delivered]
<1>1. verdicts \in Seq([given : Nat, own : File]) /\ Len(verdicts) = test - 1
  BY DEF Shape
<1>2. r \in [given : Nat, own : File] /\ verdicts' = Append(verdicts, r)
  BY DEF Shape, Return
<1>3. /\ DOMAIN verdicts' = DOMAIN verdicts \cup {test}
      /\ verdicts'[test] = r
      /\ \A n \in DOMAIN verdicts : verdicts'[n] = verdicts[n]
  BY <1>1, <1>2 DEF Shape
<1>4. ASSUME undisturbed, NEW n \in DOMAIN verdicts', verdicts'[n].given > 0
      PROVE  \/ verdicts'[n].own = Output(n, verdicts'[n].given)
             \/ tool = "test-csim" /\ verdicts'[n].own = Cut
  <2>1. CASE n = test
    BY <1>3, <1>4, <2>1
  <2>2. CASE n \in DOMAIN verdicts
    BY <1>3, <1>4, <2>2 DEF PassEarned
  <2> QED
    BY <1>3, <2>1, <2>2
<1> QED
  BY <1>4 DEF PassEarned

(* Every verdict a step returns was earned.                                 *)
LEMMA PassNext == EarnedInv /\ [Next]_vars => PassEarned'
<1> SUFFICES ASSUME Shape, Fresh, PassEarned, [Next]_vars PROVE PassEarned'
  BY DEF EarnedInv
<1>0. at \in Nat \ {0} /\ tool \in Tools
  BY DEF Shape
<1>1. CASE Begin
  BY <1>1 DEF Begin, PassEarned
<1>2. ASSUME Return(0), Session PROVE PassEarned'
  BY <1>2, VerdictReturned DEF Session
<1>3. ASSUME Advance, Session PROVE PassEarned'
  BY <1>3, VerdictsKept DEF Advance, Session
<1>4. CASE SystemFails \/ Read
  BY <1>2, <1>3, <1>4 DEF SystemFails, Read
<1>5. CASE Finish \/ Crash \/ Diff \/ Remove
  BY <1>3, <1>5 DEF Finish, Crash, Diff, Remove
<1>6. CASE Fail
  BY <1>2, <1>6 DEF Fail
<1>7. CASE Launch
  BY <1>7, VerdictsKept DEF Launch, Session
<1>8. CASE EndTest
  <2> DEFINE v == IF tool = "test-se" THEN pass ELSE Agreement(seen["ref"], seen["student"])
  <2>1. Return(v) /\ UNCHANGED <<undisturbed, tool>> /\ session = "running" /\ v \in Nat
    <3>1. v \in Nat
      BY DEF Agreement, Shape, File, Progs
    <3> QED
      BY <1>8, <3>1 DEF EndTest, Session, Testing
  <2>2. Command = "return"
    BY <1>8 DEF EndTest
  <2>3. ASSUME undisturbed, v > 0
        PROVE  \/ delivered = Output(test, v)
               \/ tool = "test-csim" /\ delivered = Cut
    <3>1. CASE tool = "test-se"
      <4>1. at >= 6
        BY <2>2, <3>1, <1>0, CommandSe
      <4> QED
        BY <2>1, <2>3, <3>1, <4>1, <1>0 DEF Fresh, FreshSe
    <3>2. CASE tool = "test-csim" /\ delivered # Cut
      <4>1. at >= 8
        BY <2>2, <3>2, <1>0, CommandCsim
      <4>2. seen["student"] = delivered /\ delivered.test = test
        BY <2>1, <2>3, <3>2, <4>1, <1>0 DEF Fresh, FreshCsim
      <4>3. v = delivered.agree
        BY <2>3, <3>2, <4>2 DEF Agreement
      <4> QED
        BY <4>2, <4>3 DEF Shape, File, Output
    <3> QED
      BY <3>1, <3>2, <1>0 DEF Tools
  <2> QED
    BY <2>1, <2>3, VerdictReturned
<1>9. CASE Score \/ Alarm
  BY <1>9, VerdictsKept DEF Score, Alarm
<1>10. ASSUME NEW c \in strays, StrayEnds(c) PROVE PassEarned'
  BY <1>10, VerdictsKept DEF StrayEnds
<1>11. CASE UNCHANGED vars
  BY <1>11, VerdictsKept DEF vars
<1> QED
  BY <1>1, <1>4, <1>5, <1>6, <1>7, <1>8, <1>9, <1>10, <1>11 DEF Next

(* Before the first session there is nothing to earn.                       *)
LEMMA EarnedInit == Init => EarnedInv
<1> SUFFICES ASSUME Init PROVE EarnedInv
  OBVIOUS
<1>1. files \in [FileNames -> File] /\ ~Waiting
  BY FileFacts DEF Init, Waiting
<1>2. verdicts \in Seq([given : Nat, own : File]) /\ Len(verdicts) = 0
  BY DEF Init
<1>3. Shape
  BY <1>1, <1>2, FileFacts DEF Init, Shape, Tools
<1> QED
  BY <1>3 DEF Init, EarnedInv, Fresh, PassEarned

(* A test that counts was earned by the process started for it, for all     *)
(* lists of tests, weights and numbers of sessions and however processes    *)
(* end: run_test and runtrace read nothing an earlier test left.            *)
THEOREM PassEarnedHolds == Spec => []PassEarned
<1>1. EarnedInv /\ [Next]_vars => EarnedInv'
  BY ShapeNext, FreshNext, PassNext DEF EarnedInv
<1>2. EarnedInv => PassEarned
  BY DEF EarnedInv
<1> QED
  BY <1>1, <1>2, EarnedInit, PTL DEF Spec

-----------------------------------------------------------------------------
\* The results of the reference, and what test n is worth.
RefResult == files[FileOf(tool, "ref", test)]
Parts(n) == agree[<<tool, n>>]
Deserved(n) == IF tool = "test-se" THEN IF Parts(n) = PARTS THEN PARTS ELSE 0 ELSE Parts(n)

\* In test-se both checkpoints are complete when they are compared.
ExactSe ==
  /\ at \in {2, 3} => RefResult = Output(test, PARTS)
  /\ at = 3 => Result = Output(test, Parts(test))
  /\ at >= 4 => pass = Deserved(test)

\* In test-csim each result is read before the next program starts.
ExactCsim ==
  /\ at = 3 => Result = Output(test, PARTS)
  /\ at >= 4 => seen["ref"] = Output(test, PARTS)
  /\ at = 6 => Result = Output(test, Parts(test))
  /\ at >= 7 => seen["student"] = Output(test, Parts(test))

\* Without faults the results of the test under way are the programs' own,
Exact ==
  session = "running" /\ quiet =>
    /\ strays = {}
    /\ tool = "test-se" => ExactSe
    /\ tool = "test-csim" => ExactCsim

\* and those of the tests before are what they deserve.
Just == session = "running" /\ quiet => \A n \in DOMAIN verdicts : verdicts[n].given = Deserved(n)

ScoreInv == Shape /\ Exact /\ Just /\ ScoreExact

(* A test that begins has everything before it.                             *)
LEMMA ExactReturned ==
  ASSUME Exact, NEW v, Return(v),
         UNCHANGED <<session, strays, tool>>, quiet' => quiet
  PROVE  Exact'
BY DEF Exact, ExactSe, ExactCsim, Return

(* A step outside a session without faults needs no argument.               *)
LEMMA ExactOutside ==
  ASSUME ~(session' = "running" /\ quiet')
  PROVE  Exact' /\ Just'
BY Zenon DEF Exact, Just

(* The files the programs of a test write.                                  *)
LEMMA ResultFiles ==
  ASSUME Shape, test \in DOMAIN Tests[tool]
  PROVE  /\ FileOf(tool, "ref", test) \in FileNames /\ FileOf(tool, "student", test) \in FileNames
         /\ tool = "test-se" => FileOf(tool, "ref", test) # FileOf(tool, "student", test)
         /\ tool = "test-csim" => FileOf(tool, "ref", test) = FileOf(tool, "student", test)
<1>1. tool \in Tools
  BY DEF Shape
<1>2. FileOf(tool, "ref", test) \in FileNames /\ FileOf(tool, "student", test) \in FileNames
  BY <1>1, TestFacts DEF Progs
<1>3. tool = "test-se" => FileOf(tool, "ref", test) # FileOf(tool, "student", test)
  <2>1. ASSUME tool = "test-se"
        PROVE  FileOf(tool, "ref", test).prog = "ref" /\ FileOf(tool, "student", test).prog = "student"
    BY <2>1 DEF FileOf
  <2> QED
    BY <2>1
<1>4. tool = "test-csim" => FileOf(tool, "ref", test) = FileOf(tool, "student", test)
  BY DEF FileOf
<1> QED
  BY <1>2, <1>3, <1>4

(* The student's parts of a test, and why its output is taken for neither   *)
(* an empty file nor none.                                                  *)
LEMMA PartsFacts ==
  ASSUME Shape, test \in DOMAIN Tests[tool]
  PROVE  /\ Parts(test) \in Nat /\ Parts(test) <= PARTS
         /\ \A k \in Nat : Output(test, k) # Cut /\ Output(test, k) # NoFile
<1>1. tool \in Tools /\ agree \in [Cases -> Agreements] /\ test \in Nat \ {0}
  BY DEF Shape
<1>2. <<tool, test>> \in Cases
  BY <1>1, TestFacts
<1>3. Parts(test) \in Agreements
  BY <1>1, <1>2 DEF Parts
<1>4. Agreements \subseteq 0 .. PARTS
  BY Zenon, HarnessAssumption
<1>5. \A k \in Nat : Output(test, k).test = test
  BY DEF Output
<1>6. Cut.test = 0 /\ NoFile.test = 0
  BY DEF Output, Cut, NoFile
<1>7. \A k \in Nat : Output(test, k) # Cut /\ Output(test, k) # NoFile
  <2> SUFFICES ASSUME NEW k \in Nat PROVE Output(test, k).test # 0
    BY <1>6
  <2> QED
    BY <1>1, <1>5
<1>8. Parts(test) \in 0 .. PARTS
  BY <1>3, <1>4, Zenon
<1>9. Parts(test) \in Nat /\ Parts(test) <= PARTS
  BY <1>8 DEF PARTS
<1> QED
  BY <1>7, <1>9

(* Without faults runtrace finds every result it reads.                     *)
LEMMA ReadCase ==
  ASSUME Shape, Exact, Read, session' = "running", quiet'
  PROVE  /\ UNCHANGED <<session, quiet, strays, tool, agree>>
         /\ tool = "test-csim" /\ Advance
         /\ \/ at = 3 /\ seen' = [seen EXCEPT !["ref"] = Output(test, PARTS)]
            \/ at = 6 /\ seen' = [seen EXCEPT !["student"] = Output(test, Parts(test))]
<1>0. at \in Nat \ {0} /\ tool \in Tools
  BY DEF Shape
<1>1. Testing /\ (Command = "read ref" \/ Command = "read student")
  BY DEF Read
<1>2. UNCHANGED <<session, quiet, strays, tool, agree>>
  BY DEF Read, Session
<1>3. tool = "test-csim" /\ test \in DOMAIN Tests[tool]
  BY <1>0, <1>1, CommandSe, TestingCase DEF Tools
<1>4. ASSUME NEW p \in Progs, NEW k \in Nat, files[FileOf(tool, p, test)] = Output(test, k),
             Command = IF p = "ref" THEN "read ref" ELSE "read student"
      PROVE  seen' = [seen EXCEPT ![p] = Output(test, k)] /\ Advance
  <2>1. p = IF Command = "read ref" THEN "ref" ELSE "student"
    BY <1>4 DEF Progs
  <2>2. Output(test, k) # Cut /\ Output(test, k) # NoFile
    BY <1>3, PartsFacts
  <2> QED
    BY <1>4, <2>1, <2>2 DEF Read
<1>5. RefResult = Result
  BY <1>3, ResultFiles DEF Result, RefResult
<1>6. CASE Command = "read ref"
  <2>1. at = 3
    BY <1>6, <1>0, <1>3, CommandCsim
  <2>2. RefResult = Output(test, PARTS)
    BY <1>2, <1>3, <1>5, <2>1 DEF Exact, ExactCsim
  <2>3. seen' = [seen EXCEPT !["ref"] = Output(test, PARTS)] /\ Advance
    BY <1>4, <1>6, <2>2 DEF Progs, PARTS, RefResult
  <2> QED
    BY <1>2, <1>3, <2>1, <2>3
<1>7. CASE Command = "read student"
  <2>1. at = 6
    BY <1>7, <1>0, <1>3, CommandCsim
  <2>2. Result = Output(test, Parts(test))
    BY <1>2, <1>3, <2>1 DEF Exact, ExactCsim
  <2>3. Parts(test) \in Nat
    BY <1>3, PartsFacts
  <2>4. seen' = [seen EXCEPT !["student"] = Output(test, Parts(test))] /\ Advance
    BY <1>4, <1>7, <2>2, <2>3 DEF Progs, Result
  <2> QED
    BY <1>2, <1>3, <2>1, <2>4
<1> QED
  BY <1>1, <1>6, <1>7

(* Every step of a session without faults keeps the files and results of    *)
(* the test under way what its programs made them.                          *)
LEMMA ExactNext == ScoreInv /\ [Next]_vars => Exact'
<1> SUFFICES ASSUME Shape, Exact, [Next]_vars, session' = "running", quiet' PROVE Exact'
  BY ExactOutside DEF ScoreInv
<1>0. at \in Nat \ {0} /\ tool \in Tools /\ files \in [FileNames -> File]
      /\ seen \in [Progs -> File]
  BY DEF Shape
<1>1. CASE Begin
  <2>1. at' = 1 /\ (quiet' => strays' = {})
    BY <1>1, Zenon DEF Begin
  <2> QED
    BY <2>1 DEF Exact, ExactSe, ExactCsim
<1>2. CASE SystemFails \/ Fail \/ Crash
  BY <1>2 DEF SystemFails, Fail, Crash
<1>3. CASE Launch
  <2>1. /\ Command \in Progs /\ test \in DOMAIN Tests[tool]
        /\ UNCHANGED <<session, quiet, strays, tool, test, at, pass, seen, agree>>
    BY <1>3, TestingCase DEF Launch, Session, Progs
  <2>2. Command = "ref" \/ Command = "student"
    BY <2>1 DEF Progs
  <2>3. CASE tool = "test-se"
    <3>1. at = 1 \/ (at = 2 /\ Command = "student")
      <4>1. (at = 1 <=> Command = "ref") /\ (at = 2 <=> Command = "student")
        BY <2>3, <1>0, CommandSe
      <4> QED
        BY <2>2, <4>1
    <3>2. Command = "student" => RefResult' = RefResult
      BY <1>3, <2>1, <2>3, <1>0, ResultFiles DEF Launch, RefResult
    <3> QED
      BY <2>1, <2>3, <3>1, <3>2 DEF Exact, ExactSe
  <2>4. CASE tool = "test-csim"
    <3>1. at = 2 \/ at = 5
      <4>1. (at = 2 <=> Command = "ref") /\ (at = 5 <=> Command = "student")
        BY <2>4, <1>0, CommandCsim
      <4> QED
        BY <2>2, <4>1
    <3> QED
      BY <2>1, <2>4, <3>1 DEF Exact, ExactCsim
  <2> QED
    BY <2>3, <2>4, <1>0 DEF Tools
<1>4. CASE Finish
  <2>1. /\ test \in DOMAIN Tests[tool] /\ Waiting /\ child.tool = tool /\ child.test = test
        /\ child.prog = Command /\ Command \in Progs
    BY <1>4, WaitingCase DEF Finish
  <2>2. /\ UNCHANGED <<session, quiet, strays, tool, test, pass, seen, agree>>
        /\ at' = at + 1
    BY <1>4 DEF Finish, Session, Local, Advance
  <2>3. CASE Command = "ref"
    <3>1. files' = [files EXCEPT ![FileOf(tool, "ref", test)] = Output(test, PARTS)]
      BY <1>4, <2>1, <2>3 DEF Finish, Write, OutputOf
    <3>2. RefResult' = Output(test, PARTS)
      BY <3>1, <2>1, <2>2, <1>0, ResultFiles DEF RefResult
    <3>3. CASE tool = "test-se"
      <4>1. at = 1
        BY <2>3, <3>3, <1>0, CommandSe
      <4>2. at' = 2
        BY <2>2, <4>1
      <4> QED
        BY <2>2, <3>2, <3>3, <4>2 DEF Exact, ExactSe
    <3>4. CASE tool = "test-csim"
      <4>1. at = 2
        BY <2>3, <3>4, <1>0, CommandCsim
      <4>2. at' = 3
        BY <2>2, <4>1
      <4>3. Result' = RefResult'
        BY <2>1, <2>2, <3>4, ResultFiles DEF Result, RefResult
      <4> QED
        BY <2>2, <3>2, <3>4, <4>2, <4>3 DEF Exact, ExactCsim
    <3> QED
      BY <3>3, <3>4, <1>0 DEF Tools
  <2>4. CASE Command = "student"
    <3>1. files' = [files EXCEPT ![FileOf(tool, "student", test)] = Output(test, Parts(test))]
      BY <1>4, <2>1, <2>4 DEF Finish, Write, OutputOf, Parts
    <3>2. Result' = Output(test, Parts(test)) /\ Parts(test)' = Parts(test)
      BY <3>1, <2>1, <2>2, <1>0, ResultFiles DEF Result, Parts
    <3>3. CASE tool = "test-se"
      <4>1. at = 2
        BY <2>4, <3>3, <1>0, CommandSe
      <4>2. at' = 3
        BY <2>2, <4>1
      <4>3. RefResult' = RefResult
        BY <3>1, <2>1, <2>2, <3>3, <1>0, ResultFiles DEF RefResult
      <4> QED
        BY <2>2, <3>2, <3>3, <4>1, <4>2, <4>3 DEF Exact, ExactSe
    <3>4. CASE tool = "test-csim"
      <4>1. at = 5
        BY <2>4, <3>4, <1>0, CommandCsim
      <4>2. at' = 6
        BY <2>2, <4>1
      <4> QED
        BY <2>2, <3>2, <3>4, <4>1, <4>2 DEF Exact, ExactCsim
    <3> QED
      BY <3>3, <3>4, <1>0 DEF Tools
  <2> QED
    BY <2>1, <2>3, <2>4 DEF Progs
<1>5. CASE Diff
  <2>1. tool = "test-se" /\ at = 3 /\ test \in DOMAIN Tests[tool]
    BY <1>5, <1>0, CommandSe, CommandCsim, TestingCase DEF Diff, Tools
  <2>2. /\ UNCHANGED <<session, quiet, strays, tool, test, agree>> /\ at' = at + 1
    BY <1>5 DEF Diff, Session, Advance
  <2>3. RefResult = Output(test, PARTS) /\ Result = Output(test, Parts(test))
    BY <2>1, <2>2 DEF Exact, ExactSe
  <2>4. Agreement(RefResult, Result) = Parts(test)
    BY <2>3 DEF Agreement, Output
  <2>5. pass' = Deserved(test)
    BY <1>5, <2>1, <2>4 DEF Diff, RefResult, Result, Deserved
  <2>6. Deserved(test)' = Deserved(test)
    BY <2>2 DEF Deserved, Parts
  <2> QED
    BY <2>1, <2>2, <2>5, <2>6 DEF Exact, ExactSe
<1>6. CASE Remove
  <2>1. /\ test \in DOMAIN Tests[tool] /\ Command \in {"rm", "rm ref", "rm student"}
        /\ UNCHANGED <<session, quiet, strays, tool, test, pass, seen, agree>>
        /\ at' = at + 1
    BY <1>6, TestingCase DEF Remove, Session, Advance
  <2>2. Parts(test)' = Parts(test) /\ Deserved(test)' = Deserved(test)
    BY <2>1 DEF Deserved, Parts
  <2>3. CASE tool = "test-se"
    <3>1. at = 4 \/ at = 5
      BY <2>1, <2>3, <1>0, CommandSe
    <3>2. at >= 4 /\ at' \notin {2, 3}
      <4>1. at' = at + 1
        BY <2>1
      <4> QED
        BY <3>1, <4>1
    <3>3. pass' = Deserved(test)'
      BY <2>1, <2>2, <2>3, <3>2 DEF Exact, ExactSe
    <3> QED
      BY <2>1, <2>3, <3>2, <3>3 DEF Exact, ExactSe
  <2>4. CASE tool = "test-csim"
    <3>1. at = 1 \/ at = 4 \/ at = 7
      BY <2>1, <2>4, <1>0, CommandCsim
    <3>2. at' # 3 /\ at' # 6 /\ (at' >= 4 => at >= 4) /\ (at' >= 7 => at >= 7)
      <4>1. at' = at + 1
        BY <2>1
      <4> QED
        BY <3>1, <4>1
    <3> QED
      BY <2>1, <2>2, <2>4, <3>2 DEF Exact, ExactCsim
  <2> QED
    BY <2>3, <2>4, <1>0 DEF Tools
<1>7. CASE Read
  <2>1. /\ UNCHANGED <<session, quiet, strays, tool, test, agree>> /\ at' = at + 1
        /\ tool = "test-csim"
    BY <1>7, ReadCase DEF Advance
  <2>2. CASE at = 3 /\ seen' = [seen EXCEPT !["ref"] = Output(test, PARTS)]
    <3>1. at' = 4 /\ seen'["ref"] = Output(test, PARTS)
      BY <2>1, <2>2, <1>0 DEF Progs
    <3> QED
      BY <2>1, <3>1 DEF Exact, ExactCsim
  <2>3. CASE at = 6 /\ seen' = [seen EXCEPT !["student"] = Output(test, Parts(test))]
    <3>1. seen["ref"] = Output(test, PARTS)
      BY <2>1, <2>3 DEF Exact, ExactCsim
    <3>2. /\ at' = 7 /\ seen'["student"] = Output(test, Parts(test))
          /\ seen'["ref"] = Output(test, PARTS) /\ Parts(test)' = Parts(test)
      BY <2>1, <2>3, <3>1, <1>0 DEF Progs, Parts
    <3> QED
      BY <2>1, <3>2 DEF Exact, ExactCsim
  <2> QED
    BY <1>7, <2>2, <2>3, ReadCase
<1>8. CASE EndTest
  BY <1>8, ExactReturned DEF EndTest, Session
<1>9. CASE Score \/ Alarm
  BY <1>9 DEF Score, Alarm
<1>10. ASSUME NEW c \in strays, StrayEnds(c) PROVE Exact'
  BY <1>10 DEF StrayEnds, Exact
<1>11. CASE UNCHANGED vars
  BY <1>11 DEF vars, Exact, ExactSe, ExactCsim, Result, RefResult, Parts, Deserved
<1> QED
  BY <1>1, <1>2, <1>3, <1>4, <1>5, <1>6, <1>7, <1>8, <1>9, <1>10, <1>11 DEF Next

(* Every verdict returned without faults is what the test deserves.         *)
LEMMA JustNext == ScoreInv /\ [Next]_vars => Just'
<1> SUFFICES ASSUME Shape, Exact, Just, [Next]_vars, session' = "running", quiet' PROVE Just'
  BY ExactOutside DEF ScoreInv
<1>0. at \in Nat \ {0} /\ tool \in Tools
  BY DEF Shape
<1>1. CASE Begin
  BY <1>1 DEF Begin, Just
<1>2. CASE SystemFails \/ Fail \/ Crash
  BY <1>2 DEF SystemFails, Fail, Crash
<1>3. ASSUME UNCHANGED <<session, quiet, tool, agree, verdicts>> PROVE Just'
  BY <1>3 DEF Just, Deserved, Parts
<1>4. CASE Launch \/ Finish \/ Diff \/ Remove
  BY <1>3, <1>4 DEF Launch, Finish, Diff, Remove, Session, Advance
<1>5. CASE Read
  BY <1>3, <1>5, ReadCase DEF Advance
<1>6. CASE EndTest
  <2> DEFINE v == IF tool = "test-se" THEN pass ELSE Agreement(seen["ref"], seen["student"])
  <2>1. /\ Return(v) /\ UNCHANGED <<session, quiet, tool, agree>> /\ Command = "return"
    BY <1>6 DEF EndTest, Session
  <2>2. v = Deserved(test)
    <3>1. CASE tool = "test-se"
      <4>1. at >= 4
        BY <2>1, <3>1, <1>0, CommandSe
      <4> QED
        BY <2>1, <3>1, <4>1 DEF Exact, ExactSe
    <3>2. CASE tool = "test-csim"
      <4>1. at >= 4 /\ at >= 7
        BY <2>1, <3>2, <1>0, CommandCsim
      <4>2. seen["ref"] = Output(test, PARTS) /\ seen["student"] = Output(test, Parts(test))
        BY <2>1, <3>2, <4>1 DEF Exact, ExactCsim
      <4> QED
        BY <3>2, <4>2 DEF Agreement, Output, Deserved
    <3> QED
      BY <3>1, <3>2, <1>0 DEF Tools
  <2> HIDE DEF v
  <2>3. /\ DOMAIN verdicts' = DOMAIN verdicts \cup {test}
        /\ verdicts'[test].given = v
        /\ \A n \in DOMAIN verdicts : verdicts'[n] = verdicts[n]
    <3> DEFINE r == [given |-> v, own |-> delivered]
    <3>1. verdicts' = Append(verdicts, r) /\ r.given = v
      BY <2>1 DEF Return
    <3>2. verdicts \in Seq([given : Nat, own : File]) /\ Len(verdicts) = test - 1
      BY DEF Shape
    <3> HIDE DEF r
    <3> QED
      BY <3>1, <3>2 DEF Shape
  <2>4. \A n : Deserved(n)' = Deserved(n)
    BY <2>1 DEF Deserved, Parts
  <2> QED
    BY <2>1, <2>2, <2>3, <2>4 DEF Just
<1>7. CASE Score \/ Alarm
  BY <1>7 DEF Score, Alarm
<1>8. ASSUME NEW c \in strays, StrayEnds(c) PROVE Just'
  BY <1>3, <1>8 DEF StrayEnds
<1>9. CASE UNCHANGED vars
  BY <1>3, <1>9 DEF vars
<1> QED
  BY <1>1, <1>2, <1>4, <1>5, <1>6, <1>7, <1>8, <1>9 DEF Next

(* The integer quotient makes a directory all or nothing.                   *)
LEMMA AllOrNothing ==
  ASSUME NEW passed \in Nat, NEW num \in Nat \ {0}, passed <= num, NEW w \in Nat
  PROVE  quotient(passed, num, w) = IF passed = num THEN w ELSE 0
<1>1. CASE passed = num
  <2>1. passed \div num = 1
    BY <1>1
  <2> QED
    BY <1>1, <2>1 DEF quotient
<1>2. CASE passed < num
  <2>1. passed \div num = 0
    BY <1>2
  <2> QED
    BY <1>2, <2>1 DEF quotient
<1> QED
  BY <1>1, <1>2

(* When all tests are over, a directory counts what the student's programs  *)
(* deserve for it.                                                          *)
LEMMA DirExact ==
  ASSUME Shape, Just, session = "running", quiet, test > Len(Tests[tool]),
         NEW d \in DOMAIN Weight[tool]
  PROVE  DirScore(d) = Earned(d)
<1>0. /\ tool \in Tools /\ Len(Tests[tool]) \in Nat
      /\ DOMAIN Tests[tool] = 1 .. Len(Tests[tool])
  BY TestFacts DEF Shape
<1>1. \A n \in InDir(d) : n \in DOMAIN Tests[tool] /\ n \in DOMAIN verdicts
  <2>1. verdicts \in Seq([given : Nat, own : File]) /\ Len(verdicts) = test - 1
    BY DEF Shape
  <2>2. DOMAIN verdicts = 1 .. test - 1 /\ test \in Nat
    BY <2>1 DEF Shape
  <2> QED
    BY <1>0, <2>2 DEF InDir
<1>2. \A n \in InDir(d) : verdicts[n].given = Deserved(n)
  BY <1>1 DEF Just
<1>3. CASE tool = "test-se"
  <2> DEFINE good == {n \in InDir(d) : Parts(n) = PARTS}
  <2>1. Passed(d) = good
    BY <1>2, <1>3 DEF Passed, Deserved, PARTS
  <2>2. IsFiniteSet(InDir(d)) /\ InDir(d) # {}
    <3>1. IsFiniteSet(1 .. Len(Tests[tool]))
      BY <1>0, FS_Interval
    <3>2. InDir(d) \subseteq 1 .. Len(Tests[tool])
      BY <1>0, <1>1
    <3>3. \E n \in DOMAIN Tests[tool] : Tests[tool][n].dir = d
      BY <1>0, HarnessAssumption
    <3> QED
      BY <3>1, <3>2, <3>3, FS_Subset DEF InDir
  <2>3. good \subseteq InDir(d)
    OBVIOUS
  <2> HIDE DEF good
  <2>4. /\ Cardinality(good) \in Nat /\ Cardinality(InDir(d)) \in Nat \ {0}
        /\ Cardinality(good) <= Cardinality(InDir(d))
        /\ Cardinality(good) = Cardinality(InDir(d)) <=> good = InDir(d)
    BY <2>2, <2>3, FS_Subset, FS_EmptySet, FS_CardinalityType
  <2>5. good = InDir(d) <=> \A n \in InDir(d) : agree[<<tool, n>>] = PARTS
    BY DEF good, Parts
  <2>6. Weight[tool][d] \in Nat
    BY <1>0, HarnessAssumption
  <2> QED
    BY <1>3, <2>1, <2>4, <2>5, <2>6, AllOrNothing DEF DirScore, Earned
<1>4. CASE tool = "test-csim"
  <2>1. tool # "test-se"
    BY <1>4
  <2>2. [n \in InDir(d) |-> verdicts[n].given] = [n \in InDir(d) |-> agree[<<tool, n>>]]
    BY <1>2, <2>1 DEF Deserved, Parts
  <2> QED
    BY <2>1, <2>2, Zenon DEF DirScore, Earned
<1> QED
  BY <1>0, <1>3, <1>4 DEF Tools

(* Score computes what is deserved; no other step disturbs it.              *)
LEMMA ScoreNext == ScoreInv /\ [Next]_vars => ScoreExact'
<1> SUFFICES ASSUME Shape, Exact, Just, ScoreExact, [Next]_vars, session' = "scored", quiet'
             PROVE  ScoreExact'
  BY Zenon DEF ScoreInv, ScoreExact
<1>1. CASE Score
  <2>1. /\ session = "running" /\ quiet /\ test > Len(Tests[tool])
        /\ score' = Total([d \in DOMAIN Weight[tool] |-> DirScore(d)])
        /\ UNCHANGED <<tool, agree>>
    BY <1>1 DEF Score
  <2>2. \A d \in DOMAIN Weight[tool] : DirScore(d) = Earned(d)
    BY <2>1, DirExact
  <2>3. [d \in DOMAIN Weight[tool] |-> DirScore(d)] = [d \in DOMAIN Weight[tool] |-> Earned(d)]
    BY <2>2, Zenon
  <2>4. \A d : Earned(d)' = Earned(d)
    BY <2>1, Zenon DEF Earned, InDir
  <2>5. Total([d \in DOMAIN Weight[tool] |-> Earned(d)])'
          = Total([d \in DOMAIN Weight[tool] |-> Earned(d)])
    BY <2>1, <2>4, Zenon
  <2> QED
    BY <2>1, <2>3, <2>5, Zenon DEF ScoreExact
<1>2. ASSUME session = "scored", quiet, UNCHANGED <<tool, agree, score>>
      PROVE  ScoreExact'
  <2>1. \A d : Earned(d)' = Earned(d)
    BY <1>2, Zenon DEF Earned, InDir
  <2>2. Total([d \in DOMAIN Weight[tool] |-> Earned(d)])'
          = Total([d \in DOMAIN Weight[tool] |-> Earned(d)])
    BY <1>2, <2>1, Zenon
  <2> QED
    BY <1>2, <2>2, Zenon DEF ScoreExact
<1>3. CASE Begin \/ Alarm
  BY <1>3 DEF Begin, Alarm
<1>4. CASE SystemFails \/ Launch \/ Diff \/ Remove \/ Read \/ EndTest
  BY <1>4 DEF SystemFails, Launch, Diff, Remove, Read, EndTest, Session, Testing
<1>5. CASE Finish \/ Fail \/ Crash
  BY <1>5 DEF Finish, Fail, Crash, Session, Shape
<1>6. ASSUME NEW c \in strays, StrayEnds(c) PROVE ScoreExact'
  BY <1>2, <1>6 DEF StrayEnds
<1>7. CASE UNCHANGED vars
  BY <1>2, <1>7 DEF vars
<1> QED
  BY <1>1, <1>3, <1>4, <1>5, <1>6, <1>7 DEF Next

(* A session in which no program fails, dies or is killed gives the score   *)
(* the student's programs deserve, for all lists of tests and weights: no   *)
(* test is compared with another's results, none is skipped or counted      *)
(* twice, and test-se's integer quotient makes a directory all or nothing.  *)
THEOREM ScoreExactHolds == Spec => []ScoreExact
<1>1. Init => ScoreInv
  <2>1. Init => Shape
    BY EarnedInit DEF EarnedInv
  <2>2. Init => session = "off"
    BY DEF Init
  <2> QED
    BY <2>1, <2>2 DEF ScoreInv, Exact, Just, ScoreExact
<1>2. ScoreInv /\ [Next]_vars => ScoreInv'
  BY ShapeNext, ExactNext, JustNext, ScoreNext DEF ScoreInv
<1>3. ScoreInv => ScoreExact
  BY DEF ScoreInv
<1> QED
  BY <1>1, <1>2, <1>3, PTL DEF Spec
=============================================================================
